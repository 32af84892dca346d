------------------------- MODULE ChatServer_proofs --------------------------
(***************************************************************************)
(* The chat server for any number of clients, users, rooms and descriptors,*)
(* whatever calls fail and whoever leaves: its types, that only registered *)
(* users get a session, that whoever is logged in has one, for whom a      *)
(* request is carried out, and which members a new room gets.              *)
(***************************************************************************)
EXTENDS ChatServer, FiniteSetTheorems, WellFoundedInduction, TLAPS

-----------------------------------------------------------------------------
(* Least and greatest elements.                                            *)

(* A set of natural numbers has a least element. *)
LEMMA MinMember ==
  ASSUME NEW S \in SUBSET Nat, S # {}
  PROVE  Min(S) \in S /\ \A y \in S : Min(S) <= y
<1> DEFINE R == OpToRel(<, Nat)
<1>1. IsWellFoundedOn(R, Nat)
  BY NatLessThanWellFounded
<1>2. \A x, y \in Nat : x < y => <<x, y>> \in R
  BY DEF OpToRel
<1> HIDE DEF R
<1>3. PICK x \in S : \A y \in S : ~ (<<y, x>> \in R)
  BY <1>1, WFMin, Zenon
<1>4. ASSUME NEW y \in S PROVE x <= y
  <2>1. x \in Nat /\ y \in Nat /\ ~ (y < x)
    BY <1>2, <1>3
  <2>2. QED
    BY <2>1
<1>5. QED
  BY <1>4 DEF Min

(* A finite set of natural numbers has a greatest element. *)
LEMMA MaxMember ==
  ASSUME NEW S \in SUBSET Nat, S # {}, IsFiniteSet(S)
  PROVE  Max(S) \in S
<1> DEFINE Above(x) == {y \in S : y > x}
<1> DEFINE T == {Above(x) : x \in S}
<1>1. T \subseteq FiniteSubsetsOf(S) /\ T # {}
  <2>1. FiniteSubsetsOf(S) = SUBSET S
    BY FS_FiniteSubsetsOfFinite
  <2>2. \A x \in S : Above(x) \in SUBSET S
    OBVIOUS
  <2>3. PICK x \in S : TRUE
    OBVIOUS
  <2> HIDE DEF Above
  <2>4. Above(x) \in T
    OBVIOUS
  <2>5. T \subseteq SUBSET S
    BY <2>2
  <2> HIDE DEF T
  <2>6. QED
    BY <2>1, <2>4, <2>5
<1>2. PICK X \in T : \A Y \in T : ~ (<<Y, X>> \in StrictSubsetOrdering(S))
  BY <1>1, FS_StrictSubsetOrderingWellFounded, WFMin
<1>3. PICK x \in S : X = Above(x)
  BY <1>2
<1>4. ASSUME NEW y \in S, y > x PROVE FALSE
  <2>1. Above(y) \subseteq Above(x) /\ y \in Above(x) /\ y \notin Above(y)
    <3>1. x \in Nat /\ y \in Nat
      OBVIOUS
    <3>2. \A z \in S : z > y => z > x
      BY <3>1, <1>4
    <3>3. Above(y) \subseteq Above(x)
      BY <3>2
    <3>4. y \in Above(x) /\ y \notin Above(y)
      BY <3>1, <1>4
    <3>5. QED
      BY <3>3, <3>4
  <2>2. Above(y) \in T
    OBVIOUS
  <2>3. <<Above(y), Above(x)>> \in StrictSubsetOrdering(S)
    BY <2>1 DEF StrictSubsetOrdering
  <2>4. QED
    BY <2>2, <2>3, <1>2, <1>3
<1>5. \A y \in S : x >= y
  BY <1>4
<1>6. QED
  BY <1>5 DEF Max

-----------------------------------------------------------------------------
(* The tables.                                                             *)

(* The calls the handlers make; a room that was just inserted may have any *)
(* number.                                                                 *)
ServerCalls ==
         [name : SingleUser, user : Users]
    \cup [name : SinglePwd, user : Users, pwd : Passwords]
    \cup [name : {"insert_members"}, room : Int, users : SUBSET Users]
    \cup [name : SingleReact, room : Rooms, user : Users, chat : Nat, type : Reacts]
    \cup [name : SingleDelete, room : Rooms, user : Users, chat : Nat]
    \cup [name : MultiRoomUser, room : Rooms, user : Users]
    \cup [name : {"get_members"}, room : Rooms]
    \cup [name : {"insert_room"}]

(* Finite tables: messages and rooms can be counted. *)
Tables(d) == d \in Db /\ IsFiniteSet(d.room) /\ IsFiniteSet(d.chat)

(* Accounts and members stay. *)
Stay(d, e) ==
    /\ \A u \in Users : d.account[u] # NoAccount => e.account[u] # NoAccount
    /\ \A r \in Rooms : Members(r, d) \subseteq Members(r, e)

CallNames == SingleUser \cup SinglePwd \cup SingleReact \cup SingleDelete
             \cup MultiRoomUser \cup {"insert_members", "get_members", "insert_room"}

(* Which arguments a call carries, by its name. *)
LEMMA CallFields ==
  ASSUME NEW c \in ServerCalls
  PROVE  /\ c.name \in CallNames
         /\ c.name \in SingleUser => c.user \in Users
         /\ c.name \in SinglePwd => c.user \in Users /\ c.pwd \in Passwords
         /\ c.name = "insert_members" => c.users \in SUBSET Users
         /\ c.name \in SingleReact =>
               /\ c.room \in Rooms /\ c.user \in Users
               /\ c.chat \in Nat /\ c.type \in Reacts
         /\ c.name \in SingleDelete =>
               c.room \in Rooms /\ c.user \in Users /\ c.chat \in Nat
         /\ c.name \in MultiRoomUser => c.room \in Rooms /\ c.user \in Users
         /\ c.name = "get_members" => c.room \in Rooms
  BY DEF ServerCalls, CallNames, SingleUser, SinglePwd, SingleReact, SingleDelete,
         MultiRoomUser

(* The next message of a room has a number. *)
LEMMA NextIsNat ==
  ASSUME NEW d, Tables(d), NEW r
  PROVE  NextChatId(r, d) \in Nat
<1>1. ChatIds(r, d) \in SUBSET Nat
  BY DEF Tables, Db, ChatRows, ChatIds
<1>2. IsFiniteSet(ChatIds(r, d))
  <2> DEFINE T == {x \in d.chat : x.room = r}
             f == [x \in T |-> x.id]
  <2>1. IsFiniteSet(T)
    BY FS_Subset DEF Tables
  <2>2. ChatIds(r, d) = {x.id : x \in T}
    BY DEF ChatIds
  <2>3. f \in Surjection(T, ChatIds(r, d))
    BY <2>2 DEF Surjection
  <2>4. QED
    BY <2>1, <2>3, FS_Surjection
<1>3. ChatIds(r, d) # {} => Max(ChatIds(r, d)) \in Nat
  BY <1>1, <1>2, MaxMember
<1>4. QED
  BY <1>3 DEF NextChatId

(* Tables that differ in one column only.                                  *)
LEMMA AccountOnly ==
  ASSUME NEW d, Tables(d), NEW u \in Users, NEW p \in Passwords
  PROVE  LET e == [d EXCEPT !.account[u] = p] IN Tables(e) /\ Stay(d, e)
  BY PasswordsAssumption DEF Tables, Db, Accounts, Stay, Members

LEMMA ReadsOnly ==
  ASSUME NEW d, Tables(d), NEW f \in [Rooms -> [Users -> Nat \cup {NoMember}]],
         \A r \in Rooms, u \in Users : d.lastRead[r][u] # NoMember => f[r][u] # NoMember
  PROVE  LET e == [d EXCEPT !.lastRead = f] IN Tables(e) /\ Stay(d, e)
  BY DEF Tables, Db, Stay, Members

LEMMA ChatOnly ==
  ASSUME NEW d, Tables(d), NEW S \in SUBSET ChatRows, IsFiniteSet(S)
  PROVE  LET e == [d EXCEPT !.chat = S] IN Tables(e) /\ Stay(d, e)
  BY DEF Tables, Db, Stay, Members

LEMMA OthersOnly ==
  ASSUME NEW d, Tables(d),
         NEW e, e \in {[d EXCEPT !.token = S] : S \in SUBSET Users}
                 \cup {[d EXCEPT !.react = S] : S \in SUBSET ReactRows}
                 \cup {[d EXCEPT !.hidden = S] : S \in SUBSET HiddenRows}
                 \cup {[d EXCEPT !.room = S] : S \in {R \in SUBSET Nat : IsFiniteSet(R)}}
                 \cup {d}
  PROVE  Tables(e) /\ Stay(d, e)
  BY DEF Tables, Db, Stay, Members

(* A call leaves tables of the same types behind, and no account and no    *)
(* member of a room goes away.                                             *)
LEMMA EffectKeeps ==
  ASSUME NEW d, Tables(d), NEW c \in ServerCalls
  PROVE  Tables(Effect(c, d)) /\ Stay(d, Effect(c, d))
<1> USE DEF SingleUser, SinglePwd, SingleReact, SingleDelete, MultiRoomUser
<1>0. d \in Db /\ c.name \in CallNames
  BY CallFields DEF Tables
<1>1. CASE c.name = "insert_chat"
  <2> DEFINE x == [room |-> c.room, user |-> c.user, deleted |-> FALSE,
                   id |-> Cardinality(RoomChats(c.room, d))]
  <2>1. Cardinality(RoomChats(c.room, d)) \in Nat
    <3>1. RoomChats(c.room, d) \in SUBSET d.chat
      BY DEF RoomChats
    <3>2. QED
      BY <3>1, FS_Subset, FS_CardinalityType DEF Tables
  <2>2. x \in ChatRows
    BY <1>1, <2>1, CallFields DEF ChatRows
  <2>3. Effect(c, d) = [d EXCEPT !.chat = d.chat \cup {x}]
    BY <1>0, <1>1 DEF Effect
  <2>4. d.chat \cup {x} \in SUBSET ChatRows /\ IsFiniteSet(d.chat \cup {x})
    BY <2>2, FS_AddElement DEF Tables, Db
  <2> HIDE DEF x
  <2>5. QED
    BY <2>3, <2>4, ChatOnly
<1>2. CASE c.name = "insert_room"
  <2> DEFINE n == Cardinality(d.room)
  <2>1. Effect(c, d) = [d EXCEPT !.room = d.room \cup {n}]
    BY <1>0, <1>2 DEF Effect
  <2>2. n \in Nat /\ IsFiniteSet(d.room \cup {n})
    BY FS_CardinalityType, FS_AddElement DEF Tables
  <2>3. d.room \cup {n} \in {R \in SUBSET Nat : IsFiniteSet(R)}
    BY <2>2 DEF Tables, Db
  <2> HIDE DEF n
  <2>4. QED
    BY <2>1, <2>3, OthersOnly
<1>3. CASE c.name = "chat_list"
  <2>1. Effect(c, d) = MarkRead(c, d)
    BY <1>3 DEF Effect, Write
  <2>2. c.room \in Rooms /\ c.user \in Users /\ NextChatId(c.room, d) \in Nat
    BY <1>3, CallFields, NextIsNat
  <2>3. CASE d.lastRead[c.room][c.user] = NoMember
    BY <2>1, <2>3, OthersOnly DEF MarkRead
  <2>4. CASE d.lastRead[c.room][c.user] # NoMember
    <3> DEFINE f == [d.lastRead EXCEPT ![c.room][c.user] = NextChatId(c.room, d)]
    <3>1. Effect(c, d) = [d EXCEPT !.lastRead = f]
      BY <2>1, <2>4, <1>0 DEF MarkRead, Db
    <3>2. f \in [Rooms -> [Users -> Nat \cup {NoMember}]]
      BY <2>2, <1>0 DEF Db
    <3>3. \A r \in Rooms, u \in Users : d.lastRead[r][u] # NoMember => f[r][u] # NoMember
      BY <2>2, <1>0 DEF Db, NoMember
    <3> HIDE DEF f
    <3>4. QED
      BY <3>1, <3>2, <3>3, ReadsOnly
  <2>5. QED
    BY <2>3, <2>4
<1>4. CASE c.name = "get_members"
  <2>1. Effect(c, d) = d
    BY <1>4 DEF Effect
  <2>2. QED
    BY <2>1, OthersOnly
<1>5. CASE c.name \notin {"insert_chat", "insert_room", "chat_list", "get_members"}
  <2>1. Effect(c, d) \in {d, Write(c.name, c, d, NoVars)}
    BY <1>5 DEF Effect, Statements
  <2>2. CASE c.name = "insert_user"
    <3>1. c.user \in Users /\ c.pwd \in Passwords
      BY <2>2, CallFields
    <3>2. Write(c.name, c, d, NoVars) = [d EXCEPT !.account[c.user] = c.pwd]
      BY <2>2 DEF Write
    <3>3. QED
      BY <2>1, <3>1, <3>2, AccountOnly, OthersOnly
  <2>3. CASE c.name = "insert_token"
    <3>1. Write(c.name, c, d, NoVars) = [d EXCEPT !.token = d.token \cup {c.user}]
      BY <2>3, <1>0 DEF Write, Db
    <3>2. d.token \cup {c.user} \in SUBSET Users
      BY <2>3, <1>0, CallFields DEF Db
    <3>3. QED
      BY <2>1, <3>1, <3>2, OthersOnly
  <2>4. CASE c.name = "insert_members"
    <3>1. Write(c.name, c, d, NoVars) = AddMembers(c, d) /\ c.users \in SUBSET Users
      BY <2>4, CallFields DEF Write
    <3> DEFINE g == [u \in Users |-> IF u \in c.users THEN 0 ELSE d.lastRead[c.room][u]]
    <3> DEFINE f == [d.lastRead EXCEPT ![c.room] = g]
    <3>2. AddMembers(c, d) = [d EXCEPT !.lastRead = f]
      BY <1>0 DEF AddMembers, Db
    <3>3. f \in [Rooms -> [Users -> Nat \cup {NoMember}]]
      <4>1. c.room \in Rooms => g \in [Users -> Nat \cup {NoMember}]
        BY <1>0 DEF Db
      <4> HIDE DEF g
      <4>2. QED
        BY <4>1, <1>0 DEF Db
    <3>4. \A r \in Rooms, u \in Users : d.lastRead[r][u] # NoMember => f[r][u] # NoMember
      BY <1>0 DEF Db, NoMember
    <3> HIDE DEF f
    <3>5. QED
      BY <2>1, <3>1, <3>2, <3>3, <3>4, ReadsOnly, OthersOnly
  <2>5. CASE c.name = "insert_react"
    <3>1. Write(c.name, c, d, NoVars) = [d EXCEPT !.react = d.react \cup {NewReaction(c)}]
      BY <2>5, <1>0 DEF Write, Db
    <3>2. NewReaction(c) \in ReactRows
      BY <2>5, CallFields DEF NewReaction, ReactRows
    <3>3. d.react \cup {NewReaction(c)} \in SUBSET ReactRows
      BY <3>2, <1>0 DEF Db
    <3>4. QED
      BY <2>1, <3>1, <3>3, OthersOnly
  <2>6. CASE c.name = "update_react"
    <3> DEFINE g(x) == IF x \in Reactions(c.user, c.room, c.chat, d)
                       THEN [x EXCEPT !.type = c.type] ELSE x
    <3>1. Write(c.name, c, d, NoVars) = [d EXCEPT !.react = {g(x) : x \in d.react}]
      BY <2>6, <1>0 DEF Write, UpdateReaction, Db
    <3>2. \A x \in ReactRows : g(x) \in ReactRows
      BY <2>6, CallFields DEF ReactRows
    <3> HIDE DEF g
    <3>3. {g(x) : x \in d.react} \in SUBSET ReactRows
      BY <3>2, <1>0 DEF Db
    <3>4. QED
      BY <2>1, <3>1, <3>3, OthersOnly
  <2>7. CASE c.name = "delete_all"
    <3> DEFINE g(x) == IF x.room = c.room /\ x.id = c.chat
                       THEN [x EXCEPT !.deleted = TRUE] ELSE x
    <3> DEFINE S == {g(x) : x \in d.chat}
    <3>1. Write(c.name, c, d, NoVars) = [d EXCEPT !.chat = S]
      BY <2>7, <1>0 DEF Write, DeleteAll, Db
    <3>2. \A x \in ChatRows : g(x) \in ChatRows
      BY DEF ChatRows
    <3> HIDE DEF g
    <3>3. S \in SUBSET ChatRows
      BY <3>2, <1>0 DEF Db
    <3>4. IsFiniteSet(S)
      <4>1. [x \in d.chat |-> g(x)] \in Surjection(d.chat, S)
        BY DEF Surjection
      <4>2. QED
        BY <4>1, FS_Surjection DEF Tables
    <3> HIDE DEF S
    <3>5. QED
      BY <2>1, <3>1, <3>3, <3>4, ChatOnly, OthersOnly
  <2>8. CASE c.name = "delete_self"
    <3>1. Write(c.name, c, d, NoVars) = [d EXCEPT !.hidden = d.hidden \cup {Mark(c)}]
      BY <2>8, <1>0 DEF Write, Db
    <3>2. Mark(c) \in HiddenRows
      BY <2>8, CallFields DEF Mark, HiddenRows
    <3>3. d.hidden \cup {Mark(c)} \in SUBSET HiddenRows
      BY <3>2, <1>0 DEF Db
    <3>4. QED
      BY <2>1, <3>1, <3>3, OthersOnly
  <2>9. CASE c.name \in {"count_token", "update_token", "find_user", "search_user",
                         "room_list", "match_user", "find_react"}
    <3>1. Write(c.name, c, d, NoVars) = d
      BY <2>9 DEF Write
    <3>2. QED
      BY <2>1, <3>1, OthersOnly
  <2>10. QED
    BY <1>0, <1>5, <2>2, <2>3, <2>4, <2>5, <2>6, <2>7, <2>8, <2>9 DEF CallNames
<1>6. QED
  BY <1>1, <1>2, <1>3, <1>4, <1>5

-----------------------------------------------------------------------------
(* Types.                                                                  *)

Posts == {"SEND_CHAT", "SEND_CHAT_REACT", "DELETE_CHAT"}

RoomReqs == [type : {"CREATE_ROOM"}, users : SUBSET Users, twice : BOOLEAN, room : Int]

Reqs ==
         [type : {"SIGNUP", "LOGIN"}, user : Users, pwd : Passwords]
    \cup [type : {"SSE_CONNECT"}, user : Users]
    \cup [type : {"SEND_CHAT", "UPDATE_CHAT_LIST"}, room : Rooms]
    \cup [type : {"SEND_CHAT_REACT"}, room : Rooms, chat : Nat, react : Reacts]
    \cup [type : {"DELETE_CHAT"}, room : Rooms, chat : Nat, all : BOOLEAN]
    \cup [type : {"none", "UPDATE_ROOM_LIST", "Search_User"}]
    \cup RoomReqs

(* What a request carries, by its type. *)
LEMMA ReqFields ==
  ASSUME NEW q \in Reqs
  PROVE  /\ q.type \in {"SIGNUP", "LOGIN", "SSE_CONNECT", "UPDATE_CHAT_LIST", "none",
                        "UPDATE_ROOM_LIST", "Search_User", "CREATE_ROOM"} \cup Posts
         /\ q.type \in {"SIGNUP", "LOGIN"} => q.user \in Users /\ q.pwd \in Passwords
         /\ q.type = "SSE_CONNECT" => q.user \in Users
         /\ q.type \in Posts \cup {"UPDATE_CHAT_LIST"} => q.room \in Rooms
         /\ q.type \in {"SEND_CHAT_REACT", "DELETE_CHAT"} => q.chat \in Nat
         /\ q.type = "SEND_CHAT_REACT" => q.react \in Reacts
         /\ q.type = "CREATE_ROOM" => q \in RoomReqs
  BY DEF Reqs, RoomReqs, Posts

Worker == [pc : Steps, req : Reqs, ss : Nat, rows : SUBSET Users, answer : Statuses]
SessionRec == [id : Users \cup {Freed}, fd : Fds, sse : Fds \cup {NoFd}]
ClientRec == [rpc : Fds \cup {NoFd}, sse : Fds \cup {NoFd},
              user : Users \cup {NoUser}, early : BOOLEAN,
              ear : {"off", "start", "wait", "on", "dead"}]

LoginSteps == {"count_token", "insert_token", "update_token", "add_session"}

(* A worker is at a step of the handler of its request, and a handler that *)
(* needs a session has found one: p is the step, t the type of the request *)
(* and n the position of the session.                                      *)
Suits(p, t, n) ==
    /\ p \in {"closed", "recv"} <=> t = "none"
    /\ p \in {"find_user", "insert_user"} => t = "SIGNUP"
    /\ p \in LoginSteps \cup {"match_user"} => t = "LOGIN"
    /\ p = "register" => t = "SSE_CONNECT"
    /\ p = "insert_chat" => t = "SEND_CHAT"
    /\ p \in {"find_react", "insert_react", "update_react"} => t = "SEND_CHAT_REACT"
    /\ p = "delete" => t = "DELETE_CHAT"
    /\ p \in {"get_members", "push"} => t \in Posts
    /\ p \in {"insert_room", "insert_members"} => t = "CREATE_ROOM"
    /\ p = "room_list" => t = "UPDATE_ROOM_LIST"
    /\ p = "chat_list" => t = "UPDATE_CHAT_LIST"
    /\ p \in {"search_user", "free"} => t = "Search_User"
    /\ t \in NeedsSession /\ p # "reply" => n # 0

Fits(w) == Suits(w.pc, w.req.type, w.ss)

Typed ==
    /\ up \in BOOLEAN
    /\ Tables(db)
    /\ sessions \in Seq(SessionRec)
    /\ work \in [Fds -> Worker]
    /\ \A f \in Fds : Fits(work[f]) /\ work[f].ss <= Len(sessions)
    /\ client \in [Clients -> ClientRec]

(* The workers of other descriptors are where they were. *)
OthersWait(f) == \A g \in Fds \ {f} : work'[g] = work[g]

(* Worker f goes on to step p with the request and the session it has. *)
Onward(f, p) ==
    /\ work' \in [Fds -> Worker] /\ OthersWait(f)
    /\ work'[f].pc = p /\ work'[f].req = work[f].req /\ work'[f].ss = work[f].ss

LEMMA IdleWorker == Idle \in Worker /\ Fits(Idle) /\ Closed \in Worker /\ Fits(Closed)
<1>1. NoReq \in Reqs
  BY DEF NoReq, Reqs
<1>2. NoReq.type = "none"
  BY DEF NoReq
<1> HIDE DEF NoReq
<1>3. Idle \in Worker /\ Closed \in Worker
  BY <1>1 DEF Idle, Closed, Worker, Steps, Statuses
<1>4. Fits(Idle) /\ Fits(Closed)
  BY <1>2 DEF Fits, Suits, Idle, Closed, LoginSteps, NeedsSession
<1>5. QED
  BY <1>3, <1>4

(* What the steps shared by the handlers do to the workers.                *)
LEMMA GotoOnward ==
  ASSUME work \in [Fds -> Worker], NEW f \in Fds, NEW p \in Steps, Goto(f, p)
  PROVE  Onward(f, p) /\ work'[f].rows = work[f].rows
<1>1. work[f] \in Worker
  OBVIOUS
<1>2. work' = [work EXCEPT ![f] = [work[f] EXCEPT !.pc = p]]
  BY DEF Goto
<1>3. [work[f] EXCEPT !.pc = p] \in Worker
  BY <1>1 DEF Worker
<1>4. work' \in [Fds -> Worker] /\ OthersWait(f)
  BY <1>2, <1>3 DEF OthersWait
<1>5. work'[f] = [work[f] EXCEPT !.pc = p]
  BY <1>2
<1>6. QED
  BY <1>1, <1>4, <1>5 DEF Onward, Worker

LEMMA ReplyOnward ==
  ASSUME work \in [Fds -> Worker], NEW f \in Fds, NEW s \in Statuses, Reply(f, s)
  PROVE  Onward(f, "reply") /\ work'[f].answer = s
<1>1. work[f] \in Worker
  OBVIOUS
<1>2. work' = [work EXCEPT ![f] = [work[f] EXCEPT !.pc = "reply", !.answer = s]]
  BY DEF Reply
<1>3. [work[f] EXCEPT !.pc = "reply", !.answer = s] \in Worker
  BY <1>1 DEF Worker, Steps
<1>4. work' \in [Fds -> Worker] /\ OthersWait(f)
  BY <1>2, <1>3 DEF OthersWait
<1>5. work'[f] = [work[f] EXCEPT !.pc = "reply", !.answer = s]
  BY <1>2
<1>6. QED
  BY <1>1, <1>4, <1>5 DEF Onward, Worker

LEMMA FinishIdle ==
  ASSUME work \in [Fds -> Worker], NEW f \in Fds, Finish(f)
  PROVE  work' \in [Fds -> Worker] /\ OthersWait(f) /\ work'[f] = Idle
  BY IdleWorker DEF Finish, OthersWait

(* The types are those of TypeOK. *)
LEMMA TypedOK == Typed => TypeOK
<1> SUFFICES ASSUME Typed PROVE TypeOK
  OBVIOUS
<1>1. \A i \in DOMAIN sessions : sessions[i] \in SessionRec
  BY DEF Typed
<1>2. \A f \in Fds : /\ work[f].pc \in Steps
                     /\ work[f].ss \in 0 .. Len(sessions)
                     /\ work[f].rows \subseteq Users
                     /\ work[f].answer \in Statuses
  <2> TAKE f \in Fds
  <2>1. work[f] \in Worker /\ work[f].ss <= Len(sessions) /\ Len(sessions) \in Nat
    BY DEF Typed
  <2>2. QED
    BY <2>1 DEF Worker
<1>3. QED
  BY <1>1, <1>2 DEF Typed, TypeOK, SessionRec, ClientRec, Tables

-----------------------------------------------------------------------------
(* Steps.  Most steps of a handler leave the session list and the ends of  *)
(* the connections alone; what they do is said here once.                  *)

SameEnds ==
    /\ client' \in [Clients -> ClientRec]
    /\ \A c \in Clients : /\ client'[c].rpc = client[c].rpc
                          /\ client'[c].sse = client[c].sse
                          /\ client'[c].user = client[c].user
                          /\ client'[c].ear = client[c].ear

(* Worker f keeps its request, but for the number of the room it made. *)
SameRequest(f) ==
    /\ work'[f].ss = work[f].ss
    /\ work'[f].req = work[f].req \/ (work[f].req \in RoomReqs /\ work'[f].req \in RoomReqs)

(* A login goes on for a user with an account, and nothing but a session   *)
(* makes the answer to a login or to a registration OK.                    *)
LoginIsGood(f) ==
    /\ work'[f].pc \in LoginSteps
       => work[f].pc \in LoginSteps \/ db.account[work[f].req.user] # NoAccount
    /\ work'[f].pc = "reply" /\ work[f].req.type \in {"LOGIN", "SSE_CONNECT"}
       => work'[f].answer # "OK"

Advances(f) ==
    /\ UNCHANGED <<up, sessions>>
    /\ Tables(db') /\ Stay(db, db')
    /\ SameEnds
    /\ work[f].pc \notin {"closed", "recv"}
    /\ work' \in [Fds -> Worker] /\ OthersWait(f)
    /\ \/ work'[f] = Idle
       \/ /\ work'[f].pc \notin {"closed", "recv"}
          /\ SameRequest(f) /\ Fits(work'[f]) /\ LoginIsGood(f)

(* A look-up finds a position of the list, or none. *)
LEMMA FindTyped ==
  ASSUME sessions \in Seq(SessionRec), NEW f
  PROVE  /\ FindByFd(f) \in Nat /\ FindByFd(f) <= Len(sessions)
         /\ FindByFd(f) # 0 => /\ FindByFd(f) \in DOMAIN sessions
                               /\ sessions[FindByFd(f)].fd = f
         /\ (\E i \in DOMAIN sessions : sessions[i].fd = f) => FindByFd(f) # 0
<1> DEFINE same == {i \in DOMAIN sessions : sessions[i].fd = f}
<1>1. DOMAIN sessions = 1 .. Len(sessions) /\ Len(sessions) \in Nat
  OBVIOUS
<1>2. same \in SUBSET Nat
  BY <1>1
<1>3. CASE same = {}
  <2>1. FindByFd(f) = 0
    BY <1>3 DEF FindByFd
  <2>2. QED
    BY <2>1, <1>1, <1>3
<1>4. CASE same # {}
  <2>1. Min(same) \in same
    BY <1>2, <1>4, MinMember
  <2>2. FindByFd(f) = Min(same)
    BY <1>4 DEF FindByFd
  <2> DEFINE m == Min(same)
  <2>3. m \in DOMAIN sessions /\ sessions[m].fd = f /\ FindByFd(f) = m
    BY <2>1, <2>2
  <2> HIDE DEF m
  <2>4. m \in Nat /\ m # 0 /\ m <= Len(sessions)
    BY <2>3, <1>1
  <2>5. QED
    BY <2>3, <2>4
<1>5. QED
  BY <1>3, <1>4

LEMMA FindIdTyped ==
  ASSUME sessions \in Seq(SessionRec), NEW u, NEW i \in FindById(u)
  PROVE  i = 0 \/ (i \in DOMAIN sessions /\ sessions[i].id \in {u, Freed})
<1> DEFINE same == {j \in DOMAIN sessions : sessions[j].id = u}
<1>1. DOMAIN sessions = 1 .. Len(sessions)
  OBVIOUS
<1>2. same \in SUBSET Nat
  BY <1>1
<1>3. same # {} => Min(same) \in same
  BY <1>2, MinMember
<1>4. \/ i = IF same = {} THEN 0 ELSE Min(same)
      \/ i \in DOMAIN sessions /\ sessions[i].id = Freed
  BY DEF FindById
<1>5. QED
  BY <1>3, <1>4

(* The session of a handler that needs one. *)
LEMMA HisSession ==
  ASSUME Typed, NEW f \in Fds, work[f].req.type \in NeedsSession, work[f].pc # "reply"
  PROVE  work[f].ss \in DOMAIN sessions /\ sessions[work[f].ss] \in SessionRec
<1>1. work[f].ss \in Nat /\ work[f].ss # 0 /\ work[f].ss <= Len(sessions)
  BY DEF Typed, Fits, Suits, Worker
<1>2. Len(sessions) \in Nat /\ DOMAIN sessions = 1 .. Len(sessions)
  BY DEF Typed
<1>3. work[f].ss \in DOMAIN sessions
  BY <1>1, <1>2
<1>4. QED
  BY <1>3 DEF Typed

LEMMA HisIds ==
  ASSUME Typed, NEW f \in Fds, work[f].req.type \in NeedsSession, work[f].pc # "reply"
  PROVE  UserIds(f) \subseteq Users
<1>1. sessions[work[f].ss].id \in Users \cup {Freed}
  BY HisSession DEF SessionRec
<1>2. QED
  BY <1>1 DEF UserIds

(* The tables after a call of the server, whether it failed or not. *)
LEMMA OutcomeKeeps ==
  ASSUME Typed, NEW c \in ServerCalls, NEW o \in Outcomes(c)
  PROVE  Tables(o.db) /\ Stay(db, o.db)
<1>1. Tables(Effect(c, db)) /\ Stay(db, Effect(c, db))
  BY EffectKeeps DEF Typed
<1>2. Tables(db) /\ Stay(db, db)
  BY DEF Typed, Stay
<1>3. o.db \in {db, Effect(c, db)}
  BY DEF Outcomes
<1>4. QED
  BY <1>1, <1>2, <1>3

LEMMA SameTables == ASSUME Typed, UNCHANGED db PROVE Tables(db') /\ Stay(db, db')
  BY DEF Typed, Stay

LEMMA SameClients == ASSUME Typed, UNCHANGED client PROVE SameEnds
  BY DEF Typed, SameEnds

(* A step to p with the same request advances the worker. *)
LEMMA OnwardAdvances ==
  ASSUME Typed, NEW f \in Fds, NEW p, Onward(f, p),
         work[f].pc \notin {"closed", "recv"}, p \notin {"closed", "recv"},
         Suits(p, work[f].req.type, work[f].ss), LoginIsGood(f),
         UNCHANGED <<up, sessions>>, Tables(db'), Stay(db, db'), SameEnds
  PROVE  Advances(f)
<1>1. work'[f].pc = p /\ work'[f].req = work[f].req /\ work'[f].ss = work[f].ss
  BY DEF Onward
<1>2. Fits(work'[f])
  BY <1>1 DEF Fits
<1>3. SameRequest(f)
  BY <1>1 DEF SameRequest
<1>4. QED
  BY <1>1, <1>2, <1>3 DEF Advances, Onward

LEMMA GotoAdvances ==
  ASSUME Typed, NEW f \in Fds, NEW p \in Steps \ {"closed", "recv", "reply"}, Goto(f, p),
         work[f].pc \notin {"closed", "recv"},
         Suits(p, work[f].req.type, work[f].ss),
         p \in LoginSteps => work[f].pc \in LoginSteps \/ db.account[work[f].req.user] # NoAccount,
         UNCHANGED <<up, sessions>>, Tables(db'), Stay(db, db'), SameEnds
  PROVE  Advances(f)
<1>1. Onward(f, p)
  BY GotoOnward DEF Typed
<1>2. LoginIsGood(f)
  BY <1>1 DEF LoginIsGood, Onward
<1>3. QED
  BY <1>1, <1>2, OnwardAdvances

LEMMA ReplyAdvances ==
  ASSUME Typed, NEW f \in Fds, NEW s \in Statuses, Reply(f, s),
         work[f].pc \notin {"closed", "recv"},
         work[f].req.type \in {"LOGIN", "SSE_CONNECT"} => s # "OK",
         UNCHANGED <<up, sessions>>, Tables(db'), Stay(db, db'), SameEnds
  PROVE  Advances(f)
<1>1. Onward(f, "reply") /\ work'[f].answer = s
  BY ReplyOnward DEF Typed
<1>2. LoginIsGood(f)
  BY <1>1 DEF LoginIsGood, Onward, LoginSteps
<1>3. Suits("reply", work[f].req.type, work[f].ss)
  BY DEF Typed, Fits, Suits, LoginSteps
<1>4. QED
  BY <1>1, <1>2, <1>3, OnwardAdvances

LEMMA FinishAdvances ==
  ASSUME Typed, NEW f \in Fds, Finish(f),
         work[f].pc \notin {"closed", "recv"},
         UNCHANGED <<up, sessions>>, Tables(db'), Stay(db, db'), SameEnds
  PROVE  Advances(f)
  BY FinishIdle DEF Advances, Typed

-----------------------------------------------------------------------------
(* The steps of the handlers, one by one.                                  *)

LEMMA FindUserAdvances == ASSUME Typed, NEW f \in Fds, FindUser(f) PROVE Advances(f)
<1>1. work[f].pc = "find_user" /\ work[f].req.type = "SIGNUP"
  BY DEF FindUser, At, Typed, Fits, Suits
<1>2. UNCHANGED <<up, sessions>> /\ Tables(db') /\ Stay(db, db') /\ SameEnds
  BY SameTables, SameClients DEF FindUser
<1>3. CASE Goto(f, "insert_user")
  BY <1>1, <1>2, <1>3, GotoAdvances DEF Suits, Steps, LoginSteps, NeedsSession
<1>4. CASE Reply(f, "Signup_Already_Exist")
  BY <1>1, <1>2, <1>4, ReplyAdvances DEF Statuses
<1>5. QED
  BY <1>3, <1>4 DEF FindUser

LEMMA InsertUserAdvances == ASSUME Typed, NEW f \in Fds, InsertUser(f) PROVE Advances(f)
<1> DEFINE q == work[f].req
           c == [name |-> "insert_user", user |-> q.user, pwd |-> q.pwd]
<1>1. work[f].pc = "insert_user" /\ q.type = "SIGNUP" /\ q \in Reqs
  BY DEF InsertUser, At, Typed, Fits, Suits, Worker
<1>2. q.user \in Users /\ q.pwd \in Passwords
  BY <1>1, ReqFields
<1>3. c \in ServerCalls
  BY <1>2 DEF ServerCalls, SinglePwd
<1>4. UNCHANGED <<up, sessions>> /\ SameEnds /\ Reply(f, "OK")
  BY SameClients DEF InsertUser
<1>5. Tables(db') /\ Stay(db, db')
  <2>1. UNCHANGED db \/ \E o \in Outcomes(c) : db' = o.db
    BY DEF InsertUser
  <2> HIDE DEF c
  <2>2. QED
    BY <2>1, <1>3, OutcomeKeeps, SameTables
<1>6. QED
  BY <1>1, <1>4, <1>5, ReplyAdvances DEF Statuses

(* The rows are those of an account. *)
LEMMA MatchUserAdvances == ASSUME Typed, NEW f \in Fds, MatchUser(f) PROVE Advances(f)
<1> DEFINE q == work[f].req
           c == [name |-> "match_user", user |-> q.user, pwd |-> q.pwd]
<1>1. work[f].pc = "match_user" /\ q.type = "LOGIN" /\ q \in Reqs
  BY DEF MatchUser, At, Typed, Fits, Suits, Worker, LoginSteps
<1>2. q.user \in Users /\ q.pwd \in Passwords
  BY <1>1, ReqFields
<1>3. UNCHANGED <<up, sessions>> /\ Tables(db') /\ Stay(db, db') /\ SameEnds
  BY SameTables, SameClients DEF MatchUser
<1>4. CASE Reply(f, "Login_Failed")
  BY <1>1, <1>3, <1>4, ReplyAdvances DEF Statuses
<1>5. ASSUME NEW o \in Outcomes(c), ~ Empty(o) PROVE db.account[q.user] # NoAccount
  <2>1. o.res = Answer(c, Effect(c, db))
    BY <1>5 DEF Outcomes, Empty, NullResult
  <2>2. Effect(c, db) = db
    <3>1. Effect(c, db) \in {db, Write("match_user", c, db, NoVars)}
      BY DEF Effect, Statements
    <3>2. QED
      BY <3>1 DEF Write
  <2>3. Answer(c, db) = Select("match_user", c, db, NoVars)
    BY DEF Answer
  <2>4. Select("match_user", c, db, NoVars) = Result({u \in {q.user} : db.account[u] = q.pwd})
    BY DEF Select
  <2>5. {u \in {q.user} : db.account[u] = q.pwd} # {}
    BY <1>5, <2>1, <2>2, <2>3, <2>4 DEF Empty, Result
  <2>6. QED
    BY <2>5, <1>2, PasswordsAssumption
<1>6. ASSUME db.account[q.user] # NoAccount, Goto(f, "count_token") PROVE Advances(f)
  BY <1>1, <1>3, <1>6, GotoAdvances DEF Suits, Steps, LoginSteps, NeedsSession
<1>7. QED
  BY <1>4, <1>5, <1>6 DEF MatchUser

LEMMA CountTokenAdvances == ASSUME Typed, NEW f \in Fds, CountToken(f) PROVE Advances(f)
<1>1. work[f].pc = "count_token" /\ work[f].req.type = "LOGIN"
  BY DEF CountToken, At, Typed, Fits, Suits, LoginSteps
<1>2. UNCHANGED <<up, sessions>> /\ Tables(db') /\ Stay(db, db') /\ SameEnds
  BY SameTables, SameClients DEF CountToken
<1>3. CASE Reply(f, "NoToken")
  BY <1>1, <1>2, <1>3, ReplyAdvances DEF Statuses
<1>4. ASSUME NEW p \in {"insert_token", "update_token"}, Goto(f, p) PROVE Advances(f)
  BY <1>1, <1>2, <1>4, GotoAdvances DEF Suits, Steps, LoginSteps, NeedsSession
<1>5. QED
  BY <1>3, <1>4 DEF CountToken

LEMMA WriteTokenAdvances == ASSUME Typed, NEW f \in Fds, WriteToken(f) PROVE Advances(f)
<1> DEFINE c == [name |-> work[f].pc, user |-> work[f].req.user]
<1>1. /\ work[f].pc \in {"insert_token", "update_token"}
      /\ work[f].req.type = "LOGIN" /\ work[f].req \in Reqs
  BY DEF WriteToken, Typed, Fits, Suits, Worker, LoginSteps
<1>2. c \in ServerCalls
  BY <1>1, ReqFields DEF ServerCalls, SingleUser
<1>3. UNCHANGED <<up, sessions>> /\ SameEnds /\ Goto(f, "add_session")
  BY SameClients DEF WriteToken
<1>4. Tables(db') /\ Stay(db, db')
  <2>1. \E o \in Outcomes(c) : db' = o.db
    BY DEF WriteToken
  <2> HIDE DEF c
  <2>2. QED
    BY <2>1, <1>2, OutcomeKeeps
<1>5. QED
  BY <1>1, <1>3, <1>4, GotoAdvances DEF Suits, Steps, LoginSteps, NeedsSession

LEMMA FindReactAdvances == ASSUME Typed, NEW f \in Fds, FindReact(f) PROVE Advances(f)
<1>1. work[f].pc = "find_react" /\ work[f].req.type = "SEND_CHAT_REACT" /\ work[f].ss # 0
  BY DEF FindReact, At, Typed, Fits, Suits, NeedsSession
<1>2. UNCHANGED <<up, sessions>> /\ Tables(db') /\ Stay(db, db') /\ SameEnds
  BY SameTables, SameClients DEF FindReact
<1>3. ASSUME NEW p \in {"get_members", "insert_react", "update_react"}, Goto(f, p)
      PROVE  Advances(f)
  BY <1>1, <1>2, <1>3, GotoAdvances DEF Suits, Steps, LoginSteps, NeedsSession, Posts
<1>4. QED
  BY <1>3 DEF FindReact

(* The calls that change a room. *)
LEMMA PostCallTyped ==
  ASSUME Typed, NEW f \in Fds, NEW u \in Users,
         work[f].pc \in {"insert_chat", "insert_react", "update_react", "delete"}
  PROVE  PostCall(f, u) \in ServerCalls
<1> DEFINE q == work[f].req
<1>1. /\ q \in Reqs
      /\ work[f].pc = "insert_chat" => q.type = "SEND_CHAT"
      /\ work[f].pc \in {"insert_react", "update_react"} => q.type = "SEND_CHAT_REACT"
      /\ work[f].pc = "delete" => q.type = "DELETE_CHAT"
  BY DEF Typed, Fits, Suits, Worker
<1>2. q.type \in Posts => q.room \in Rooms
  BY <1>1, ReqFields
<1>3. CASE q.type = "SEND_CHAT"
  BY <1>2, <1>3 DEF PostCall, ServerCalls, MultiRoomUser, Posts
<1>4. CASE q.type = "SEND_CHAT_REACT"
  <2>1. work[f].pc \in {"insert_react", "update_react"} /\ q.chat \in Nat /\ q.react \in Reacts
    BY <1>1, <1>4, ReqFields
  <2>2. QED
    BY <1>2, <1>4, <2>1 DEF PostCall, ServerCalls, SingleReact, Posts
<1>5. CASE q.type = "DELETE_CHAT"
  <2>1. q.chat \in Nat
    BY <1>1, <1>5, ReqFields
  <2>2. QED
    BY <1>2, <1>5, <2>1 DEF PostCall, ServerCalls, SingleDelete, Posts
<1>6. QED
  BY <1>1, <1>3, <1>4, <1>5

LEMMA PostAdvances == ASSUME Typed, NEW f \in Fds, Post(f) PROVE Advances(f)
<1>1. /\ work[f].pc \in {"insert_chat", "insert_react", "update_react", "delete"}
      /\ work[f].req.type \in Posts /\ work[f].req.type \in NeedsSession /\ work[f].ss # 0
  BY DEF Post, Typed, Fits, Suits, NeedsSession, Posts
<1>2. UNCHANGED <<up, sessions>> /\ SameEnds /\ Goto(f, "get_members")
  BY SameClients DEF Post
<1>3. Tables(db') /\ Stay(db, db')
  <2>1. PICK u \in UserIds(f) : \E o \in Outcomes(PostCall(f, u)) : db' = o.db
    BY DEF Post
  <2>2. u \in Users
    BY <1>1, HisIds
  <2>3. QED
    BY <1>1, <2>1, <2>2, PostCallTyped, OutcomeKeeps
<1>4. QED
  BY <1>1, <1>2, <1>3, GotoAdvances DEF Suits, Steps, LoginSteps, NeedsSession, Posts

(* The process ends. *)
GoesDown == Crash /\ UNCHANGED db

LEMMA GetMembersAdvances ==
  ASSUME Typed, NEW f \in Fds, GetMembers(f)
  PROVE  GoesDown \/ Advances(f)
<1> DEFINE c == [name |-> "get_members", room |-> work[f].req.room]
<1>1. /\ work[f].pc = "get_members"
      /\ work[f].req.type \in Posts /\ work[f].req \in Reqs /\ work[f].ss # 0
  BY DEF GetMembers, At, Typed, Fits, Suits, Worker, Posts, NeedsSession
<1>2. PICK o \in Outcomes(c) :
         IF Empty(o) THEN Crash
         ELSE /\ work' = [work EXCEPT ![f].pc = "push",
                                      ![f].rows = {m.owner : m \in o.res.rows}]
              /\ UNCHANGED <<up, sessions, client, started, history>>
  BY DEF GetMembers
<1>3. UNCHANGED db
  BY DEF GetMembers
<1>4. CASE Empty(o)
  BY <1>2, <1>3, <1>4 DEF GoesDown
<1>5. CASE ~ Empty(o)
  <2> DEFINE R == {m.owner : m \in o.res.rows}
  <2>1. R \subseteq Users
    <3> DEFINE e == Effect(c, db)
               last == [NoVars EXCEPT !["max_chat_id"] =
                          IF RoomChats(c.room, e) = {} THEN 0
                          ELSE Cardinality(RoomChats(c.room, e)) - 1]
    <3>1. Answer(c, e) = Result({MemberItem(c.room, u, e, last) : u \in Members(c.room, e)})
      BY DEF Answer
    <3>2. o.res = Answer(c, e)
      BY <1>5 DEF Outcomes, Empty, NullResult
    <3> HIDE DEF last, e
    <3>3. o.res.rows = {MemberItem(c.room, u, e, last) : u \in Members(c.room, e)}
      BY <3>1, <3>2 DEF Result
    <3>4. \A u : MemberItem(c.room, u, e, last).owner = u
      BY DEF MemberItem
    <3>5. Members(c.room, e) \subseteq Users
      BY DEF Members
    <3>6. \A m \in o.res.rows : m.owner \in Users
      BY <3>3, <3>4, <3>5
    <3>7. QED
      BY <3>6
  <2>2. /\ work' = [work EXCEPT ![f].pc = "push", ![f].rows = R]
        /\ UNCHANGED <<up, sessions>> /\ Tables(db') /\ Stay(db, db') /\ SameEnds
    BY <1>2, <1>3, <1>5, SameTables, SameClients
  <2> HIDE DEF R
  <2>3. Onward(f, "push")
    <3>1. work \in [Fds -> Worker] /\ work[f] \in Worker
      BY DEF Typed
    <3>2. work' = [work EXCEPT ![f] = [work[f] EXCEPT !.pc = "push", !.rows = R]]
      BY <2>2
    <3>3. [work[f] EXCEPT !.pc = "push", !.rows = R] \in Worker
      BY <2>1, <3>1 DEF Worker, Steps
    <3>4. work' \in [Fds -> Worker] /\ OthersWait(f)
      BY <3>1, <3>2, <3>3 DEF OthersWait
    <3>5. work'[f] = [work[f] EXCEPT !.pc = "push", !.rows = R]
      BY <3>1, <3>2
    <3>6. QED
      BY <3>1, <3>4, <3>5 DEF Onward, Worker
  <2>4. LoginIsGood(f)
    BY <2>3 DEF LoginIsGood, Onward, LoginSteps
  <2>5. Suits("push", work[f].req.type, work[f].ss)
    BY <1>1 DEF Suits, LoginSteps, Posts
  <2>6. QED
    BY <1>1, <2>2, <2>3, <2>4, <2>5, OnwardAdvances
<1>6. QED
  BY <1>4, <1>5

(* A push changes no more of a client than whether one came early. *)
LEMMA DeliveredEnds ==
  ASSUME Typed, NEW g, NEW r, Delivered(g, r)
  PROVE  SameEnds
<1>1. \A c \in Clients : client[c] \in ClientRec
  BY DEF Typed
<1>2. client' = [c \in Clients |->
         IF client[c].sse = g /\ client[c].ear # "on"
         THEN [client[c] EXCEPT !.early = TRUE] ELSE client[c]]
  BY DEF Delivered
<1>3. \A c \in Clients : /\ [client[c] EXCEPT !.early = TRUE] \in ClientRec
                         /\ [client[c] EXCEPT !.early = TRUE].rpc = client[c].rpc
                         /\ [client[c] EXCEPT !.early = TRUE].sse = client[c].sse
                         /\ [client[c] EXCEPT !.early = TRUE].user = client[c].user
                         /\ [client[c] EXCEPT !.early = TRUE].ear = client[c].ear
  BY <1>1 DEF ClientRec
<1>4. QED
  BY <1>1, <1>2, <1>3 DEF SameEnds

LEMMA PushAdvances ==
  ASSUME Typed, NEW f \in Fds, NEW u \in Users, Push(f, u)
  PROVE  Advances(f)
<1>1. work[f].pc = "push" /\ work[f].req.type \in Posts /\ work[f].ss # 0
  BY DEF Push, At, Typed, Fits, Suits, Posts, NeedsSession
<1>2. UNCHANGED <<up, sessions>> /\ Tables(db') /\ Stay(db, db')
  BY SameTables DEF Push
<1>3. SameEnds
  BY DeliveredEnds, SameClients DEF Push
<1>4. ASSUME work' = [work EXCEPT ![f].rows = @ \ {u}] PROVE Advances(f)
  <2>1. Onward(f, "push")
    BY <1>1, <1>4 DEF Onward, OthersWait, Typed, Worker
  <2>2. LoginIsGood(f)
    BY <2>1 DEF LoginIsGood, Onward, LoginSteps
  <2>3. Suits("push", work[f].req.type, work[f].ss)
    BY <1>1 DEF Suits, LoginSteps, Posts
  <2>4. QED
    BY <1>1, <1>2, <1>3, <2>1, <2>2, <2>3, OnwardAdvances
<1>5. CASE Reply(f, "ERROR")
  BY <1>1, <1>2, <1>3, <1>5, ReplyAdvances DEF Statuses, Posts
<1>6. CASE Finish(f)
  BY <1>1, <1>2, <1>3, <1>6, FinishAdvances
<1>7. QED
  BY <1>4, <1>5, <1>6 DEF Push

LEMMA PushDoneAdvances == ASSUME Typed, NEW f \in Fds, PushDone(f) PROVE Advances(f)
<1>1. work[f].pc = "push" /\ Finish(f) /\ UNCHANGED <<up, db, sessions, client>>
  BY DEF PushDone, At
<1>2. QED
  BY <1>1, SameTables, SameClients, FinishAdvances

(* The number of the new room becomes part of the request. *)
LEMMA InsertRoomAdvances == ASSUME Typed, NEW f \in Fds, InsertRoom(f) PROVE Advances(f)
<1> DEFINE c == [name |-> "insert_room"]
<1>1. work[f].pc = "insert_room" /\ work[f].req \in RoomReqs
  <2>1. work[f].pc = "insert_room" /\ work[f].req.type = "CREATE_ROOM" /\ work[f].req \in Reqs
    BY DEF InsertRoom, At, Typed, Fits, Suits, Worker
  <2>2. QED
    BY <2>1, ReqFields
<1>2. PICK o \in Outcomes(c) :
         /\ db' = o.db
         /\ IF Empty(o) THEN Reply(f, "OK")
            ELSE work' = [work EXCEPT ![f].pc = "insert_members",
                             ![f].req.room = CHOOSE n \in o.res.rows : TRUE]
  BY DEF InsertRoom
<1>3. c \in ServerCalls
  BY DEF ServerCalls
<1>4. UNCHANGED <<up, sessions>> /\ SameEnds /\ Tables(db') /\ Stay(db, db')
  <2>1. UNCHANGED <<up, sessions>> /\ SameEnds
    BY SameClients DEF InsertRoom
  <2> HIDE DEF c
  <2>2. QED
    BY <1>2, <1>3, <2>1, OutcomeKeeps
<1>5. CASE Reply(f, "OK")
  BY <1>1, <1>4, <1>5, ReplyAdvances DEF Statuses, RoomReqs
<1>6. CASE ~ Empty(o)
  <2> DEFINE r == CHOOSE n \in o.res.rows : TRUE
             q == [work[f].req EXCEPT !.room = r]
  <2>1. r \in Int
    <3>1. o.res = Answer(c, Effect(c, db))
      BY <1>6 DEF Outcomes, Empty, NullResult
    <3>2. Answer(c, Effect(c, db)) = Result({Cardinality(Effect(c, db).room) - 1})
      BY DEF Answer
    <3>3. Cardinality(Effect(c, db).room) \in Nat
      BY <1>3, EffectKeeps, FS_CardinalityType DEF Tables, Typed
    <3>4. o.res.rows = {Cardinality(Effect(c, db).room) - 1}
      BY <3>1, <3>2 DEF Result
    <3> DEFINE k == Cardinality(Effect(c, db).room) - 1
    <3>5. k \in Int /\ o.res.rows = {k}
      BY <3>3, <3>4
    <3> HIDE DEF k
    <3>6. QED
      BY <3>5
  <2> HIDE DEF r
  <2>2. q \in RoomReqs
    BY <1>1, <2>1 DEF RoomReqs
  <2>3. work' = [work EXCEPT ![f] = [work[f] EXCEPT !.pc = "insert_members", !.req = q]]
    <3>1. work' = [work EXCEPT ![f].pc = "insert_members", ![f].req.room = r]
      BY <1>2, <1>6 DEF r
    <3>2. work[f] \in Worker /\ f \in DOMAIN work
      BY DEF Typed
    <3>3. DOMAIN work' = DOMAIN work /\ \A g \in Fds \ {f} : work'[g] = work[g]
      BY <3>1 DEF Typed
    <3>4. work'[f] = [work[f] EXCEPT !.pc = "insert_members", !.req = q]
      BY <3>1, <3>2 DEF Worker
    <3>5. QED
      BY <3>3, <3>4, <3>1, <3>2 DEF Typed
  <2> HIDE DEF q
  <2>4. work[f] \in Worker /\ "insert_members" \in Steps /\ q \in Reqs
    BY <2>2 DEF Typed, Reqs, Steps
  <2>5. /\ work' \in [Fds -> Worker] /\ OthersWait(f)
        /\ work'[f].pc = "insert_members" /\ work'[f].req = q /\ work'[f].ss = work[f].ss
    BY <2>3, <2>4 DEF Typed, OthersWait, Worker
  <2>6. Fits(work'[f])
    BY <2>2, <2>5 DEF Fits, Suits, RoomReqs, LoginSteps, NeedsSession
  <2>7. SameRequest(f) /\ LoginIsGood(f)
    BY <1>1, <2>2, <2>5 DEF SameRequest, LoginIsGood, LoginSteps
  <2>8. QED
    BY <1>1, <1>4, <2>5, <2>6, <2>7 DEF Advances
<1>7. QED
  BY <1>2, <1>5, <1>6

LEMMA InsertMembersAdvances ==
  ASSUME Typed, NEW f \in Fds, InsertMembers(f)
  PROVE  Advances(f)
<1> DEFINE q == work[f].req
           c == [name |-> "insert_members", room |-> q.room, users |-> q.users]
<1>1. work[f].pc = "insert_members" /\ q \in RoomReqs
  <2>1. work[f].pc = "insert_members" /\ q.type = "CREATE_ROOM" /\ q \in Reqs
    BY DEF InsertMembers, At, Typed, Fits, Suits, Worker
  <2>2. QED
    BY <2>1, ReqFields
<1>2. c \in ServerCalls
  BY <1>1 DEF ServerCalls, RoomReqs
<1>3. UNCHANGED <<up, sessions>> /\ SameEnds /\ Reply(f, "OK")
  BY SameClients DEF InsertMembers
<1>4. Tables(db') /\ Stay(db, db')
  <2>1. UNCHANGED db \/ \E o \in Outcomes(c) : db' = o.db
    BY DEF InsertMembers
  <2> HIDE DEF c
  <2>2. QED
    BY <2>1, <1>2, OutcomeKeeps, SameTables
<1>5. QED
  BY <1>1, <1>3, <1>4, ReplyAdvances DEF Statuses, RoomReqs

LEMMA ListAdvances == ASSUME Typed, NEW f \in Fds, List(f) PROVE Advances(f)
<1>1. /\ work[f].pc \in {"room_list", "chat_list"}
      /\ work[f].pc = "room_list" => work[f].req.type = "UPDATE_ROOM_LIST"
      /\ work[f].pc = "chat_list" => work[f].req.type = "UPDATE_CHAT_LIST"
      /\ work[f].req \in Reqs
  BY DEF List, Typed, Fits, Suits, Worker
<1>2. UNCHANGED <<up, sessions>> /\ SameEnds /\ Reply(f, "OK")
  BY SameClients DEF List
<1>3. Tables(db') /\ Stay(db, db')
  <2>1. PICK u \in UserIds(f) : \E o \in Outcomes(ListCall(f, u)) : db' = o.db
    BY DEF List
  <2>2. u \in Users
    BY <1>1, HisIds DEF NeedsSession
  <2>3. ListCall(f, u) \in ServerCalls
    <3>1. work[f].pc = "chat_list" => work[f].req.room \in Rooms
      BY <1>1, ReqFields
    <3>2. QED
      BY <1>1, <2>2, <3>1 DEF ListCall, At, ServerCalls, SingleUser, MultiRoomUser
  <2>4. QED
    BY <2>1, <2>3, OutcomeKeeps
<1>4. QED
  BY <1>1, <1>2, <1>3, ReplyAdvances DEF Statuses

LEMMA SearchUserAdvances == ASSUME Typed, NEW f \in Fds, SearchUser(f) PROVE Advances(f)
<1>1. work[f].pc = "search_user" /\ work[f].req.type = "Search_User" /\ work[f].ss # 0
  BY DEF SearchUser, At, Typed, Fits, Suits, NeedsSession
<1>2. /\ UNCHANGED <<up, sessions>> /\ Tables(db') /\ Stay(db, db') /\ SameEnds
      /\ Goto(f, "free")
  BY SameTables, SameClients DEF SearchUser
<1>3. QED
  BY <1>1, <1>2, GotoAdvances DEF Suits, Steps, LoginSteps, Posts

-----------------------------------------------------------------------------
(* The other steps.                                                        *)

(* Freeing the id of the session, if the process survives it. *)
FreesId(f) ==
    /\ At(f, "free")
    /\ sessions' = [sessions EXCEPT ![work[f].ss].id = Freed]
    /\ Reply(f, "OK")
    /\ UNCHANGED <<up, db, client, started, history>>

(* Every step is one of these. *)
LEMMA StepCases ==
  ASSUME Typed, Next
  PROVE  \/ Boot \/ GoesDown
         \/ \E c \in Clients : Accept(c) \/ Leave(c)
         \/ \E f \in Fds : \/ Receive(f) \/ Close(f) \/ SendReply(f)
                           \/ AddSession(f) \/ Register(f) \/ FreesId(f)
                           \/ Advances(f)
<1>1. ASSUME NEW f \in Fds, Work(f)
      PROVE  \/ GoesDown
             \/ Close(f) \/ SendReply(f)
             \/ AddSession(f) \/ Register(f) \/ FreesId(f)
             \/ Advances(f)
  <2>1. CASE BrokenPipe(f)
    BY <2>1 DEF BrokenPipe, GoesDown
  <2>2. CASE FreeId(f)
    BY <2>2 DEF FreeId, FreesId, GoesDown
  <2>3. CASE FindUser(f) \/ InsertUser(f) \/ MatchUser(f) \/ CountToken(f) \/ WriteToken(f)
    BY <2>3, FindUserAdvances, InsertUserAdvances, MatchUserAdvances, CountTokenAdvances,
       WriteTokenAdvances
  <2>4. CASE FindReact(f) \/ Post(f) \/ GetMembers(f) \/ PushDone(f) \/ \E u \in Users : Push(f, u)
    BY <2>4, FindReactAdvances, PostAdvances, GetMembersAdvances, PushDoneAdvances,
       PushAdvances
  <2>5. CASE InsertRoom(f) \/ InsertMembers(f) \/ List(f) \/ SearchUser(f)
    BY <2>5, InsertRoomAdvances, InsertMembersAdvances, ListAdvances, SearchUserAdvances
  <2>6. CASE Close(f) \/ SendReply(f) \/ AddSession(f) \/ Register(f)
    BY <2>6
  <2>7. QED
    BY <1>1, <2>1, <2>2, <2>3, <2>4, <2>5, <2>6, Zenon DEF Work
<1>2. QED
  BY <1>1, Zenon DEF Next

(* What the pages of a client that is logged in send. *)
NewRooms == [type : {"CREATE_ROOM"}, users : SUBSET Users, twice : BOOLEAN, room : {Null}]

LEMMA PageParts ==
  ASSUME NEW u, NEW q \in ServicePage(u)
  PROVE  \/ \E r \in HisRooms(u) : q \in RoomPage(r)
         \/ q \in [type : {"UPDATE_ROOM_LIST", "Search_User"}]
         \/ q \in NewRooms
<1> DEFINE A == UNION {RoomPage(r) : r \in HisRooms(u)}
           B == [type : {"UPDATE_ROOM_LIST", "Search_User"}]
           N == {n \in {Null} :
                   Cardinality(db.room) + InFlight("CREATE_ROOM") < MaxRooms}
           C == [type : {"CREATE_ROOM"}, users : {m \in SUBSET Users : u \in m},
                 twice : BOOLEAN, room : N]
<1>1. ServicePage(u) = A \cup B \cup C
  BY DEF ServicePage
<1>2. q \in A => \E r \in HisRooms(u) : q \in RoomPage(r)
  OBVIOUS
<1>3. N \subseteq {Null}
  OBVIOUS
<1> HIDE DEF N
<1>4. C \subseteq NewRooms
  BY <1>3 DEF NewRooms
<1> HIDE DEF A, B, C
<1>5. QED
  BY <1>1, <1>2, <1>4 DEF B

(* What clients send is a request the server knows. *)
LEMMA RequestTyped ==
  ASSUME Typed, NEW c \in Clients, NEW f, NEW q \in Requests(c, f)
  PROVE  q \in Reqs /\ q.type # "none"
<1>1. client[c] \in ClientRec /\ Person[c] \subseteq Users
  BY PersonAssumption DEF Typed
<1>2. \A r \in Rooms : ChatIds(r, db) \subseteq Nat
  BY DEF Typed, Tables, Db, ChatRows, ChatIds
<1>3. ASSUME q \in LoginPage(c) PROVE q \in Reqs /\ q.type # "none"
  <2>1. q \in [type : {"SIGNUP", "LOGIN"}, user : Person[c], pwd : Passwords]
    BY <1>3 DEF LoginPage
  <2>2. QED
    BY <1>1, <2>1 DEF Reqs
<1>4. ASSUME NEW r \in Rooms, q \in RoomPage(r) PROVE q \in Reqs /\ q.type # "none"
  BY <1>2, <1>4 DEF RoomPage, Reqs
<1>5. ASSUME NEW u \in Users, q \in ServicePage(u) PROVE q \in Reqs /\ q.type # "none"
  <2>1. CASE \E r \in HisRooms(u) : q \in RoomPage(r)
    BY <1>4, <2>1 DEF HisRooms
  <2>2. CASE q \in [type : {"UPDATE_ROOM_LIST", "Search_User"}]
    BY <2>2 DEF Reqs
  <2>3. CASE q \in NewRooms
    BY <2>3 DEF Reqs, RoomReqs, NewRooms, Null
  <2>4. QED
    BY <1>5, <2>1, <2>2, <2>3, PageParts
<1>6. ASSUME q \in [type : {"SSE_CONNECT"}, user : {u \in Users :
                      u = client[c].user /\ client[c].ear = "start"}]
      PROVE  q \in Reqs /\ q.type # "none"
  BY <1>6 DEF Reqs
<1>7. client[c].user = NoUser \/ client[c].user \in Users
  BY <1>1 DEF ClientRec
<1>8. QED
  BY <1>3, <1>5, <1>6, <1>7 DEF Requests

(* The connection for pushes carries SSE_CONNECT, the other one the rest.  *)
LEMMA RequestSide ==
  ASSUME Typed, NEW c \in Clients, NEW f, NEW q \in Requests(c, f)
  PROVE  (q.type = "SSE_CONNECT") <=> (f = client[c].sse)
<1>1. CASE f = client[c].sse
  BY <1>1 DEF Requests
<1>2. CASE f # client[c].sse
  <2>1. q \in LoginPage(c) \/ \E u : q \in ServicePage(u)
    BY <1>2 DEF Requests
  <2>2. CASE q \in LoginPage(c)
    BY <1>2, <2>2 DEF LoginPage
  <2>3. ASSUME NEW r, q \in RoomPage(r) PROVE q.type # "SSE_CONNECT"
    BY <2>3 DEF RoomPage
  <2>4. ASSUME NEW u, q \in ServicePage(u) PROVE q.type # "SSE_CONNECT"
    <3>1. CASE \E r \in HisRooms(u) : q \in RoomPage(r)
      BY <2>3, <3>1
    <3>2. CASE q \in [type : {"UPDATE_ROOM_LIST", "Search_User"}]
      BY <3>2
    <3>3. CASE q \in NewRooms
      BY <3>3 DEF NewRooms
    <3>4. QED
      BY <2>4, <3>1, <3>2, <3>3, PageParts
  <2>5. QED
    BY <1>2, <2>1, <2>2, <2>4
<1>3. QED
  BY <1>1, <1>2

(* A handler starts at its first step. *)
LEMMA FirstSuits ==
  ASSUME NEW q \in Reqs, q.type # "none", NEW n, q.type \in NeedsSession => n # 0
  PROVE  /\ Suits(FirstStep[q.type], q.type, n)
         /\ FirstStep[q.type] \in Steps \ ({"closed", "recv", "reply"} \cup LoginSteps)
<1>1. q.type \in {"SIGNUP", "LOGIN", "SSE_CONNECT", "UPDATE_CHAT_LIST",
                  "UPDATE_ROOM_LIST", "Search_User", "CREATE_ROOM"} \cup Posts
  BY ReqFields
<1>2. CASE q.type \in {"SIGNUP", "LOGIN", "SSE_CONNECT", "CREATE_ROOM"}
  BY <1>2 DEF FirstStep, Suits, Steps, LoginSteps, NeedsSession
<1>3. CASE q.type \in {"UPDATE_CHAT_LIST", "UPDATE_ROOM_LIST", "Search_User"}
  BY <1>3 DEF FirstStep, Suits, Steps, LoginSteps, NeedsSession
<1>4. CASE q.type \in Posts
  BY <1>4 DEF FirstStep, Suits, Steps, LoginSteps, NeedsSession, Posts
<1>5. QED
  BY <1>1, <1>2, <1>3, <1>4

-----------------------------------------------------------------------------
(* What the proofs are by: which account a login is for, who sits at which *)
(* descriptor, and whose session a request is carried out with.            *)

(* A login that passed the comparison is for a user with an account.       *)
LoginsRegistered ==
    \A f \in Fds : work[f].pc \in LoginSteps => db.account[work[f].req.user] # NoAccount

Registered == SessionsRegistered /\ LoginsRegistered

(* A descriptor a client holds is open. *)
EndsOpen ==
    \A c \in Clients : \A g \in {client[c].rpc, client[c].sse} \ {NoFd} : ~ At(g, "closed")

(* No two connections share a descriptor. *)
EndsApart ==
    /\ \A c \in Clients : client[c].rpc = client[c].sse => client[c].rpc = NoFd
    /\ \A b, c \in Clients : \A g \in Fds :
          g \in {client[b].rpc, client[b].sse} /\ g \in {client[c].rpc, client[c].sse}
          => b = c

(* The connection for pushes carries nothing but its registration.         *)
Sides ==
    \A c \in Clients : \A f \in Fds :
        /\ f = client[c].sse => work[f].req.type \in {"none", "SSE_CONNECT"}
        /\ f = client[c].rpc => work[f].req.type # "SSE_CONNECT"

(* The session of user u on descriptor f, his id or what became of it. *)
HasSession(f, u) ==
    \E i \in DOMAIN sessions : sessions[i].fd = f /\ sessions[i].id \in {u, Freed}

AnsweredHasSession ==
    \A f \in Fds :
        /\ At(f, "reply") /\ work[f].req.type = "LOGIN" /\ work[f].answer = "OK"
        => HasSession(f, work[f].req.user)

UserHasSession ==
    \A c \in Clients : client[c].user # NoUser
        => client[c].rpc \in Fds /\ HasSession(client[c].rpc, client[c].user)

(* A worker uses a session of its own descriptor. *)
OwnSession == \A f \in Fds : work[f].ss # 0 => sessions[work[f].ss].fd = f

Connected ==
    /\ EndsOpen /\ EndsApart /\ Sides
    /\ AnsweredHasSession /\ UserHasSession /\ OwnSession

-----------------------------------------------------------------------------
(* Type correctness.                                                       *)

LEMMA TypedGoesDown == ASSUME Typed, GoesDown PROVE Typed'
<1>1. <<>> \in Seq(SessionRec) /\ Len(<<>>) = 0
  OBVIOUS
<1>2. Off \in ClientRec
  BY DEF Off, ClientRec
<1>3. Closed.ss = 0
  BY DEF Closed, Idle
<1>4. /\ up' = FALSE /\ sessions' = <<>> /\ db' = db
      /\ work' = [f \in Fds |-> Closed] /\ client' = [c \in Clients |-> Off]
  BY DEF GoesDown, Crash
<1>5. work' \in [Fds -> Worker] /\ \A f \in Fds : Fits(work'[f]) /\ work'[f].ss = 0
  BY <1>3, <1>4, IdleWorker
<1>6. client' \in [Clients -> ClientRec] /\ sessions' \in Seq(SessionRec) /\ Len(sessions') = 0
  BY <1>1, <1>2, <1>4
<1>7. Tables(db') /\ up' \in BOOLEAN
  BY <1>4 DEF Typed
<1> QED
  BY <1>5, <1>6, <1>7 DEF Typed

(* One worker moves and the session list does not get shorter. *)
LEMMA TypedOne ==
  ASSUME Typed, NEW f \in Fds, up' = up, Tables(db'),
         sessions' \in Seq(SessionRec), Len(sessions) <= Len(sessions'),
         client' \in [Clients -> ClientRec], work' \in [Fds -> Worker], OthersWait(f),
         Fits(work'[f]), work'[f].ss <= Len(sessions)
  PROVE  Typed'
<1>1. Len(sessions) \in Nat /\ Len(sessions') \in Nat
  BY DEF Typed
<1>2. ASSUME NEW g \in Fds PROVE Fits(work'[g]) /\ work'[g].ss <= Len(sessions')
  <2>1. work'[g].ss \in Nat /\ Fits(work'[g]) /\ work'[g].ss <= Len(sessions)
    BY DEF Typed, OthersWait, Worker
  <2>2. QED
    BY <1>1, <2>1
<1>3. QED
  BY <1>2 DEF Typed

LEMMA TypedAdvances == ASSUME Typed, NEW f \in Fds, Advances(f) PROVE Typed'
<1>1. Idle.ss = 0 /\ Fits(Idle)
  BY IdleWorker DEF Idle
<1>2. Fits(work'[f]) /\ (work'[f].ss = 0 \/ work'[f].ss = work[f].ss)
  BY <1>1 DEF Advances, SameRequest
<1>3. Len(sessions) \in Nat /\ work[f].ss <= Len(sessions) /\ sessions \in Seq(SessionRec)
  BY DEF Typed
<1>4. work'[f].ss <= Len(sessions)
  BY <1>2, <1>3
<1>5. sessions' = sessions /\ Len(sessions) <= Len(sessions')
  BY <1>3 DEF Advances
<1>6. QED
  BY <1>2, <1>3, <1>4, <1>5, TypedOne DEF Advances, SameEnds

(* A connection takes the lowest descriptor that is free. *)
LEMMA AcceptTakes ==
  ASSUME Typed, NEW c \in Clients, Accept(c)
  PROVE  \E g \in Fds :
            /\ At(g, "closed") /\ work'[g] = Idle /\ OthersWait(g)
            /\ work' \in [Fds -> Worker]
            /\ UNCHANGED <<up, db, sessions, history>>
            /\ \/ client[c].rpc = NoFd /\ client' = [client EXCEPT ![c].rpc = g]
               \/ /\ client[c].rpc # NoFd /\ client[c].sse = NoFd
                  /\ client' = [client EXCEPT ![c].sse = g]
<1> DEFINE free == {g \in Fds : At(g, "closed")}
<1>1. free \in SUBSET Nat /\ free # {}
  BY FdsAssumption DEF Accept
<1>2. Min(free) \in free
  BY <1>1, MinMember
<1>3. work' = [work EXCEPT ![Min(free)] = Idle]
  BY DEF Accept
<1>4. work' \in [Fds -> Worker] /\ work'[Min(free)] = Idle /\ OthersWait(Min(free))
  BY <1>2, <1>3, IdleWorker DEF OthersWait, Typed
<1>5. QED
  BY <1>2, <1>4 DEF Accept

LEMMA TypedAccept == ASSUME Typed, NEW c \in Clients, Accept(c) PROVE Typed'
<1>1. PICK g \in Fds :
            /\ At(g, "closed") /\ work'[g] = Idle /\ OthersWait(g)
            /\ work' \in [Fds -> Worker]
            /\ UNCHANGED <<up, db, sessions, history>>
            /\ \/ client[c].rpc = NoFd /\ client' = [client EXCEPT ![c].rpc = g]
               \/ /\ client[c].rpc # NoFd /\ client[c].sse = NoFd
                  /\ client' = [client EXCEPT ![c].sse = g]
  BY AcceptTakes
<1>2. client' \in [Clients -> ClientRec]
  BY <1>1 DEF Typed, ClientRec
<1>3. Idle.ss = 0 /\ Fits(Idle)
  BY IdleWorker DEF Idle
<1>4. Len(sessions) \in Nat /\ sessions \in Seq(SessionRec) /\ Tables(db)
  BY DEF Typed
<1>5. QED
  BY <1>1, <1>2, <1>3, <1>4, TypedOne

LEMMA TypedLeave == ASSUME Typed, NEW c \in Clients, Leave(c) PROVE Typed'
<1>1. client' \in [Clients -> ClientRec]
  BY DEF Leave, Typed, Off, ClientRec
<1>2. QED
  BY <1>1 DEF Leave, Typed

LEMMA TypedClose == ASSUME Typed, NEW f \in Fds, Close(f) PROVE Typed'
<1>1. Closed.ss = 0 /\ Fits(Closed) /\ Closed \in Worker
  BY IdleWorker DEF Closed, Idle
<1>2. work' \in [Fds -> Worker] /\ OthersWait(f) /\ work'[f] = Closed
  BY <1>1 DEF Close, Typed, OthersWait
<1>3. Len(sessions) \in Nat /\ sessions \in Seq(SessionRec)
  BY DEF Typed
<1>4. UNCHANGED <<up, db, sessions, client>>
  BY DEF Close
<1>5. QED
  BY <1>1, <1>2, <1>3, <1>4, TypedOne DEF Typed

(* What a request finds: the worker, the request and the session. *)
LEMMA ReceiveTakes ==
  ASSUME Typed, NEW f \in Fds, Receive(f)
  PROVE  /\ UNCHANGED <<up, db, sessions, history>> /\ At(f, "recv")
         /\ work' \in [Fds -> Worker] /\ OthersWait(f)
         /\ \E c \in Ends(f) : \E q \in Requests(c, f) :
              /\ work'[f].req = q /\ q \in Reqs /\ q.type # "none" /\ Fits(work'[f])
              /\ work'[f].pc \notin LoginSteps \cup {"closed", "recv"}
              /\ work'[f].ss \in {0, FindByFd(f)} /\ work'[f].answer # "OK"
              /\ client' = IF q.type = "SSE_CONNECT"
                           THEN [client EXCEPT ![c].ear = "wait"] ELSE client
<1>0. PICK c \in Ends(f) : \E q \in Requests(c, f) :
          /\ work' = [work EXCEPT ![f] =
               IF q.type \in NeedsSession /\ FindByFd(f) = 0
               THEN [Idle EXCEPT !.pc = "reply", !.req = q,
                                 !.answer = "Session_Not_Found"]
               ELSE [Idle EXCEPT !.pc = FirstStep[q.type], !.req = q,
                                 !.ss = FindByFd(f)]]
          /\ client' = IF q.type = "SSE_CONNECT"
                       THEN [client EXCEPT ![c].ear = "wait"] ELSE client
  BY Zenon DEF Receive
<1>1. PICK q \in Requests(c, f) :
          /\ work' = [work EXCEPT ![f] =
               IF q.type \in NeedsSession /\ FindByFd(f) = 0
               THEN [Idle EXCEPT !.pc = "reply", !.req = q,
                                 !.answer = "Session_Not_Found"]
               ELSE [Idle EXCEPT !.pc = FirstStep[q.type], !.req = q,
                                 !.ss = FindByFd(f)]]
          /\ client' = IF q.type = "SSE_CONNECT"
                       THEN [client EXCEPT ![c].ear = "wait"] ELSE client
  BY <1>0, Zenon
<1>2. q \in Reqs /\ q.type # "none" /\ c \in Clients
  BY RequestTyped DEF Ends
<1>3. FindByFd(f) \in Nat
  BY FindTyped DEF Typed
<1> DEFINE a == [Idle EXCEPT !.pc = "reply", !.req = q, !.answer = "Session_Not_Found"]
           b == [Idle EXCEPT !.pc = FirstStep[q.type], !.req = q, !.ss = FindByFd(f)]
<1>4. /\ a \in Worker /\ a.pc = "reply" /\ a.req = q /\ a.ss = 0
      /\ a.answer = "Session_Not_Found"
  BY <1>2, IdleWorker DEF Idle, Worker, Steps, Statuses
<1>5. ASSUME q.type \in NeedsSession => FindByFd(f) # 0
      PROVE  /\ b \in Worker /\ b.pc = FirstStep[q.type] /\ b.req = q
             /\ b.ss = FindByFd(f) /\ b.answer = "none"
             /\ Suits(FirstStep[q.type], q.type, FindByFd(f))
             /\ FirstStep[q.type] \in Steps \ ({"closed", "recv", "reply"} \cup LoginSteps)
  <2>1. /\ Suits(FirstStep[q.type], q.type, FindByFd(f))
        /\ FirstStep[q.type] \in Steps \ ({"closed", "recv", "reply"} \cup LoginSteps)
    BY <1>2, <1>3, <1>5, FirstSuits
  <2> DEFINE p == FirstStep[q.type]
  <2>2. p \in Steps
    BY <2>1
  <2> HIDE DEF p
  <2>3. LET w == [Idle EXCEPT !.pc = p, !.req = q, !.ss = FindByFd(f)]
        IN w \in Worker /\ w.pc = p /\ w.req = q /\ w.ss = FindByFd(f) /\ w.answer = "none"
    BY <2>2, <1>2, <1>3, IdleWorker DEF Idle, Worker
  <2>4. QED
    BY <2>1, <2>3 DEF p
<1>6. work' = [work EXCEPT ![f] =
                 IF q.type \in NeedsSession /\ FindByFd(f) = 0 THEN a ELSE b]
  BY <1>1
<1> HIDE DEF a, b
<1>7. CASE q.type \in NeedsSession /\ FindByFd(f) = 0
  <2>1. work' = [work EXCEPT ![f] = a]
    BY <1>6, <1>7
  <2>2. work' \in [Fds -> Worker] /\ OthersWait(f) /\ work'[f] = a
    BY <1>4, <2>1 DEF Typed, OthersWait
  <2>3. Fits(a)
    BY <1>2, <1>4 DEF Fits, Suits, LoginSteps
  <2>4. a.pc \notin LoginSteps \cup {"closed", "recv"} /\ a.answer # "OK"
    BY <1>4 DEF LoginSteps
  <2>5. /\ work'[f].req = q /\ Fits(work'[f]) /\ work'[f].ss = 0 /\ work'[f].answer # "OK"
        /\ work'[f].pc \notin LoginSteps \cup {"closed", "recv"}
    BY <1>4, <2>2, <2>3, <2>4
  <2>6. QED
    BY <1>1, <1>2, <2>2, <2>5 DEF Receive
<1>8. CASE q.type \in NeedsSession => FindByFd(f) # 0
  <2>1. work' = [work EXCEPT ![f] = b]
    BY <1>6, <1>8
  <2>2. work' \in [Fds -> Worker] /\ OthersWait(f) /\ work'[f] = b
    BY <1>5, <1>8, <2>1 DEF Typed, OthersWait
  <2>3. Fits(b)
    BY <1>5, <1>8 DEF Fits
  <2>4. QED
    BY <1>1, <1>2, <1>5, <1>8, <2>2, <2>3 DEF Receive
<1>9. QED
  BY <1>7, <1>8

LEMMA TypedReceive == ASSUME Typed, NEW f \in Fds, Receive(f) PROVE Typed'
<1>1. /\ UNCHANGED <<up, db, sessions>>
      /\ work' \in [Fds -> Worker] /\ OthersWait(f) /\ Fits(work'[f])
      /\ work'[f].ss \in {0, FindByFd(f)}
  BY ReceiveTakes
<1>2. client' \in [Clients -> ClientRec]
  <2>1. \/ client' = client
        \/ \E c \in Ends(f) : client' = [client EXCEPT ![c].ear = "wait"]
    BY ReceiveTakes
  <2>2. QED
    BY <2>1 DEF Typed, ClientRec, Ends
<1>3. FindByFd(f) \in Nat /\ FindByFd(f) <= Len(sessions) /\ Len(sessions) \in Nat
  BY FindTyped DEF Typed
<1>4. QED
  BY <1>1, <1>2, <1>3, TypedOne DEF Typed

(* What the client makes of an answer. *)
LEMMA AnswerTakes ==
  ASSUME Typed, NEW f \in Fds, SendReply(f)
  PROVE  /\ UNCHANGED <<up, db, sessions, history>> /\ At(f, "reply")
         /\ work' \in [Fds -> Worker] /\ OthersWait(f) /\ work'[f] = Idle
         /\ \/ client' = client
            \/ \E c \in Ends(f) :
                 /\ work[f].answer = "OK"
                 /\ \/ work[f].req.type = "LOGIN" /\ client' = LoginAnswered(c, f)
                    \/ work[f].req.type = "SSE_CONNECT" /\ client' = SseAnswered(c)
<1>1. work' \in [Fds -> Worker] /\ OthersWait(f) /\ work'[f] = Idle
  BY FinishIdle DEF SendReply, Typed
<1>2. ~ Gone(f) => (CHOOSE c \in Ends(f) : TRUE) \in Ends(f)
  BY DEF Gone
<1> DEFINE c == CHOOSE c \in Ends(f) : TRUE
           ok == work[f].answer = "OK"
           t == work[f].req.type
<1>3. client' = CASE ok /\ t = "LOGIN" /\ ~Gone(f) -> LoginAnswered(c, f)
                  [] ok /\ t = "SSE_CONNECT" /\ ~Gone(f) -> SseAnswered(c)
                  [] OTHER -> client
  BY DEF SendReply
<1> HIDE DEF c
<1>4. \/ client' = client
      \/ /\ ok /\ ~Gone(f)
         /\ t = "LOGIN" /\ client' = LoginAnswered(c, f)
      \/ /\ ok /\ ~Gone(f)
         /\ t = "SSE_CONNECT" /\ client' = SseAnswered(c)
  BY <1>3
<1>5. QED
  BY <1>1, <1>2, <1>4 DEF SendReply, c

LEMMA TypedSendReply == ASSUME Typed, NEW f \in Fds, SendReply(f) PROVE Typed'
<1>1. Idle.ss = 0 /\ Fits(Idle)
  BY IdleWorker DEF Idle
<1>2. client' \in [Clients -> ClientRec]
  <2>1. ASSUME NEW c \in Ends(f), work[f].req.type = "LOGIN"
        PROVE  LoginAnswered(c, f) \in [Clients -> ClientRec]
    <3>1. work[f].req \in Reqs
      BY DEF Typed, Worker
    <3>2. work[f].req.user \in Users /\ c \in Clients
      BY <2>1, <3>1, ReqFields DEF Ends
    <3>3. QED
      BY <3>2 DEF LoginAnswered, Typed, ClientRec
  <2>2. ASSUME NEW c \in Ends(f) PROVE SseAnswered(c) \in [Clients -> ClientRec]
    BY DEF SseAnswered, Typed, ClientRec, Ends
  <2>3. QED
    BY <2>1, <2>2, AnswerTakes DEF Typed
<1>3. Len(sessions) \in Nat /\ sessions \in Seq(SessionRec) /\ Tables(db)
  BY DEF Typed
<1>4. /\ UNCHANGED <<up, db, sessions>> /\ work' \in [Fds -> Worker]
      /\ OthersWait(f) /\ work'[f] = Idle
  BY AnswerTakes
<1>5. QED
  BY <1>1, <1>2, <1>3, <1>4, TypedOne

(* The session list after an append. *)
LEMMA AddSessionTakes ==
  ASSUME Typed, NEW f \in Fds, AddSession(f)
  PROVE  LET s == [id |-> work[f].req.user, fd |-> f, sse |-> NoFd]
         IN /\ UNCHANGED <<up, db, client, history>> /\ Onward(f, "reply")
            /\ work[f].pc = "add_session" /\ work[f].req.type = "LOGIN"
            /\ work[f].req.user \in Users
            /\ s \in SessionRec /\ sessions' = Append(sessions, s)
            /\ sessions' \in Seq(SessionRec) /\ Len(sessions') = Len(sessions) + 1
<1> DEFINE s == [id |-> work[f].req.user, fd |-> f, sse |-> NoFd]
<1>1. work[f].pc = "add_session" /\ work[f].req.type = "LOGIN" /\ work[f].req \in Reqs
  BY DEF AddSession, At, Typed, Fits, Suits, Worker, LoginSteps
<1>2. work[f].req.user \in Users
  BY <1>1, ReqFields
<1>3. s \in SessionRec
  BY <1>2 DEF SessionRec
<1>4. sessions' = Append(sessions, s) /\ UNCHANGED <<up, db, client, history>>
  BY DEF AddSession
<1> HIDE DEF s
<1>5. sessions' \in Seq(SessionRec) /\ Len(sessions') = Len(sessions) + 1
  BY <1>3, <1>4 DEF Typed
<1>6. Onward(f, "reply")
  BY ReplyOnward DEF AddSession, Typed, Statuses
<1>7. QED
  BY <1>1, <1>2, <1>3, <1>4, <1>5, <1>6 DEF s

LEMMA TypedAddSession == ASSUME Typed, NEW f \in Fds, AddSession(f) PROVE Typed'
<1>1. /\ UNCHANGED <<up, db, client>> /\ Onward(f, "reply")
      /\ work[f].req.type = "LOGIN" /\ sessions' \in Seq(SessionRec)
      /\ Len(sessions') = Len(sessions) + 1
  BY AddSessionTakes
<1>2. Fits(work'[f])
  BY <1>1 DEF Onward, Fits, Suits, LoginSteps
<1>3. work'[f].ss <= Len(sessions) /\ Len(sessions) <= Len(sessions')
  BY <1>1 DEF Onward, Typed
<1>4. QED
  BY <1>1, <1>2, <1>3, TypedOne DEF Typed, Onward

(* A registration changes the session of the user, or there is none. *)
LEMMA RegisterTakes ==
  ASSUME Typed, NEW f \in Fds, Register(f)
  PROVE  /\ UNCHANGED <<up, db, client>>
         /\ work[f].pc = "register" /\ work[f].req.type = "SSE_CONNECT"
         /\ work[f].req.user \in Users
         /\ \/ Finish(f) /\ UNCHANGED <<sessions, latest>>
            \/ /\ Onward(f, "reply")
               /\ \E i \in FindById(work[f].req.user) :
                     i \in DOMAIN sessions /\ sessions' = [sessions EXCEPT ![i].sse = f]
<1>1. /\ work[f].pc = "register" /\ work[f].req.type = "SSE_CONNECT"
      /\ work[f].req \in Reqs
  BY DEF Register, At, Typed, Fits, Suits, Worker
<1>2. work[f].req.user \in Users
  BY <1>1, ReqFields
<1>3. PICK i \in FindById(work[f].req.user) :
          IF i = 0 THEN Finish(f) /\ UNCHANGED <<sessions, latest>>
          ELSE sessions' = [sessions EXCEPT ![i].sse = f] /\ Reply(f, "OK")
  BY DEF Register
<1>4. i = 0 \/ i \in DOMAIN sessions
  BY FindIdTyped DEF Typed
<1>5. UNCHANGED <<up, db, client>>
  BY DEF Register
<1>6. Reply(f, "OK") => Onward(f, "reply")
  BY ReplyOnward DEF Typed, Statuses
<1>7. QED
  BY <1>1, <1>2, <1>3, <1>4, <1>5, <1>6

(* One field of one session is changed: types, descriptors and length stay.*)
LEMMA SseSet ==
  ASSUME sessions \in Seq(SessionRec), NEW i \in DOMAIN sessions, NEW f \in Fds,
         sessions' = [sessions EXCEPT ![i].sse = f]
  PROVE  /\ sessions' \in Seq(SessionRec) /\ Len(sessions') = Len(sessions)
         /\ DOMAIN sessions' = DOMAIN sessions
         /\ \A j \in DOMAIN sessions : /\ sessions'[j].fd = sessions[j].fd
                                       /\ sessions'[j].id = sessions[j].id
<1>1. \A j \in DOMAIN sessions : sessions[j] \in SessionRec
  OBVIOUS
<1>2. DOMAIN sessions' = DOMAIN sessions
  OBVIOUS
<1>3. \A j \in DOMAIN sessions : /\ sessions'[j] \in SessionRec
                                 /\ sessions'[j].fd = sessions[j].fd
                                 /\ sessions'[j].id = sessions[j].id
  BY <1>1 DEF SessionRec
<1>4. DOMAIN sessions = 1 .. Len(sessions) /\ Len(sessions) \in Nat
  OBVIOUS
<1>5. sessions' \in [1 .. Len(sessions) -> SessionRec]
  BY <1>2, <1>3, <1>4
<1>6. QED
  BY <1>2, <1>3, <1>4, <1>5

LEMMA IdFreed ==
  ASSUME sessions \in Seq(SessionRec), NEW i \in DOMAIN sessions,
         sessions' = [sessions EXCEPT ![i].id = Freed]
  PROVE  /\ sessions' \in Seq(SessionRec) /\ Len(sessions') = Len(sessions)
         /\ DOMAIN sessions' = DOMAIN sessions
         /\ \A j \in DOMAIN sessions : /\ sessions'[j].fd = sessions[j].fd
                                       /\ sessions'[j].id \in {sessions[j].id, Freed}
<1>1. \A j \in DOMAIN sessions : sessions[j] \in SessionRec
  OBVIOUS
<1>2. DOMAIN sessions' = DOMAIN sessions
  OBVIOUS
<1>3. \A j \in DOMAIN sessions : /\ sessions'[j] \in SessionRec
                                 /\ sessions'[j].fd = sessions[j].fd
                                 /\ sessions'[j].id \in {sessions[j].id, Freed}
  BY <1>1 DEF SessionRec
<1>4. DOMAIN sessions = 1 .. Len(sessions) /\ Len(sessions) \in Nat
  OBVIOUS
<1>5. sessions' \in [1 .. Len(sessions) -> SessionRec]
  BY <1>2, <1>3, <1>4
<1>6. QED
  BY <1>2, <1>3, <1>4, <1>5

LEMMA TypedRegister == ASSUME Typed, NEW f \in Fds, Register(f) PROVE Typed'
<1>0. Len(sessions) \in Nat /\ sessions \in Seq(SessionRec) /\ work[f].ss <= Len(sessions)
  BY DEF Typed
<1>1. UNCHANGED <<up, db, client>>
  BY RegisterTakes
<1>2. CASE Finish(f) /\ UNCHANGED <<sessions, latest>>
  <2>1. Idle.ss = 0 /\ Fits(Idle)
    BY IdleWorker DEF Idle
  <2>2. work' \in [Fds -> Worker] /\ OthersWait(f) /\ work'[f] = Idle
    BY <1>2, FinishIdle DEF Typed
  <2>3. QED
    BY <1>0, <1>1, <1>2, <2>1, <2>2, TypedOne DEF Typed
<1>3. ASSUME Onward(f, "reply"), NEW i \in DOMAIN sessions,
             sessions' = [sessions EXCEPT ![i].sse = f]
      PROVE  Typed'
  <2>1. sessions' \in Seq(SessionRec) /\ Len(sessions') = Len(sessions)
    BY <1>0, <1>3, SseSet
  <2>2. Fits(work'[f]) /\ work'[f].ss <= Len(sessions) /\ OthersWait(f) /\ work' \in [Fds -> Worker]
    BY <1>0, <1>3, RegisterTakes DEF Onward, Fits, Suits, LoginSteps
  <2>3. QED
    BY <1>0, <1>1, <2>1, <2>2, TypedOne DEF Typed
<1>4. QED
  BY <1>2, <1>3, RegisterTakes

(* Freeing an id. *)
LEMMA FreesIdTakes ==
  ASSUME Typed, NEW f \in Fds, FreesId(f)
  PROVE  /\ UNCHANGED <<up, db, client, history>> /\ Onward(f, "reply")
         /\ work[f].req.type = "Search_User"
         /\ \E i \in DOMAIN sessions : sessions' = [sessions EXCEPT ![i].id = Freed]
<1>1. work[f].pc = "free" /\ work[f].req.type = "Search_User"
  BY DEF FreesId, At, Typed, Fits, Suits
<1>2. work[f].ss \in DOMAIN sessions
  BY <1>1, HisSession DEF NeedsSession
<1>3. Onward(f, "reply")
  BY ReplyOnward DEF FreesId, Typed, Statuses
<1>4. QED
  BY <1>1, <1>2, <1>3 DEF FreesId

LEMMA TypedFreesId == ASSUME Typed, NEW f \in Fds, FreesId(f) PROVE Typed'
<1>1. PICK i \in DOMAIN sessions : sessions' = [sessions EXCEPT ![i].id = Freed]
  BY FreesIdTakes
<1>2. Len(sessions) \in Nat /\ sessions \in Seq(SessionRec) /\ work[f].ss <= Len(sessions)
  BY DEF Typed
<1>3. sessions' \in Seq(SessionRec) /\ Len(sessions') = Len(sessions)
  BY <1>1, <1>2, IdFreed
<1>4. /\ UNCHANGED <<up, db, client>> /\ Onward(f, "reply")
      /\ work[f].req.type = "Search_User"
  BY FreesIdTakes
<1>5. Fits(work'[f]) /\ work'[f].ss <= Len(sessions) /\ OthersWait(f) /\ work' \in [Fds -> Worker]
  BY <1>2, <1>4 DEF Onward, Fits, Suits, LoginSteps
<1>6. QED
  BY <1>2, <1>3, <1>4, <1>5, TypedOne DEF Typed

LEMMA TypedInit == Init => Typed
<1> SUFFICES ASSUME Init PROVE Typed
  OBVIOUS
<1>1. <<>> \in Seq(SessionRec)
  OBVIOUS
<1>2. Off \in ClientRec
  BY DEF Off, ClientRec
<1>3. Closed.ss = 0
  BY DEF Closed, Idle
<1>4. Len(sessions) = 0 /\ sessions \in Seq(SessionRec)
  BY <1>1 DEF Init
<1>5. work \in [Fds -> Worker] /\ \A f \in Fds : Fits(work[f]) /\ work[f].ss = 0
  BY <1>3, IdleWorker DEF Init
<1>6. client \in [Clients -> ClientRec]
  BY <1>2 DEF Init
<1>7. Tables(db) /\ up \in BOOLEAN
  BY InitDbAssumption DEF Init, Tables
<1>8. QED
  BY <1>4, <1>5, <1>6, <1>7 DEF Typed

LEMMA TypedStep == Typed /\ [Next]_vars => Typed'
<1> SUFFICES ASSUME Typed, [Next]_vars PROVE Typed'
  OBVIOUS
<1>1. CASE UNCHANGED vars
  BY <1>1 DEF vars, history, Typed
<1>2. CASE Boot
  BY <1>2 DEF Boot, Typed
<1>3. CASE Next /\ ~ Boot
  BY <1>3, StepCases, TypedGoesDown, TypedAccept, TypedLeave, TypedReceive, TypedClose,
     TypedSendReply, TypedAddSession, TypedRegister, TypedFreesId, TypedAdvances
<1>4. QED
  BY <1>1, <1>2, <1>3

(* The variables of the server have their types. *)
THEOREM TypeCorrect == Spec => []TypeOK
<1>1. Spec => []Typed
  BY TypedInit, TypedStep, PTL DEF Spec
<1>2. QED
  BY <1>1, TypedOK, PTL

-----------------------------------------------------------------------------
(* Only registered users have sessions.                                    *)

(* The list and the accounts are as good as they were, and so are the      *)
(* logins under way, but for that of f.                                    *)
LEMMA RegisteredKept ==
  ASSUME Typed, Registered, NEW f \in Fds, OthersWait(f), Stay(db, db'),
         DOMAIN sessions' = DOMAIN sessions,
         \A i \in DOMAIN sessions : sessions'[i].id \in {sessions[i].id, Freed},
         work'[f].pc \in LoginSteps => db.account[work'[f].req.user] # NoAccount,
         work'[f].pc \in LoginSteps => work'[f].req.user \in Users
  PROVE  Registered'
<1>1. \A u \in Users : db.account[u] # NoAccount => db'.account[u] # NoAccount
  BY DEF Stay
<1>2. ASSUME NEW i \in DOMAIN sessions, sessions'[i].id # Freed
      PROVE  db'.account[sessions'[i].id] # NoAccount
  <2>1. sessions'[i].id = sessions[i].id
    BY <1>2
  <2>2. sessions[i].id \in Users
    <3>1. sessions[i] \in SessionRec
      BY DEF Typed
    <3>2. QED
      BY <1>2, <2>1, <3>1 DEF SessionRec
  <2>3. QED
    BY <1>1, <1>2, <2>1, <2>2 DEF Registered, SessionsRegistered
<1>3. ASSUME NEW g \in Fds, work'[g].pc \in LoginSteps
      PROVE  db'.account[work'[g].req.user] # NoAccount
  <2>1. CASE g = f
    BY <1>1, <1>3, <2>1
  <2>2. CASE g # f
    <3>1. work'[g] = work[g] /\ work[g].req.type = "LOGIN" /\ work[g].req \in Reqs
      BY <1>3, <2>2 DEF OthersWait, Typed, Fits, Suits, Worker
    <3>2. work[g].req.user \in Users
      BY <3>1, ReqFields
    <3>3. QED
      BY <1>1, <1>3, <3>1, <3>2 DEF Registered, LoginsRegistered
  <2>3. QED
    BY <2>1, <2>2
<1>4. QED
  BY <1>2, <1>3 DEF Registered, SessionsRegistered, LoginsRegistered

LEMMA RegisteredAdvances ==
  ASSUME Typed, Registered, NEW f \in Fds, Advances(f)
  PROVE  Registered'
<1>1. sessions' = sessions /\ OthersWait(f) /\ Stay(db, db')
  BY DEF Advances
<1>2. ASSUME work'[f].pc \in LoginSteps
      PROVE  db.account[work'[f].req.user] # NoAccount /\ work'[f].req.user \in Users
  <2>1. /\ SameRequest(f) /\ LoginIsGood(f) /\ Fits(work'[f])
        /\ work'[f] \in Worker /\ work[f] \in Worker
    BY <1>2 DEF Advances, Idle, LoginSteps, Typed
  <2>2. work'[f].req.type = "LOGIN" /\ work'[f].req \in Reqs
    BY <1>2, <2>1 DEF Fits, Suits, Worker
  <2>3. work'[f].req = work[f].req
    BY <2>1, <2>2 DEF SameRequest, RoomReqs
  <2>4. work'[f].req.user \in Users
    BY <2>2, ReqFields
  <2>5. QED
    BY <1>2, <2>1, <2>3, <2>4 DEF LoginIsGood, Registered, LoginsRegistered
<1>3. QED
  BY <1>1, <1>2, RegisteredKept

LEMMA RegisteredAddSession ==
  ASSUME Typed, Registered, NEW f \in Fds, AddSession(f)
  PROVE  Registered'
<1> DEFINE s == [id |-> work[f].req.user, fd |-> f, sse |-> NoFd]
<1>1. /\ db' = db /\ Onward(f, "reply") /\ work[f].pc = "add_session"
      /\ sessions' = Append(sessions, s) /\ sessions \in Seq(SessionRec)
  BY AddSessionTakes DEF Typed
<1>2. db.account[s.id] # NoAccount
  BY <1>1 DEF Registered, LoginsRegistered, LoginSteps
<1> HIDE DEF s
<1>3. \A i \in DOMAIN sessions' : sessions'[i] = s \/ (i \in DOMAIN sessions /\ sessions'[i] = sessions[i])
  BY <1>1
<1>4. SessionsRegistered'
  BY <1>1, <1>2, <1>3 DEF Registered, SessionsRegistered
<1>5. LoginsRegistered'
  BY <1>1 DEF Onward, OthersWait, LoginSteps, Registered, LoginsRegistered
<1>6. QED
  BY <1>4, <1>5 DEF Registered

LEMMA RegisteredStep == Typed /\ Registered /\ [Next]_vars => Registered'
<1> SUFFICES ASSUME Typed, Registered, [Next]_vars PROVE Registered'
  OBVIOUS
<1>0. Stay(db, db) /\ sessions \in Seq(SessionRec)
  BY DEF Stay, Typed
<1>1. CASE UNCHANGED vars
  BY <1>1 DEF vars, Registered, SessionsRegistered, LoginsRegistered
<1>2. CASE Boot
  BY <1>2 DEF Boot, Registered, SessionsRegistered, LoginsRegistered
<1>3. CASE GoesDown
  <2>1. sessions' = <<>> /\ work' = [f \in Fds |-> Closed]
    BY <1>3 DEF GoesDown, Crash
  <2>2. Closed.pc \notin LoginSteps
    BY DEF Closed, Idle, LoginSteps
  <2>3. QED
    BY <2>1, <2>2 DEF Registered, SessionsRegistered, LoginsRegistered
<1>4. ASSUME NEW c \in Clients, Accept(c) PROVE Registered'
  <2>1. PICK g \in Fds : work'[g] = Idle /\ OthersWait(g) /\ UNCHANGED <<db, sessions>>
    BY <1>4, AcceptTakes
  <2>2. QED
    BY <1>0, <2>1, RegisteredKept DEF Idle, LoginSteps
<1>5. ASSUME NEW c \in Clients, Leave(c) PROVE Registered'
  BY <1>5 DEF Leave, Registered, SessionsRegistered, LoginsRegistered
<1>6. ASSUME NEW f \in Fds, Close(f) PROVE Registered'
  <2>1. work'[f] = Closed /\ OthersWait(f) /\ UNCHANGED <<db, sessions>>
    BY <1>6 DEF Close, OthersWait, Typed
  <2>2. Closed.pc \notin LoginSteps
    BY DEF Closed, Idle, LoginSteps
  <2>3. QED
    BY <1>0, <2>1, <2>2, RegisteredKept
<1>7. ASSUME NEW f \in Fds, Receive(f) PROVE Registered'
  <2>1. work'[f].pc \notin LoginSteps /\ OthersWait(f) /\ UNCHANGED <<db, sessions>>
    BY <1>7, ReceiveTakes
  <2>2. QED
    BY <1>0, <2>1, RegisteredKept
<1>8. ASSUME NEW f \in Fds, SendReply(f) PROVE Registered'
  <2>1. work'[f] = Idle /\ OthersWait(f) /\ UNCHANGED <<db, sessions>>
    BY <1>8, AnswerTakes
  <2>2. QED
    BY <1>0, <2>1, RegisteredKept DEF Idle, LoginSteps
<1>9. ASSUME NEW f \in Fds, Register(f) PROVE Registered'
  <2>1. work'[f].pc \notin LoginSteps /\ OthersWait(f) /\ UNCHANGED db
    BY <1>9, RegisterTakes, FinishIdle DEF Onward, LoginSteps, Idle, Typed
  <2>2. /\ DOMAIN sessions' = DOMAIN sessions
        /\ \A i \in DOMAIN sessions : sessions'[i].id = sessions[i].id
    BY <1>0, <1>9, RegisterTakes, SseSet
  <2>3. QED
    BY <1>0, <2>1, <2>2, RegisteredKept
<1>10. ASSUME NEW f \in Fds, FreesId(f) PROVE Registered'
  <2>1. work'[f].pc \notin LoginSteps /\ OthersWait(f) /\ UNCHANGED db
    BY <1>10, FreesIdTakes DEF Onward, LoginSteps
  <2>2. /\ DOMAIN sessions' = DOMAIN sessions
        /\ \A i \in DOMAIN sessions : sessions'[i].id \in {sessions[i].id, Freed}
    BY <1>0, <1>10, FreesIdTakes, IdFreed
  <2>3. QED
    BY <1>0, <2>1, <2>2, RegisteredKept
<1>11. QED
  BY <1>1, <1>2, <1>3, <1>4, <1>5, <1>6, <1>7, <1>8, <1>9, <1>10, StepCases,
     RegisteredAdvances, RegisteredAddSession

(* Sessions exist for users with an account only, whichever sign-ups and   *)
(* logins overlap and whatever the database refuses.                       *)
THEOREM OnlyRegistered == Spec => []SessionsRegistered
<1>1. Init => Registered
  <2>1. Closed.pc \notin LoginSteps
    BY DEF Closed, Idle, LoginSteps
  <2>2. QED
    BY <2>1 DEF Init, Registered, SessionsRegistered, LoginsRegistered
<1>2. Registered => SessionsRegistered
  BY DEF Registered
<1>3. QED
  BY <1>1, <1>2, TypedInit, TypedStep, RegisteredStep, PTL DEF Spec

-----------------------------------------------------------------------------
(* Connections and sessions belong together.                               *)

(* The list grows, and of its sessions at most the id is lost. *)
ListKept ==
    /\ DOMAIN sessions \subseteq DOMAIN sessions'
    /\ \A i \in DOMAIN sessions :
          sessions'[i].fd = sessions[i].fd /\ sessions'[i].id \in {sessions[i].id, Freed}

(* As HasSession, after the step. *)
WillHaveSession(f, u) ==
    \E i \in DOMAIN sessions' : sessions'[i].fd = f /\ sessions'[i].id \in {u, Freed}

LEMMA SessionKept ==
  ASSUME ListKept, NEW f, NEW u, HasSession(f, u)
  PROVE  WillHaveSession(f, u)
  BY DEF ListKept, HasSession, WillHaveSession

(* One worker moves, and no connection is opened or closed by a client.    *)
LEMMA ConnectedKept ==
  ASSUME Typed, Connected, NEW f \in Fds, OthersWait(f), ListKept,
         \A c \in Clients : client'[c].rpc = client[c].rpc /\ client'[c].sse = client[c].sse,
         \A c \in Clients : client'[c].user \in {client[c].user, NoUser}
             \/ (client[c].rpc \in Fds /\ HasSession(client[c].rpc, client'[c].user)),
         work'[f].pc = "closed" => Gone(f),
         \A c \in Clients :
             /\ f = client[c].sse => work'[f].req.type \in {"none", "SSE_CONNECT"}
             /\ f = client[c].rpc => work'[f].req.type # "SSE_CONNECT",
         work'[f].pc = "reply" /\ work'[f].req.type = "LOGIN" /\ work'[f].answer = "OK"
             => WillHaveSession(f, work'[f].req.user),
         work'[f].ss # 0 => sessions'[work'[f].ss].fd = f
  PROVE  Connected'
<1>1. EndsOpen'
  BY DEF Connected, EndsOpen, At, OthersWait, Gone, Ends, Typed, ClientRec
<1>2. EndsApart'
  BY DEF Connected, EndsApart
<1>3. Sides'
  BY DEF Connected, Sides, OthersWait
<1>4. AnsweredHasSession'
  <2> SUFFICES ASSUME NEW g \in Fds, work'[g].pc = "reply", work'[g].req.type = "LOGIN",
                      work'[g].answer = "OK"
               PROVE  WillHaveSession(g, work'[g].req.user)
    BY DEF AnsweredHasSession, At, HasSession, WillHaveSession
  <2>1. CASE g = f
    BY <2>1
  <2>2. CASE g # f
    <3>1. work'[g] = work[g]
      BY <2>2 DEF OthersWait
    <3>2. HasSession(g, work[g].req.user)
      BY <3>1 DEF Connected, AnsweredHasSession, At
    <3>3. QED
      BY <3>1, <3>2, SessionKept
  <2>3. QED
    BY <2>1, <2>2
<1>5. UserHasSession'
  <2> SUFFICES ASSUME NEW c \in Clients, client'[c].user # NoUser
               PROVE  /\ client'[c].rpc \in Fds
                      /\ WillHaveSession(client'[c].rpc, client'[c].user)
    BY DEF UserHasSession, HasSession, WillHaveSession
  <2>1. client[c].rpc \in Fds /\ HasSession(client[c].rpc, client'[c].user)
    BY DEF Connected, UserHasSession
  <2>2. QED
    BY <2>1, SessionKept
<1>6. OwnSession'
  <2> SUFFICES ASSUME NEW g \in Fds, work'[g].ss # 0
               PROVE  sessions'[work'[g].ss].fd = g
    BY DEF OwnSession
  <2>1. CASE g = f
    BY <2>1
  <2>2. CASE g # f
    <3>1. work'[g] = work[g]
      BY <2>2 DEF OthersWait
    <3> DEFINE n == work[g].ss
    <3>2. n \in Nat /\ n <= Len(sessions) /\ Len(sessions) \in Nat /\ n # 0
      BY <3>1 DEF Typed, Worker
    <3>3. n \in DOMAIN sessions
      BY <3>2 DEF Typed
    <3>4. sessions[n].fd = g
      BY <3>1 DEF Connected, OwnSession
    <3> HIDE DEF n
    <3>5. sessions'[n].fd = g
      BY <3>3, <3>4 DEF ListKept
    <3>6. QED
      BY <3>1, <3>5 DEF n
  <2>3. QED
    BY <2>1, <2>2
<1>7. QED
  BY <1>1, <1>2, <1>3, <1>4, <1>5, <1>6 DEF Connected

(* A client opens a connection at a descriptor that was closed. *)
LEMMA ConnectedAccept ==
  ASSUME Typed, Connected, NEW c \in Clients, Accept(c)
  PROVE  Connected'
<1>1. PICK g \in Fds :
            /\ At(g, "closed") /\ work'[g] = Idle /\ OthersWait(g)
            /\ UNCHANGED <<up, db, sessions, history>>
            /\ \/ client[c].rpc = NoFd /\ client' = [client EXCEPT ![c].rpc = g]
               \/ /\ client[c].rpc # NoFd /\ client[c].sse = NoFd
                  /\ client' = [client EXCEPT ![c].sse = g]
  BY AcceptTakes
<1>2. client \in [Clients -> ClientRec] /\ client[c] \in ClientRec
  BY DEF Typed
<1>3. \A b \in Clients : g \notin {client[b].rpc, client[b].sse}
  <2>1. g # NoFd
    BY FdsAssumption DEF NoFd
  <2>2. QED
    BY <1>1, <2>1 DEF Connected, EndsOpen
<1>4. /\ \A b \in Clients \ {c} : client'[b] = client[b]
      /\ client'[c].user = client[c].user
      /\ \/ /\ client[c].rpc = NoFd /\ client'[c].rpc = g
            /\ client'[c].sse = client[c].sse
         \/ /\ client[c].rpc # NoFd /\ client[c].sse = NoFd
            /\ client'[c].rpc = client[c].rpc /\ client'[c].sse = g
  BY <1>1, <1>2 DEF ClientRec
<1>5. Idle.pc = "recv" /\ Idle.req.type = "none" /\ Idle.ss = 0 /\ Idle.answer = "none"
  BY DEF Idle, NoReq
<1>6. client'[c].rpc # client'[c].sse
  BY <1>3, <1>4
<1>7. EndsOpen'
  BY <1>1, <1>4, <1>5 DEF Connected, EndsOpen, At, OthersWait, Typed, ClientRec
<1>8. EndsApart'
  BY <1>3, <1>4, <1>6 DEF Connected, EndsApart
<1>9. Sides'
  <2>1. \A f \in Fds : f = g \/ work'[f] = work[f]
    BY <1>1 DEF OthersWait
  <2>2. QED
    BY <1>1, <1>3, <1>4, <1>5, <2>1 DEF Connected, Sides
<1>10. AnsweredHasSession'
  <2>1. \A f \in Fds : work'[f].pc = "reply" => f # g /\ work'[f] = work[f]
    BY <1>1, <1>5 DEF OthersWait
  <2>2. QED
    BY <1>1, <2>1 DEF Connected, AnsweredHasSession, HasSession, At
<1>11. UserHasSession'
  <2>1. NoFd \notin Fds
    BY FdsAssumption DEF NoFd
  <2>2. client[c].user # NoUser => client'[c].rpc = client[c].rpc
    BY <1>4, <2>1 DEF Connected, UserHasSession
  <2>3. QED
    BY <1>1, <1>4, <2>2 DEF Connected, UserHasSession, HasSession
<1>12. OwnSession'
  BY <1>1, <1>5 DEF Connected, OwnSession, OthersWait
<1>13. QED
  BY <1>7, <1>8, <1>9, <1>10, <1>11, <1>12 DEF Connected

LEMMA ConnectedLeave ==
  ASSUME Typed, Connected, NEW c \in Clients, Leave(c)
  PROVE  Connected'
<1>1. /\ UNCHANGED <<work, sessions>> /\ client'[c] = Off
      /\ \A b \in Clients \ {c} : client'[b] = client[b]
  BY DEF Leave, Typed
<1>2. Off.rpc = NoFd /\ Off.sse = NoFd /\ Off.user = NoUser /\ NoFd \notin Fds
  BY FdsAssumption DEF Off, NoFd
<1>3. EndsOpen' /\ EndsApart' /\ Sides'
  BY <1>1, <1>2 DEF Connected, EndsOpen, EndsApart, Sides, At
<1>4. AnsweredHasSession' /\ UserHasSession' /\ OwnSession'
  BY <1>1, <1>2 DEF Connected, AnsweredHasSession, UserHasSession, OwnSession, HasSession, At
<1>5. QED
  BY <1>3, <1>4 DEF Connected

(* Nothing is left of connections and sessions. *)
LEMMA ConnectedEmpty ==
  ASSUME sessions' = <<>>, work' = [f \in Fds |-> Closed],
         client' = [c \in Clients |-> Off]
  PROVE  Connected'
<1>1. Off.rpc = NoFd /\ Off.sse = NoFd /\ Off.user = NoUser /\ NoFd \notin Fds
  BY FdsAssumption DEF Off, NoFd
<1>2. Closed.pc = "closed" /\ Closed.ss = 0 /\ Closed.req.type = "none"
  BY DEF Closed, Idle, NoReq
<1>3. EndsOpen' /\ EndsApart' /\ Sides'
  BY <1>1 DEF EndsOpen, EndsApart, Sides
<1>4. AnsweredHasSession' /\ UserHasSession' /\ OwnSession'
  BY <1>1, <1>2 DEF AnsweredHasSession, UserHasSession, OwnSession, At
<1>5. QED
  BY <1>3, <1>4 DEF Connected

LEMMA ConnectedAdvances ==
  ASSUME Typed, Connected, NEW f \in Fds, Advances(f)
  PROVE  Connected'
<1>1. /\ sessions' = sessions /\ OthersWait(f) /\ SameEnds
      /\ work[f].pc # "closed"
      /\ \/ work'[f] = Idle
         \/ /\ work'[f].pc \notin {"closed", "recv"}
            /\ SameRequest(f) /\ LoginIsGood(f)
  BY DEF Advances
<1>2. ListKept
  BY <1>1 DEF ListKept
<1>3. Idle.pc = "recv" /\ Idle.req.type = "none" /\ Idle.ss = 0 /\ Idle.answer = "none"
  BY DEF Idle, NoReq
<1>4. work'[f].pc # "closed" /\ work'[f].ss \in {0, work[f].ss}
  BY <1>1, <1>3 DEF SameRequest
<1>5. work'[f].req.type \in {"none", work[f].req.type}
  BY <1>1, <1>3 DEF SameRequest, RoomReqs
<1>6. ~ (work'[f].pc = "reply" /\ work'[f].req.type = "LOGIN" /\ work'[f].answer = "OK")
  BY <1>1, <1>3, <1>5 DEF LoginIsGood
<1>7. work'[f].ss # 0 => sessions'[work'[f].ss].fd = f
  BY <1>1, <1>4 DEF Connected, OwnSession
<1>8. \A c \in Clients : /\ client'[c].rpc = client[c].rpc /\ client'[c].sse = client[c].sse
                         /\ client'[c].user = client[c].user
  BY <1>1 DEF SameEnds
<1>9. \A c \in Clients :
             /\ f = client[c].sse => work'[f].req.type \in {"none", "SSE_CONNECT"}
             /\ f = client[c].rpc => work'[f].req.type # "SSE_CONNECT"
  BY <1>5 DEF Connected, Sides
<1>10. QED
  BY <1>1, <1>2, <1>4, <1>6, <1>7, <1>8, <1>9, ConnectedKept

LEMMA ConnectedClose ==
  ASSUME Typed, Connected, NEW f \in Fds, Close(f)
  PROVE  Connected'
<1>1. /\ work'[f] = Closed /\ OthersWait(f) /\ UNCHANGED <<sessions, client>> /\ Gone(f)
  BY DEF Close, OthersWait, Typed
<1>2. Closed.pc = "closed" /\ Closed.ss = 0 /\ Closed.req.type = "none"
  BY DEF Closed, Idle, NoReq
<1>3. ListKept
  BY <1>1 DEF ListKept
<1>4. QED
  BY <1>1, <1>2, <1>3, ConnectedKept

LEMMA ConnectedReceive ==
  ASSUME Typed, Connected, NEW f \in Fds, Receive(f)
  PROVE  Connected'
<1>1. PICK c \in Ends(f) : \E q \in Requests(c, f) :
              /\ work'[f].req = q /\ q \in Reqs /\ q.type # "none" /\ Fits(work'[f])
              /\ work'[f].pc \notin LoginSteps \cup {"closed", "recv"}
              /\ work'[f].ss \in {0, FindByFd(f)} /\ work'[f].answer # "OK"
              /\ client' = IF q.type = "SSE_CONNECT"
                           THEN [client EXCEPT ![c].ear = "wait"] ELSE client
  BY ReceiveTakes
<1>2. PICK q \in Requests(c, f) :
              /\ work'[f].req = q
              /\ work'[f].pc \notin LoginSteps \cup {"closed", "recv"}
              /\ work'[f].ss \in {0, FindByFd(f)} /\ work'[f].answer # "OK"
              /\ client' = IF q.type = "SSE_CONNECT"
                           THEN [client EXCEPT ![c].ear = "wait"] ELSE client
  BY <1>1
<1>3. OthersWait(f) /\ sessions' = sessions /\ c \in Clients
  BY ReceiveTakes DEF Ends
<1>4. ListKept
  BY <1>3 DEF ListKept
<1>5. \A b \in Clients : /\ client'[b].rpc = client[b].rpc /\ client'[b].sse = client[b].sse
                         /\ client'[b].user = client[b].user
  BY <1>2, <1>3 DEF Typed, ClientRec
<1>6. (q.type = "SSE_CONNECT") <=> (f = client[c].sse)
  BY <1>3, RequestSide
<1>7. ASSUME NEW b \in Clients
      PROVE  /\ f = client[b].sse => q.type \in {"none", "SSE_CONNECT"}
             /\ f = client[b].rpc => q.type # "SSE_CONNECT"
  <2>1. f \in {client[c].rpc, client[c].sse} /\ f # NoFd
    BY FdsAssumption DEF Ends, NoFd
  <2>2. f \in {client[b].rpc, client[b].sse} => b = c
    BY <1>3, <2>1 DEF Connected, EndsApart
  <2>3. client[c].rpc # client[c].sse
    BY <1>3, <2>1 DEF Connected, EndsApart
  <2>4. QED
    BY <1>6, <2>2, <2>3
<1>8. work'[f].ss # 0 => sessions'[work'[f].ss].fd = f
  <2>1. FindByFd(f) # 0 => sessions[FindByFd(f)].fd = f
    BY FindTyped DEF Typed
  <2>2. QED
    BY <1>2, <1>3, <2>1
<1>9. QED
  BY <1>2, <1>3, <1>4, <1>5, <1>7, <1>8, ConnectedKept

(* A client whose login was answered OK has the session of the answer. *)
LEMMA ConnectedSendReply ==
  ASSUME Typed, Connected, NEW f \in Fds, SendReply(f)
  PROVE  Connected'
<1>1. /\ sessions' = sessions /\ At(f, "reply") /\ OthersWait(f) /\ work'[f] = Idle
  BY AnswerTakes
<1>2. Idle.pc = "recv" /\ Idle.req.type = "none" /\ Idle.ss = 0 /\ Idle.answer = "none"
  BY DEF Idle, NoReq
<1>3. ListKept
  BY <1>1 DEF ListKept
<1>4. ASSUME NEW b \in Clients
      PROVE  /\ client'[b].rpc = client[b].rpc /\ client'[b].sse = client[b].sse
             /\ \/ client'[b].user = client[b].user
                \/ client[b].rpc \in Fds /\ HasSession(client[b].rpc, client'[b].user)
  <2>1. client[b] \in ClientRec
    BY DEF Typed
  <2>2. CASE client' = client
    BY <2>2
  <2>3. ASSUME NEW c \in Ends(f), work[f].req.type = "LOGIN", work[f].answer = "OK",
               client' = LoginAnswered(c, f)
        PROVE  /\ client'[b].rpc = client[b].rpc /\ client'[b].sse = client[b].sse
               /\ \/ client'[b].user = client[b].user
                  \/ client[b].rpc \in Fds /\ HasSession(client[b].rpc, client'[b].user)
    <3>1. CASE b # c
      BY <2>3, <3>1 DEF LoginAnswered, Typed
    <3>2. CASE b = c
      <4>1. f = client[c].rpc
        BY <2>3 DEF Ends, Connected, Sides
      <4>2. HasSession(f, work[f].req.user)
        BY <1>1, <2>3 DEF Connected, AnsweredHasSession
      <4>3. /\ client'[b].rpc = client[b].rpc /\ client'[b].sse = client[b].sse
            /\ client'[b].user = work[f].req.user
        BY <2>1, <2>3, <3>2 DEF LoginAnswered, Typed, ClientRec
      <4>4. QED
        BY <3>2, <4>1, <4>2, <4>3
    <3>3. QED
      BY <3>1, <3>2
  <2>4. ASSUME NEW c \in Ends(f), client' = SseAnswered(c)
        PROVE  /\ client'[b].rpc = client[b].rpc /\ client'[b].sse = client[b].sse
               /\ client'[b].user = client[b].user
    BY <2>1, <2>4 DEF SseAnswered, Typed, ClientRec
  <2>5. QED
    BY <2>2, <2>3, <2>4, AnswerTakes
<1>5. QED
  BY <1>1, <1>2, <1>3, <1>4, ConnectedKept

LEMMA ConnectedAddSession ==
  ASSUME Typed, Connected, NEW f \in Fds, AddSession(f)
  PROVE  Connected'
<1> DEFINE s == [id |-> work[f].req.user, fd |-> f, sse |-> NoFd]
<1>1. /\ UNCHANGED client /\ Onward(f, "reply") /\ work[f].req.type = "LOGIN"
      /\ sessions' = Append(sessions, s) /\ sessions \in Seq(SessionRec)
      /\ Len(sessions') = Len(sessions) + 1
  BY AddSessionTakes DEF Typed
<1>2. s.fd = f /\ s.id = work[f].req.user
  OBVIOUS
<1> HIDE DEF s
<1>3. /\ DOMAIN sessions \subseteq DOMAIN sessions'
      /\ \A i \in DOMAIN sessions : sessions'[i] = sessions[i]
      /\ Len(sessions') \in DOMAIN sessions' /\ sessions'[Len(sessions')] = s
  BY <1>1
<1>4. ListKept
  BY <1>3 DEF ListKept
<1>5. work'[f].req = work[f].req /\ work'[f].ss = work[f].ss /\ work'[f].pc = "reply" /\ OthersWait(f)
  BY <1>1 DEF Onward
<1>6. WillHaveSession(f, work'[f].req.user)
  BY <1>2, <1>3, <1>5 DEF WillHaveSession
<1>7. work'[f].ss # 0 => sessions'[work'[f].ss].fd = f
  <2> DEFINE n == work[f].ss
  <2>1. n # 0 => n \in DOMAIN sessions /\ sessions[n].fd = f
    <3>1. n \in Nat /\ n <= Len(sessions) /\ Len(sessions) \in Nat
      BY DEF Typed, Worker
    <3>2. QED
      BY <3>1, <1>1 DEF Connected, OwnSession
  <2>2. QED
    BY <1>3, <1>5, <2>1
<1>8. \A c \in Clients :
             /\ f = client[c].sse => work'[f].req.type \in {"none", "SSE_CONNECT"}
             /\ f = client[c].rpc => work'[f].req.type # "SSE_CONNECT"
  BY <1>5 DEF Connected, Sides
<1>9. QED
  BY <1>1, <1>4, <1>5, <1>6, <1>7, <1>8, ConnectedKept

(* A change inside one session disturbs nothing. *)
LEMMA ConnectedOnward ==
  ASSUME Typed, Connected, NEW f \in Fds, UNCHANGED client,
         Onward(f, "reply") \/ Finish(f), work[f].req.type # "LOGIN",
         DOMAIN sessions' = DOMAIN sessions, ListKept
  PROVE  Connected'
<1>1. Idle.pc = "recv" /\ Idle.req.type = "none" /\ Idle.ss = 0 /\ Idle.answer = "none"
  BY DEF Idle, NoReq
<1>2. /\ OthersWait(f) /\ work'[f].pc # "closed"
      /\ work'[f].req.type \in {"none", work[f].req.type} /\ work'[f].ss \in {0, work[f].ss}
  BY <1>1, FinishIdle DEF Onward, Typed
<1>3. work'[f].ss # 0 => sessions'[work'[f].ss].fd = f
  <2> DEFINE n == work[f].ss
  <2>1. n # 0 => n \in DOMAIN sessions /\ sessions[n].fd = f
    <3>1. n \in Nat /\ n <= Len(sessions) /\ Len(sessions) \in Nat /\ sessions \in Seq(SessionRec)
      BY DEF Typed, Worker
    <3>2. QED
      BY <3>1 DEF Connected, OwnSession
  <2>2. QED
    BY <1>2, <2>1 DEF ListKept
<1>4. \A c \in Clients :
             /\ f = client[c].sse => work'[f].req.type \in {"none", "SSE_CONNECT"}
             /\ f = client[c].rpc => work'[f].req.type # "SSE_CONNECT"
  BY <1>2 DEF Connected, Sides
<1>5. QED
  BY <1>2, <1>3, <1>4, ConnectedKept

LEMMA ConnectedStep == Typed /\ Connected /\ [Next]_vars => Connected'
<1> SUFFICES ASSUME Typed, Connected, [Next]_vars PROVE Connected'
  OBVIOUS
<1>0. sessions \in Seq(SessionRec)
  BY DEF Typed
<1>1. CASE UNCHANGED vars \/ Boot
  <2>1. UNCHANGED <<work, client, sessions>>
    BY <1>1 DEF vars, Boot
  <2>2. QED
    BY <2>1 DEF Connected, EndsOpen, EndsApart, Sides, AnsweredHasSession, UserHasSession,
                OwnSession, HasSession, At
<1>2. CASE GoesDown
  BY <1>2, ConnectedEmpty DEF GoesDown, Crash
<1>3. ASSUME NEW f \in Fds, Register(f) PROVE Connected'
  <2>1. work[f].req.type = "SSE_CONNECT" /\ UNCHANGED client
    BY <1>3, RegisterTakes
  <2>2. CASE Finish(f) /\ UNCHANGED sessions
    BY <2>1, <2>2, ConnectedOnward DEF ListKept
  <2>3. ASSUME Onward(f, "reply"), NEW i \in DOMAIN sessions,
               sessions' = [sessions EXCEPT ![i].sse = f]
        PROVE  Connected'
    <3>1. DOMAIN sessions' = DOMAIN sessions /\ ListKept
      BY <1>0, <2>3, SseSet DEF ListKept
    <3>2. QED
      BY <2>1, <2>3, <3>1, ConnectedOnward
  <2>4. QED
    BY <1>3, <2>2, <2>3, RegisterTakes
<1>4. ASSUME NEW f \in Fds, FreesId(f) PROVE Connected'
  <2>1. /\ UNCHANGED client /\ Onward(f, "reply") /\ work[f].req.type = "Search_User"
    BY <1>4, FreesIdTakes
  <2>2. DOMAIN sessions' = DOMAIN sessions /\ ListKept
    BY <1>0, <1>4, FreesIdTakes, IdFreed DEF ListKept
  <2>3. QED
    BY <2>1, <2>2, ConnectedOnward
<1>5. QED
  BY <1>1, <1>2, <1>3, <1>4, StepCases, ConnectedAccept, ConnectedLeave, ConnectedClose,
     ConnectedReceive, ConnectedSendReply, ConnectedAddSession, ConnectedAdvances

LEMMA ConnectedAlways == Spec => [](Typed /\ Connected)
<1>1. Init => Connected
  <2>1. Init => sessions = <<>> /\ work = [f \in Fds |-> Closed] /\ client = [c \in Clients |-> Off]
    BY DEF Init
  <2>2. Off.rpc = NoFd /\ Off.sse = NoFd /\ Off.user = NoUser /\ NoFd \notin Fds
    BY FdsAssumption DEF Off, NoFd
  <2>3. Closed.pc = "closed" /\ Closed.ss = 0 /\ Closed.req.type = "none"
    BY DEF Closed, Idle, NoReq
  <2>4. Init => EndsOpen /\ EndsApart /\ Sides
    BY <2>1, <2>2 DEF EndsOpen, EndsApart, Sides
  <2>5. Init => AnsweredHasSession /\ UserHasSession /\ OwnSession
    BY <2>1, <2>2, <2>3 DEF AnsweredHasSession, UserHasSession, OwnSession, At
  <2>6. QED
    BY <2>4, <2>5 DEF Connected
<1>2. QED
  BY <1>1, TypedInit, TypedStep, ConnectedStep, PTL DEF Spec

(* Whoever takes himself to be logged in has a session on his connection. *)
THEOREM LoggedIn == Spec => []LoggedInHasSession
<1>1. Typed /\ Connected => LoggedInHasSession
  <2> SUFFICES ASSUME Typed, Connected, NEW c \in Clients, client[c].user # NoUser
               PROVE  FindByFd(client[c].rpc) # 0
    BY DEF LoggedInHasSession
  <2>1. HasSession(client[c].rpc, client[c].user)
    BY DEF Connected, UserHasSession
  <2>2. QED
    BY <2>1, FindTyped DEF HasSession, Typed
<1>2. QED
  BY <1>1, ConnectedAlways, PTL

(* A request is carried out for the user who logged in on its connection,  *)
(* when there is one session with its descriptor.                          *)
THEOREM OwnerActs == Spec => []ActsAsOwner
<1>1. Typed /\ Connected => ActsAsOwner
  <2> SUFFICES ASSUME Typed, Connected, NEW c \in Clients, NEW f \in Fds,
                      f = client[c].rpc, client[c].user # NoUser, work[f].ss # 0,
                      Cardinality({i \in DOMAIN sessions : sessions[i].fd = f}) = 1
               PROVE  sessions[work[f].ss].id \in {client[c].user, Freed}
    BY DEF ActsAsOwner
  <2> DEFINE S == {i \in DOMAIN sessions : sessions[i].fd = f}
             n == work[f].ss
  <2>1. PICK i \in S : sessions[i].id \in {client[c].user, Freed}
    BY DEF Connected, UserHasSession, HasSession
  <2>2. n \in S
    <3>1. /\ n \in Nat /\ n <= Len(sessions) /\ Len(sessions) \in Nat /\ n # 0
          /\ sessions \in Seq(SessionRec)
      BY DEF Typed, Worker
    <3>2. n \in DOMAIN sessions
      BY <3>1
    <3>3. QED
      BY <3>2 DEF Connected, OwnSession
  <2>3. IsFiniteSet(S)
    <3>1. Len(sessions) \in Nat /\ DOMAIN sessions = 1 .. Len(sessions)
      BY DEF Typed
    <3>2. IsFiniteSet(DOMAIN sessions)
      BY <3>1, FS_Interval
    <3>3. QED
      BY <3>2, FS_Subset
  <2> HIDE DEF n, S
  <2>4. \E x : S = {x}
    BY <2>3, FS_Singleton DEF S
  <2>5. n = i
    BY <2>1, <2>2, <2>4
  <2>6. QED
    BY <2>1, <2>5 DEF n
<1>2. QED
  BY <1>1, ConnectedAlways, PTL

-----------------------------------------------------------------------------
(* Rooms that are created at the same time.                                *)

(* Every number may be that of a room; rooms are numbered when the server  *)
(* is started, and only rooms have members.                                *)
NumberedFrom(d) ==
    /\ Rooms = Nat
    /\ \E k \in Nat : d.room = 0 .. k - 1
    /\ \A r \in Rooms \ d.room : Members(r, d) = {}

RoomsSame(d, e) == e.room = d.room /\ \A r \in Rooms : Members(r, e) = Members(r, d)

(* Calls that neither make a room nor add members.                         *)
LEMMA EffectRooms ==
  ASSUME NEW d, Tables(d), NEW c \in ServerCalls,
         c.name \notin {"insert_room", "insert_members"}
  PROVE  RoomsSame(d, Effect(c, d))
<1>0. d \in Db /\ c.name \in CallNames
  BY CallFields DEF Tables
<1>1. \A e : e.room = d.room /\ e.lastRead = d.lastRead => RoomsSame(d, e)
  BY DEF RoomsSame, Members
<1>2. \A x : /\ RoomsSame(d, [d EXCEPT !.account = x]) /\ RoomsSame(d, [d EXCEPT !.token = x])
             /\ RoomsSame(d, [d EXCEPT !.chat = x]) /\ RoomsSame(d, [d EXCEPT !.react = x])
             /\ RoomsSame(d, [d EXCEPT !.hidden = x])
  BY <1>0, <1>1 DEF Db
<1>3. RoomsSame(d, d)
  BY <1>1
<1>4. CASE c.name = "chat_list"
  <2>1. Effect(c, d) = MarkRead(c, d)
    BY <1>4 DEF Effect, Write
  <2>2. c.room \in Rooms /\ c.user \in Users /\ NextChatId(c.room, d) \in Nat
    BY <1>4, CallFields, NextIsNat DEF MultiRoomUser
  <2>3. CASE d.lastRead[c.room][c.user] = NoMember
    BY <1>3, <2>1, <2>3 DEF MarkRead
  <2>4. CASE d.lastRead[c.room][c.user] # NoMember
    <3> DEFINE n == NextChatId(c.room, d)
               g == [d.lastRead EXCEPT ![c.room][c.user] = n]
    <3>1. Effect(c, d) = [d EXCEPT !.lastRead = g]
      BY <2>1, <2>4, <1>0 DEF MarkRead, Db
    <3>2. \A r \in Rooms, u \in Users : d.lastRead[r][u] # NoMember <=> g[r][u] # NoMember
      <4> HIDE DEF n
      <4>1. n # NoMember
        BY <2>2 DEF NoMember, n
      <4>2. QED
        BY <1>0, <2>2, <2>4, <4>1 DEF Db
    <3> HIDE DEF g
    <3>3. Effect(c, d).room = d.room /\ Effect(c, d).lastRead = g
      BY <1>0, <3>1 DEF Db
    <3>4. QED
      BY <3>2, <3>3 DEF RoomsSame, Members
  <2>5. QED
    BY <2>3, <2>4
<1>5. CASE c.name = "insert_chat"
  BY <1>2, <1>5 DEF Effect
<1>6. CASE c.name = "get_members"
  BY <1>3, <1>6 DEF Effect
<1>7. CASE c.name \notin {"insert_chat", "chat_list", "get_members"}
  <2>1. Effect(c, d) \in {d, Write(c.name, c, d, NoVars)}
    BY <1>7 DEF Effect, Statements
  <2>2. CASE c.name = "insert_user"
    <3>1. Write(c.name, c, d, NoVars) = [d EXCEPT !.account = [d.account EXCEPT ![c.user] = c.pwd]]
      BY <2>2, <1>0 DEF Write, Db
    <3>2. RoomsSame(d, Write(c.name, c, d, NoVars))
      BY <1>2, <3>1
    <3>3. QED
      BY <1>3, <2>1, <3>2
  <2>3. CASE c.name = "insert_token"
    BY <1>2, <1>3, <2>1, <2>3 DEF Write
  <2>4. CASE c.name = "insert_react" \/ c.name = "update_react"
    <3>1. PICK x : Write(c.name, c, d, NoVars) = [d EXCEPT !.react = x]
      BY <2>4 DEF Write, UpdateReaction
    <3>2. RoomsSame(d, Write(c.name, c, d, NoVars))
      BY <1>2, <3>1
    <3>3. QED
      BY <1>3, <2>1, <3>2
  <2>5. CASE c.name = "delete_all" \/ c.name = "delete_self"
    BY <1>2, <1>3, <2>1, <2>5 DEF Write, DeleteAll
  <2>6. CASE c.name \in {"count_token", "update_token", "find_user", "search_user",
                         "room_list", "match_user", "find_react"}
    BY <1>3, <2>1, <2>6 DEF Write
  <2>7. QED
    BY <1>0, <1>7, <2>2, <2>3, <2>4, <2>5, <2>6
       DEF CallNames, SingleUser, SinglePwd, SingleReact, SingleDelete, MultiRoomUser
<1>8. QED
  BY <1>4, <1>5, <1>6, <1>7

LEMMA OutcomeRooms ==
  ASSUME Typed, NEW c \in ServerCalls, c.name \notin {"insert_room", "insert_members"},
         NEW o \in Outcomes(c)
  PROVE  RoomsSame(db, o.db)
<1>1. RoomsSame(db, Effect(c, db)) /\ RoomsSame(db, db)
  BY EffectRooms DEF Typed, RoomsSame
<1>2. o.db \in {db, Effect(c, db)}
  BY DEF Outcomes
<1>3. QED
  BY <1>1, <1>2

(* A worker that creates no room.                                          *)
NoRoomMade(f) ==
    OthersWait(f) /\ RoomsSame(db, db') /\ work'[f].req.type # "CREATE_ROOM"

LEMMA OthersMakeNoRoom ==
  ASSUME Typed, NEW f \in Fds, Work(f), ~ InsertRoom(f), ~ InsertMembers(f)
  PROVE  GoesDown \/ NoRoomMade(f)
<1>0. RoomsSame(db, db)
  BY DEF RoomsSame
<1>1. Idle.req.type # "CREATE_ROOM" /\ Closed.req.type # "CREATE_ROOM"
  BY DEF Closed, Idle, NoReq
<1>2. CASE BrokenPipe(f)
  BY <1>2 DEF BrokenPipe, GoesDown
<1>3. CASE Close(f)
  BY <1>0, <1>1, <1>3 DEF Close, NoRoomMade, OthersWait, Typed
<1>4. CASE SendReply(f)
  BY <1>0, <1>1, <1>4, AnswerTakes DEF NoRoomMade
<1>5. CASE AddSession(f)
  BY <1>0, <1>5, AddSessionTakes DEF NoRoomMade, Onward
<1>6. CASE Register(f)
  BY <1>0, <1>1, <1>6, RegisterTakes, FinishIdle DEF NoRoomMade, Onward, Typed
<1>7. CASE FreeId(f)
  <2>1. GoesDown \/ FreesId(f)
    BY <1>7 DEF FreeId, FreesId, GoesDown
  <2>2. CASE FreesId(f)
    <3>1. UNCHANGED db
      BY <2>2 DEF FreesId
    <3>2. QED
      BY <1>0, <2>2, <3>1, FreesIdTakes DEF NoRoomMade, Onward
  <2>3. QED
    BY <2>1, <2>2
<1>8. ASSUME Advances(f), work[f].req.type # "CREATE_ROOM", RoomsSame(db, db')
      PROVE  NoRoomMade(f)
  BY <1>1, <1>8 DEF Advances, NoRoomMade, SameRequest, RoomReqs
<1>9. CASE FindUser(f) \/ MatchUser(f) \/ CountToken(f) \/ FindReact(f)
           \/ PushDone(f) \/ SearchUser(f)
  <2>1. UNCHANGED db
    BY <1>9 DEF FindUser, MatchUser, CountToken, FindReact, PushDone, SearchUser
  <2>2. work[f].req.type # "CREATE_ROOM"
    BY <1>9 DEF FindUser, MatchUser, CountToken, FindReact, PushDone, SearchUser,
                At, Typed, Fits, Suits, LoginSteps, Posts
  <2>3. QED
    BY <1>0, <1>8, <1>9, <2>1, <2>2, FindUserAdvances, MatchUserAdvances, CountTokenAdvances,
       FindReactAdvances, PushDoneAdvances, SearchUserAdvances
<1>10. CASE GetMembers(f) \/ \E u \in Users : Push(f, u)
  <2>1. UNCHANGED db
    BY <1>10 DEF GetMembers, Push
  <2>2. work[f].req.type # "CREATE_ROOM"
    BY <1>10 DEF GetMembers, Push, At, Typed, Fits, Suits, Posts
  <2>3. QED
    BY <1>0, <1>8, <1>10, <2>1, <2>2, GetMembersAdvances, PushAdvances
<1>11. CASE InsertUser(f)
  <2> DEFINE q == work[f].req
             c == [name |-> "insert_user", user |-> q.user, pwd |-> q.pwd]
  <2>1. q.type = "SIGNUP" /\ q \in Reqs
    BY <1>11 DEF InsertUser, At, Typed, Fits, Suits, Worker
  <2>2. q.user \in Users /\ q.pwd \in Passwords
    BY <2>1, ReqFields
  <2>3. c \in ServerCalls /\ c.name = "insert_user"
    BY <2>2 DEF ServerCalls, SinglePwd
  <2>4. UNCHANGED db \/ \E o \in Outcomes(c) : db' = o.db
    BY <1>11 DEF InsertUser
  <2> HIDE DEF c
  <2>5. RoomsSame(db, db')
    BY <1>0, <2>3, <2>4, OutcomeRooms
  <2>6. QED
    BY <1>8, <1>11, <2>1, <2>5, InsertUserAdvances
<1>12. CASE WriteToken(f)
  <2> DEFINE c == [name |-> work[f].pc, user |-> work[f].req.user]
  <2>1. /\ work[f].pc \in {"insert_token", "update_token"}
        /\ work[f].req.type = "LOGIN" /\ work[f].req \in Reqs
    BY <1>12 DEF WriteToken, Typed, Fits, Suits, Worker, LoginSteps
  <2>2. work[f].req.user \in Users
    BY <2>1, ReqFields
  <2>3. c \in ServerCalls /\ c.name \in {"insert_token", "update_token"}
    BY <2>1, <2>2 DEF ServerCalls, SingleUser
  <2>4. \E o \in Outcomes(c) : db' = o.db
    BY <1>12 DEF WriteToken
  <2> HIDE DEF c
  <2>5. RoomsSame(db, db')
    BY <2>3, <2>4, OutcomeRooms
  <2>6. QED
    BY <1>8, <1>12, <2>1, <2>5, WriteTokenAdvances
<1>13. CASE Post(f)
  <2>1. /\ work[f].pc \in {"insert_chat", "insert_react", "update_react", "delete"}
        /\ work[f].req.type \in Posts /\ work[f].req.type \in NeedsSession /\ work[f].ss # 0
    BY <1>13 DEF Post, Typed, Fits, Suits, NeedsSession, Posts
  <2>2. PICK u \in UserIds(f) : \E o \in Outcomes(PostCall(f, u)) : db' = o.db
    BY <1>13 DEF Post
  <2>3. u \in Users
    BY <2>1, HisIds
  <2>4. PostCall(f, u) \in ServerCalls
    BY <2>1, <2>3, PostCallTyped
  <2>5. PostCall(f, u).name \notin {"insert_room", "insert_members"}
    BY <2>1 DEF PostCall, Posts
  <2>6. RoomsSame(db, db')
    BY <2>2, <2>4, <2>5, OutcomeRooms
  <2>7. QED
    BY <1>8, <1>13, <2>1, <2>6, PostAdvances DEF Posts
<1>14. CASE List(f)
  <2>1. /\ work[f].pc \in {"room_list", "chat_list"}
        /\ work[f].pc = "room_list" => work[f].req.type = "UPDATE_ROOM_LIST"
        /\ work[f].pc = "chat_list" => work[f].req.type = "UPDATE_CHAT_LIST"
        /\ work[f].req \in Reqs
    BY <1>14 DEF List, Typed, Fits, Suits, Worker
  <2>2. work[f].req.type # "CREATE_ROOM"
    BY <2>1
  <2>3. PICK u \in UserIds(f) : \E o \in Outcomes(ListCall(f, u)) : db' = o.db
    BY <1>14 DEF List
  <2>4. u \in Users
    BY <1>14, <2>1, HisIds DEF NeedsSession
  <2>5. ListCall(f, u) \in ServerCalls /\ ListCall(f, u).name \in {"room_list", "chat_list"}
    <3>1. work[f].pc = "chat_list" => work[f].req.room \in Rooms
      BY <2>1, ReqFields
    <3>2. QED
      BY <2>1, <2>4, <3>1 DEF ListCall, At, ServerCalls, SingleUser, MultiRoomUser
  <2>6. RoomsSame(db, db')
    BY <2>3, <2>5, OutcomeRooms
  <2>7. QED
    BY <1>8, <1>14, <2>2, <2>6, ListAdvances
<1>15. QED
  BY <1>2, <1>3, <1>4, <1>5, <1>6, <1>7, <1>9, <1>10, <1>11, <1>12, <1>13, <1>14, Zenon DEF Work

(* The members a worker has given to its room: none, or those asked for.   *)
RoomOf(w, d) ==
    /\ w.pc = "insert_room" => w.req.room = Null
    /\ w.pc = "insert_members" => w.req.room \in d.room /\ Members(w.req.room, d) = {}
    /\ w.pc = "reply" =>
          \/ w.req.room = Null /\ DbFaulty
          \/ /\ w.req.room \in d.room
             /\ \/ w.req.twice
                \/ Members(w.req.room, d) = w.req.users
                \/ DbFaulty /\ Members(w.req.room, d) = {}

RoomsOwned == \A f \in Fds : work[f].req.type = "CREATE_ROOM" => RoomOf(work[f], db)

RoomsApart ==
    \A f, g \in Fds :
        /\ f # g /\ work[f].req.type = "CREATE_ROOM" /\ work[g].req.type = "CREATE_ROOM"
        /\ work[f].req.room # Null
        => work[g].req.room # work[f].req.room

(* The number of a room a worker has is that of a row of the table.        *)
RoomsThere ==
    \A f \in Fds : work[f].req.type = "CREATE_ROOM"
        => work[f].req.room \in db.room \cup {Null}

Filled == NumberedFrom(db) /\ RoomsOwned /\ RoomsApart /\ RoomsThere

(* The tables of rooms and members that the others see are as they were.   *)
LEMMA FilledKept ==
  ASSUME Typed, Filled, NEW f \in Fds, OthersWait(f), NumberedFrom(db'),
         db.room \subseteq db'.room,
         \A r \in db.room : r # work[f].req.room \/ work[f].req.type # "CREATE_ROOM"
                            => Members(r, db') = Members(r, db),
         work'[f].req.type = "CREATE_ROOM" =>
            /\ RoomOf(work'[f], db') /\ work'[f].req.room \in db'.room \cup {Null}
            /\ \/ work[f].req.type = "CREATE_ROOM" /\ work'[f].req.room = work[f].req.room
               \/ work'[f].req.room \notin db.room
  PROVE  Filled'
<1>1. ASSUME NEW g \in Fds, g # f, work'[g].req.type = "CREATE_ROOM"
      PROVE  /\ work'[g] = work[g] /\ work[g].req.type = "CREATE_ROOM"
             /\ RoomOf(work[g], db) /\ work[g].req.room \in db.room \cup {Null}
  BY <1>1 DEF OthersWait, Filled, RoomsOwned, RoomsThere
<1>2. RoomsOwned'
  <2> SUFFICES ASSUME NEW g \in Fds, work'[g].req.type = "CREATE_ROOM"
               PROVE  RoomOf(work'[g], db')
    BY DEF RoomsOwned, RoomOf, Members
  <2>1. CASE g = f
    BY <2>1
  <2>2. CASE g # f
    <3>1. /\ work'[g] = work[g] /\ work[g].req.type = "CREATE_ROOM"
          /\ RoomOf(work[g], db) /\ work[g].req.room \in db.room \cup {Null}
      BY <1>1, <2>2
    <3>2. work[g].req.room # Null =>
             work[g].req.room # work[f].req.room \/ work[f].req.type # "CREATE_ROOM"
      BY <2>2, <3>1 DEF Filled, RoomsApart
    <3>3. work[g].req.room # Null =>
             Members(work[g].req.room, db') = Members(work[g].req.room, db)
      BY <3>1, <3>2
    <3>4. Null \notin db.room
      BY DEF Filled, NumberedFrom, Null
    <3>5. QED
      BY <3>1, <3>3, <3>4 DEF RoomOf
  <2>3. QED
    BY <2>1, <2>2
<1>3. RoomsThere'
  <2> SUFFICES ASSUME NEW g \in Fds, work'[g].req.type = "CREATE_ROOM"
               PROVE  work'[g].req.room \in db'.room \cup {Null}
    BY DEF RoomsThere
  <2>1. QED
    BY <1>1
<1>4. RoomsApart'
  <2>1. ASSUME NEW g \in Fds, g # f, work'[g].req.type = "CREATE_ROOM",
               work'[f].req.type = "CREATE_ROOM", work'[f].req.room # Null
        PROVE  work'[g].req.room # work'[f].req.room
    <3>1. /\ work'[g] = work[g] /\ work[g].req.type = "CREATE_ROOM"
          /\ work[g].req.room \in db.room \cup {Null}
      BY <1>1, <2>1
    <3>2. QED
      BY <2>1, <3>1 DEF Filled, RoomsApart
  <2> SUFFICES ASSUME NEW g \in Fds, NEW h \in Fds, g # h,
                      work'[g].req.type = "CREATE_ROOM", work'[h].req.type = "CREATE_ROOM",
                      work'[g].req.room # Null
               PROVE  work'[h].req.room # work'[g].req.room
    BY DEF RoomsApart
  <2>2. CASE g = f
    BY <2>1, <2>2
  <2>3. CASE h = f
    BY <2>1, <2>3
  <2>4. CASE g # f /\ h # f
    BY <1>1, <2>4 DEF Filled, RoomsApart
  <2>5. QED
    BY <2>2, <2>3, <2>4
<1>5. QED
  BY <1>2, <1>3, <1>4 DEF Filled

(* Of the steps that make no room. *)
LEMMA FilledSame ==
  ASSUME Typed, Filled, NEW f \in Fds, NoRoomMade(f)
  PROVE  Filled'
<1>1. /\ OthersWait(f) /\ RoomsSame(db, db') /\ work'[f].req.type # "CREATE_ROOM"
  BY DEF NoRoomMade
<1>2. NumberedFrom(db')
  BY <1>1 DEF Filled, NumberedFrom, RoomsSame
<1>3. \A r \in db.room : Members(r, db') = Members(r, db)
  BY <1>1 DEF Filled, NumberedFrom, RoomsSame
<1>4. QED
  BY <1>1, <1>2, <1>3, FilledKept DEF RoomsSame

(* A new room has a number no other room has, and no members. *)
LEMMA FilledInsertRoom ==
  ASSUME Typed, Filled, NEW f \in Fds, InsertRoom(f)
  PROVE  Filled'
<1> DEFINE c == [name |-> "insert_room"]
<1>1. work[f].pc = "insert_room" /\ work[f].req \in RoomReqs /\ work[f] \in Worker
  <2>1. work[f].pc = "insert_room" /\ work[f].req.type = "CREATE_ROOM" /\ work[f].req \in Reqs
    BY DEF InsertRoom, At, Typed, Fits, Suits, Worker
  <2>2. QED
    BY <2>1, ReqFields DEF Typed
<1>2. work[f].req.type = "CREATE_ROOM" /\ work[f].req.room = Null
  BY <1>1 DEF Filled, RoomsOwned, RoomOf, RoomReqs
<1>3. PICK o \in Outcomes(c) :
         /\ db' = o.db
         /\ IF Empty(o) THEN Reply(f, "OK")
            ELSE work' = [work EXCEPT ![f].pc = "insert_members",
                             ![f].req.room = CHOOSE n \in o.res.rows : TRUE]
  BY DEF InsertRoom
<1>4. PICK k \in Nat : db.room = 0 .. k - 1
  BY DEF Filled, NumberedFrom
<1> DEFINE e == Effect(c, db)
<1>5. /\ e.room = 0 .. k /\ e.lastRead = db.lastRead
      /\ Answer(c, e) = Result({k})
  <2>1. Cardinality(db.room) = k /\ IsFiniteSet(db.room)
    BY <1>4, FS_Interval
  <2>2. e = [db EXCEPT !.room = db.room \cup {k}]
    BY <2>1 DEF Effect, Typed, Tables, Db
  <2>3. e.room = db.room \cup {k} /\ e.lastRead = db.lastRead
    BY <2>2 DEF Typed, Tables, Db
  <2> HIDE DEF e
  <2>4. e.room = 0 .. k
    BY <1>4, <2>3
  <2>5. Cardinality(e.room) = k + 1
    BY <2>4, FS_Interval
  <2>6. Answer(c, e) = Result({Cardinality(e.room) - 1})
    BY DEF Answer
  <2>7. Cardinality(e.room) - 1 = k
    BY <2>5
  <2>8. Answer(c, e) = Result({k})
    BY <2>6, <2>7
  <2>9. QED
    BY <2>3, <2>4, <2>8
<1>6. \A r \in Nat : Members(r, e) = Members(r, db)
  BY <1>5 DEF Members
<1>7. NumberedFrom(e)
  <2>1. Rooms = Nat /\ \A r \in Rooms \ db.room : Members(r, db) = {}
    BY DEF Filled, NumberedFrom
  <2> HIDE DEF e
  <2>2. \A r \in Rooms \ e.room : Members(r, e) = {}
    BY <1>4, <1>5, <1>6, <2>1
  <2>3. e.room = 0 .. (k + 1) - 1 /\ k + 1 \in Nat
    BY <1>5
  <2>4. QED
    BY <2>1, <2>2, <2>3 DEF NumberedFrom
<1>8. /\ o.db \in {db, e}
      /\ ~ DbFaulty \/ ~ Empty(o) => o.db = e /\ o.res = Answer(c, e)
  BY DEF Outcomes, Empty, NullResult
<1>9. Empty(o) => DbFaulty
  BY <1>5, <1>8 DEF Empty, Result
<1> HIDE DEF e, c
<1>10. /\ NumberedFrom(db') /\ db.room \subseteq db'.room
       /\ \A r \in db.room : Members(r, db') = Members(r, db)
  BY <1>3, <1>4, <1>5, <1>6, <1>7, <1>8 DEF Filled
<1>11. CASE Empty(o)
  <2>1. Reply(f, "OK")
    BY <1>3, <1>11
  <2>2. Onward(f, "reply")
    BY <2>1, ReplyOnward DEF Statuses, Typed
  <2>3. work'[f].req = work[f].req /\ work'[f].pc = "reply" /\ OthersWait(f)
    BY <2>2 DEF Onward
  <2>4. RoomOf(work'[f], db')
    BY <1>2, <1>9, <1>11, <2>3 DEF RoomOf
  <2>5. QED
    BY <1>2, <1>10, <2>3, <2>4, FilledKept
<1>12. CASE ~ Empty(o)
  <2> DEFINE n == CHOOSE m \in o.res.rows : TRUE
  <2>1. n = k /\ db' = e
    BY <1>3, <1>5, <1>8, <1>12 DEF Result
  <2>2. work' = [work EXCEPT ![f].pc = "insert_members", ![f].req.room = n]
    BY <1>3, <1>12
  <2> HIDE DEF n
  <2>3. /\ work'[f].pc = "insert_members" /\ work'[f].req.room = n /\ OthersWait(f)
        /\ work'[f].req.type = "CREATE_ROOM"
    BY <1>1, <1>2, <2>2 DEF Typed, Worker, RoomReqs, OthersWait
  <2>4. k \in db'.room /\ k \notin db.room /\ k \in Nat
    BY <1>4, <1>5, <2>1
  <2>5. Members(k, db') = {}
    BY <1>6, <2>1, <2>4 DEF Filled, NumberedFrom
  <2>6. RoomOf(work'[f], db')
    BY <2>1, <2>3, <2>4, <2>5 DEF RoomOf
  <2>7. QED
    BY <1>10, <2>1, <2>3, <2>4, <2>6, FilledKept
<1>13. QED
  BY <1>11, <1>12

(* A room gets its members from one worker. *)
LEMMA FilledInsertMembers ==
  ASSUME Typed, Filled, NEW f \in Fds, InsertMembers(f)
  PROVE  Filled'
<1> DEFINE q == work[f].req
           c == [name |-> "insert_members", room |-> q.room, users |-> q.users]
<1>1. work[f].pc = "insert_members" /\ q \in RoomReqs /\ q.type = "CREATE_ROOM"
  <2>1. work[f].pc = "insert_members" /\ q.type = "CREATE_ROOM" /\ q \in Reqs
    BY DEF InsertMembers, At, Typed, Fits, Suits, Worker
  <2>2. QED
    BY <2>1, ReqFields
<1>2. q.room \in db.room /\ Members(q.room, db) = {} /\ q.users \subseteq Users
  BY <1>1 DEF Filled, RoomsOwned, RoomOf, RoomReqs
<1>3. db.room \subseteq Rooms /\ Rooms = Nat
  BY DEF Filled, NumberedFrom
<1>4. /\ Onward(f, "reply") /\ work'[f].pc = "reply" /\ work'[f].req = q /\ OthersWait(f)
  <2>1. Reply(f, "OK")
    BY DEF InsertMembers
  <2>2. Onward(f, "reply")
    BY <2>1, ReplyOnward DEF Statuses, Typed
  <2>3. QED
    BY <2>2 DEF Onward
<1> DEFINE e == Effect(c, db)
<1>5. \/ e = db /\ q.users = {}
      \/ /\ e.room = db.room /\ Members(q.room, e) = q.users
         /\ \A r \in Rooms \ {q.room} : Members(r, e) = Members(r, db)
  <2>1. e = IF Rejected("insert_members", c, db, NoVars) THEN db ELSE AddMembers(c, db)
    BY DEF Effect, Statements, Write
  <2>2. CASE Rejected("insert_members", c, db, NoVars)
    <3>1. q.users = {} \/ q.users \cap Members(q.room, db) # {}
      BY <2>2 DEF Rejected
    <3>2. QED
      BY <1>2, <2>1, <2>2, <3>1
  <2>3. CASE ~ Rejected("insert_members", c, db, NoVars)
    <3> DEFINE g == [u \in Users |-> IF u \in q.users THEN 0 ELSE db.lastRead[q.room][u]]
               h == [db.lastRead EXCEPT ![q.room] = g]
    <3>1. e = [db EXCEPT !.lastRead = h]
      BY <2>1, <2>3 DEF AddMembers, Typed, Tables, Db
    <3>2. h[q.room] = g /\ \A r \in Rooms \ {q.room} : h[r] = db.lastRead[r]
      BY <1>2, <1>3 DEF Typed, Tables, Db
    <3>3. \A u \in Users : g[u] # NoMember <=> u \in q.users
      BY <1>2 DEF Members, NoMember
    <3> HIDE DEF g, h
    <3>4. e.room = db.room /\ e.lastRead = h
      BY <3>1 DEF Typed, Tables, Db
    <3> HIDE DEF e
    <3>5. Members(q.room, e) = q.users
      BY <1>2, <3>2, <3>3, <3>4 DEF Members
    <3>6. \A r \in Rooms \ {q.room} : Members(r, e) = Members(r, db)
      BY <3>2, <3>4 DEF Members
    <3>7. QED
      BY <3>4, <3>5, <3>6
  <2>4. QED
    BY <2>2, <2>3
<1>6. \/ UNCHANGED db /\ (q.twice \/ DbFaulty)
      \/ db' = e
  BY DEF InsertMembers, Outcomes
<1> HIDE DEF e, c
<1>7. /\ db'.room = db.room /\ \A r \in Rooms \ {q.room} : Members(r, db') = Members(r, db)
      /\ \/ q.twice
         \/ Members(q.room, db') = q.users
         \/ DbFaulty /\ Members(q.room, db') = {}
  BY <1>2, <1>5, <1>6
<1>8. NumberedFrom(db')
  BY <1>2, <1>7 DEF Filled, NumberedFrom
<1>9. RoomOf(work'[f], db')
  BY <1>2, <1>4, <1>7 DEF RoomOf
<1>10. \A r \in db.room : r # q.room => Members(r, db') = Members(r, db)
  BY <1>3, <1>7
<1>11. QED
  BY <1>1, <1>2, <1>4, <1>7, <1>8, <1>9, <1>10, FilledKept

(* A request for a room names none yet. *)
LEMMA FilledReceive ==
  ASSUME Typed, Filled, NEW f \in Fds, Receive(f)
  PROVE  Filled'
<1>1. PICK b \in Ends(f) : \E q \in Requests(b, f) :
          work' = [work EXCEPT ![f] =
               IF q.type \in NeedsSession /\ FindByFd(f) = 0
               THEN [Idle EXCEPT !.pc = "reply", !.req = q,
                                 !.answer = "Session_Not_Found"]
               ELSE [Idle EXCEPT !.pc = FirstStep[q.type], !.req = q,
                                 !.ss = FindByFd(f)]]
  BY Zenon DEF Receive
<1>2. PICK q \in Requests(b, f) :
          work' = [work EXCEPT ![f] =
               IF q.type \in NeedsSession /\ FindByFd(f) = 0
               THEN [Idle EXCEPT !.pc = "reply", !.req = q,
                                 !.answer = "Session_Not_Found"]
               ELSE [Idle EXCEPT !.pc = FirstStep[q.type], !.req = q,
                                 !.ss = FindByFd(f)]]
  BY <1>1, Zenon
<1>3. b \in Clients
  BY DEF Ends
<1>4. UNCHANGED db /\ OthersWait(f) /\ work[f].req.type = "none"
  BY ReceiveTakes DEF At, Typed, Fits, Suits
<1>5. work'[f].req = q
  BY <1>2 DEF Typed, Idle
<1>6. CASE q.type # "CREATE_ROOM"
  BY <1>4, <1>5, <1>6, FilledSame DEF NoRoomMade, RoomsSame
<1>7. CASE q.type = "CREATE_ROOM"
  <2>1. q \in NewRooms
    <3>1. f # client[b].sse
      BY <1>3, <1>7, RequestSide
    <3>2. client[b].user # NoUser
      BY <1>7, <3>1 DEF Requests, LoginPage
    <3>3. q \in ServicePage(client[b].user)
      BY <3>1, <3>2 DEF Requests
    <3>4. \A r : q \in RoomPage(r) => q.type # "CREATE_ROOM"
      BY DEF RoomPage
    <3>5. q \notin [type : {"UPDATE_ROOM_LIST", "Search_User"}]
      BY <1>7
    <3>6. QED
      BY <1>7, <3>3, <3>4, <3>5, PageParts
  <2>2. FirstStep[q.type] = "insert_room" /\ q.type \notin NeedsSession
    BY <1>7 DEF FirstStep, NeedsSession
  <2>3. work'[f].pc = "insert_room"
    BY <1>2, <2>2 DEF Typed, Idle
  <2>4. q.room = Null
    BY <2>1 DEF NewRooms
  <2>5. Null \notin db.room
    BY DEF Filled, NumberedFrom, Null
  <2>6. RoomOf(work'[f], db')
    BY <1>5, <2>3, <2>4 DEF RoomOf
  <2>7. QED
    BY <1>4, <1>5, <2>4, <2>5, <2>6, FilledKept DEF Filled
<1>8. QED
  BY <1>6, <1>7

LEMMA FilledStep == Typed /\ Filled /\ [Next]_vars => Filled'
<1> SUFFICES ASSUME Typed, Filled, [Next]_vars PROVE Filled'
  OBVIOUS
<1>1. Idle.req.type # "CREATE_ROOM" /\ Closed.req.type # "CREATE_ROOM"
  BY DEF Closed, Idle, NoReq
<1>2. ASSUME UNCHANGED <<db, work>> PROVE Filled'
  BY <1>2 DEF Filled, NumberedFrom, RoomsOwned, RoomsApart, RoomsThere, RoomOf, Members
<1>3. CASE UNCHANGED vars \/ Boot \/ \E c \in Clients : Leave(c)
  BY <1>2, <1>3 DEF vars, Boot, Leave
<1>4. ASSUME NEW c \in Clients, Accept(c) PROVE Filled'
  <2>1. PICK g \in Fds : work'[g] = Idle /\ OthersWait(g) /\ UNCHANGED db
    BY <1>4, AcceptTakes
  <2>2. QED
    BY <1>1, <2>1, FilledSame DEF NoRoomMade, RoomsSame
<1>5. CASE GoesDown
  <2>1. UNCHANGED db /\ \A f \in Fds : work'[f] = Closed
    BY <1>5 DEF GoesDown, Crash
  <2>2. QED
    BY <1>1, <2>1 DEF Filled, NumberedFrom, RoomsOwned, RoomsApart, RoomsThere, Members
<1>6. ASSUME NEW f \in Fds, Work(f) PROVE Filled'
  BY <1>5, <1>6, OthersMakeNoRoom, FilledSame, FilledInsertRoom, FilledInsertMembers
<1>7. QED
  BY <1>3, <1>4, <1>6, FilledReceive, Zenon DEF Next

(* However many rooms are created at once: when a creation is answered,    *)
(* its room has the members that were asked for, and nobody else, or none  *)
(* after a call that failed.                                               *)
THEOREM RoomsFilled == NumberedFrom(InitDb) => (Spec => []RoomFilled)
<1> SUFFICES ASSUME NumberedFrom(InitDb) PROVE Spec => []RoomFilled
  OBVIOUS
<1>1. Init => Filled
  <2> SUFFICES ASSUME Init PROVE Filled
    OBVIOUS
  <2>1. db = InitDb /\ \A f \in Fds : work[f] = Closed
    BY DEF Init
  <2>2. Closed.req.type # "CREATE_ROOM"
    BY DEF Closed, Idle, NoReq
  <2>3. QED
    BY <2>1, <2>2 DEF Filled, RoomsOwned, RoomsApart, RoomsThere
<1>2. Typed /\ Filled => RoomFilled
  <2> SUFFICES ASSUME Typed, Filled, NEW f \in Fds,
                      At(f, "reply"), work[f].req.type = "CREATE_ROOM", ~ work[f].req.twice
               PROVE  LET q == work[f].req IN
                      \/ q.room \in Rooms /\ Members(q.room, db) = q.users
                      \/ DbFaulty /\ (q.room \in Rooms => Members(q.room, db) = {})
    BY DEF RoomFilled
  <2>1. RoomOf(work[f], db) /\ work[f].pc = "reply"
    BY DEF At, Filled, RoomsOwned
  <2>2. db.room \subseteq Rooms /\ Null \notin Rooms
    BY DEF Filled, NumberedFrom, Null
  <2>3. QED
    BY <2>1, <2>2 DEF RoomOf
<1>3. QED
  BY <1>1, <1>2, TypedInit, TypedStep, FilledStep, PTL DEF Spec
=============================================================================
