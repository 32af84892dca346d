-------------------------- MODULE ChatPush_proofs ---------------------------
(***************************************************************************)
(* Pushes of the chat server, and whom they reach: for any clients, users, *)
(* rooms and descriptors, whatever calls fail and whoever leaves, as long  *)
(* as no client sends Search_User, which frees the ids the sessions are    *)
(* found by.  At the end: when the server cannot go down.                  *)
(***************************************************************************)
EXTENDS ChatServer_proofs

NoSearch == "Search_User" \notin Types

-----------------------------------------------------------------------------
(* What the proofs are by.                                                 *)

(* No descriptor was used for a search: no id was freed.                   *)
Unfreed ==
    /\ \A f \in Fds : work[f].req.type # "Search_User"
    /\ \A i \in DOMAIN sessions : sessions[i].id \in Users

(* A client logs in once, and registers as the user it has.                *)
OneUser ==
    \A c \in Clients, f \in Fds :
        /\ f = client[c].rpc /\ work[f].req.type = "LOGIN" => client[c].user = NoUser
        /\ f = client[c].sse /\ work[f].req.type = "SSE_CONNECT"
           => client[c].ear = "wait" /\ client[c].user = work[f].req.user

(* Where a session sends its pushes to: to the push connection of its user,*)
(* unless the descriptor was closed since.                                 *)
Aimed ==
    /\ recycled \subseteq Fds
    /\ \A i \in DOMAIN sessions, g \in Fds :
          /\ sessions[i].sse = g /\ At(g, "closed") => g \in recycled
          /\ sessions[i].sse = g /\ Fresh(g) => \A c \in Clients :
                /\ client[c].rpc # g
                /\ client[c].sse = g => client[c].user = sessions[i].id

(* A push loop has members of its room before it. *)
ToMembers ==
    \A f \in Fds : At(f, "push") => work[f].rows \subseteq Members(work[f].req.room, db)

Told == PushReachesMember /\ \A h \in heard : h[1] \in Clients /\ h[2] \in Rooms

Directed == Unfreed /\ OneUser /\ Aimed /\ ToMembers /\ Told

-----------------------------------------------------------------------------
(* Steps, with what they do to the history.                                *)

(* The steps of the handlers leave it alone which descriptors were closed  *)
(* and who registered last; only pushes are heard, only changes of a room  *)
(* are missed, and a push loop starts with the members.                    *)
Quiet(f) ==
    /\ UNCHANGED <<recycled, latest>>
    /\ UNCHANGED heard \/ \E u \in Users : Push(f, u)
    /\ work'[f].pc = "push" =>
          /\ work'[f].req = work[f].req /\ work'[f].req.type \in Posts
          /\ \/ At(f, "push") /\ work'[f].rows \subseteq work[f].rows
             \/ At(f, "get_members") /\ work'[f].rows = Members(work[f].req.room, db)
    /\ UNCHANGED <<missed, cut>> \/ Post(f) \/ \E u \in Users : Push(f, u)
    /\ At(f, "get_members") => work'[f].pc = "push"
    /\ At(f, "push") => work[f].rows = {} \/ \E u \in Users : Push(f, u)

LEMMA GetMembersQuiet ==
  ASSUME Typed, NEW f \in Fds, GetMembers(f)
  PROVE  GoesDown \/ Quiet(f)
<1> DEFINE c == [name |-> "get_members", room |-> work[f].req.room]
<1>1. At(f, "get_members") /\ work[f].req.type \in Posts /\ work[f] \in Worker
  BY DEF GetMembers, At, Typed, Fits, Suits, Posts
<1>2. PICK o \in Outcomes(c) :
         IF Empty(o) THEN Crash
         ELSE /\ work' = [work EXCEPT ![f].pc = "push",
                                      ![f].rows = {m.owner : m \in o.res.rows}]
              /\ UNCHANGED <<up, sessions, client, started, history>>
  BY DEF GetMembers
<1>3. CASE Empty(o)
  BY <1>2, <1>3 DEF GoesDown, GetMembers
<1>4. CASE ~ Empty(o)
  <2>1. {m.owner : m \in o.res.rows} = Members(c.room, db)
    <3> DEFINE last == [NoVars EXCEPT !["max_chat_id"] =
                          IF RoomChats(c.room, db) = {} THEN 0
                          ELSE Cardinality(RoomChats(c.room, db)) - 1]
    <3>1. Answer(c, db) = Result({MemberItem(c.room, u, db, last) : u \in Members(c.room, db)})
      BY DEF Answer
    <3>2. Effect(c, db) = db
      BY DEF Effect
    <3>3. o.res = Answer(c, db)
      BY <1>4, <3>2 DEF Outcomes, Empty, NullResult
    <3> HIDE DEF last
    <3>4. o.res.rows = {MemberItem(c.room, u, db, last) : u \in Members(c.room, db)}
      BY <3>1, <3>3 DEF Result
    <3>5. \A u : MemberItem(c.room, u, db, last).owner = u
      BY DEF MemberItem
    <3>6. QED
      BY <3>4, <3>5
  <2> DEFINE R == {m.owner : m \in o.res.rows}
  <2>2. work' = [work EXCEPT ![f].pc = "push", ![f].rows = R] /\ UNCHANGED history
    BY <1>2, <1>4
  <2>3. R = Members(work[f].req.room, db)
    BY <2>1
  <2> HIDE DEF R
  <2>4. work'[f].req = work[f].req /\ work'[f].rows = R /\ work'[f].pc = "push"
    BY <1>1, <2>2 DEF Typed, Worker
  <2>5. ~ At(f, "push")
    BY <1>1 DEF At
  <2>6. QED
    BY <1>1, <2>2, <2>3, <2>4, <2>5 DEF Quiet, history
<1>5. QED
  BY <1>3, <1>4

LEMMA PushQuiet ==
  ASSUME Typed, NEW f \in Fds, NEW u \in Users, Push(f, u)
  PROVE  Quiet(f)
<1>1. /\ At(f, "push") /\ work[f].req.type \in Posts /\ work[f] \in Worker
      /\ UNCHANGED <<recycled, latest>> /\ ~ At(f, "get_members")
  BY DEF Push, At, Typed, Fits, Suits
<1>2. CASE work' = [work EXCEPT ![f].rows = @ \ {u}]
  <2>1. work'[f].req = work[f].req /\ work'[f].rows = work[f].rows \ {u}
    BY <1>1, <1>2 DEF Typed, Worker
  <2>2. QED
    BY <1>1, <2>1 DEF Quiet
<1>3. CASE Finish(f) \/ Reply(f, "ERROR")
  <2>1. work'[f].pc # "push"
    BY <1>3, FinishIdle, ReplyOnward DEF Typed, Idle, Onward, Statuses
  <2>2. QED
    BY <1>1, <2>1 DEF Quiet
<1>4. QED
  BY <1>2, <1>3 DEF Push

(* The other steps of the handlers. *)
LEMMA OthersQuiet ==
  ASSUME Typed, NEW f \in Fds,
         \/ FindUser(f) \/ InsertUser(f) \/ MatchUser(f) \/ CountToken(f) \/ WriteToken(f)
         \/ FindReact(f) \/ Post(f) \/ PushDone(f) \/ InsertRoom(f) \/ InsertMembers(f)
         \/ List(f)
  PROVE  Quiet(f)
<1>1. /\ UNCHANGED <<recycled, latest, heard>>
      /\ UNCHANGED <<missed, cut>> \/ Post(f)
  BY Zenon DEF FindUser, InsertUser, MatchUser, CountToken, WriteToken, FindReact, Post,
     PushDone, InsertRoom, InsertMembers, List, history
<1>0. ~ At(f, "get_members") /\ (At(f, "push") => work[f].rows = {})
  BY DEF FindUser, InsertUser, MatchUser, CountToken, WriteToken, FindReact, Post,
     PushDone, InsertRoom, InsertMembers, List, At
<1>2. ASSUME NEW p \in Steps \ {"push"}, Goto(f, p) PROVE work'[f].pc # "push"
  BY <1>2, GotoOnward DEF Typed, Onward
<1>3. ASSUME NEW s \in Statuses, Reply(f, s) PROVE work'[f].pc # "push"
  BY <1>3, ReplyOnward DEF Typed, Onward
<1>q. work'[f].pc # "push" => Quiet(f)
  BY <1>0, <1>1 DEF Quiet
<1>4. CASE FindUser(f) \/ MatchUser(f)
  BY <1>q, <1>2, <1>3, <1>4 DEF FindUser, MatchUser, Steps, Statuses
<1>5. CASE CountToken(f)
  <2>1. \/ Reply(f, "NoToken") \/ Goto(f, "insert_token") \/ Goto(f, "update_token")
    BY <1>5 DEF CountToken
  <2>2. QED
    BY <1>q, <1>2, <1>3, <2>1 DEF Steps, Statuses
<1>6. CASE WriteToken(f)
  BY <1>q, <1>2, <1>6 DEF WriteToken, Steps
<1>7. CASE FindReact(f)
  <2>1. \/ Goto(f, "get_members") \/ Goto(f, "insert_react") \/ Goto(f, "update_react")
    BY <1>7 DEF FindReact
  <2>2. QED
    BY <1>q, <1>2, <2>1 DEF Steps
<1>8. CASE Post(f)
  BY <1>q, <1>2, <1>8 DEF Post, Steps
<1>9. CASE PushDone(f)
  BY <1>q, <1>9, FinishIdle DEF PushDone, Typed, Idle
<1>10. CASE InsertUser(f) \/ InsertMembers(f) \/ List(f)
  BY <1>q, <1>3, <1>10 DEF InsertUser, InsertMembers, List, Statuses
<1>11. CASE InsertRoom(f)
  <2>1. work[f] \in Worker
    BY DEF Typed
  <2>2. ASSUME NEW n, work' = [work EXCEPT ![f].pc = "insert_members", ![f].req.room = n]
        PROVE  work'[f].pc # "push"
    BY <2>1, <2>2 DEF Typed, Worker
  <2>3. QED
    BY <1>q, <1>3, <1>11, <2>2 DEF InsertRoom, Statuses
<1>12. QED
  BY <1>4, <1>5, <1>6, <1>7, <1>8, <1>9, <1>10, <1>11

(* Every step is one of these, when nobody searches. *)
LEMMA PushCases ==
  ASSUME Typed, Next, \A f \in Fds : work[f].req.type # "Search_User"
  PROVE  \/ Boot \/ GoesDown
         \/ \E c \in Clients : Accept(c) \/ Leave(c)
         \/ \E f \in Fds : \/ Receive(f) \/ Close(f) \/ SendReply(f)
                           \/ AddSession(f) \/ Register(f)
                           \/ Advances(f) /\ Quiet(f)
<1>1. ASSUME NEW f \in Fds, Work(f)
      PROVE  \/ GoesDown
             \/ Close(f) \/ SendReply(f)
             \/ AddSession(f) \/ Register(f)
             \/ Advances(f) /\ Quiet(f)
  <2>1. CASE BrokenPipe(f)
    BY <2>1 DEF BrokenPipe, GoesDown
  <2>2. CASE SearchUser(f) \/ FreeId(f)
    BY <2>2 DEF SearchUser, FreeId, At, Typed, Fits, Suits
  <2>3. CASE FindUser(f) \/ InsertUser(f) \/ MatchUser(f) \/ CountToken(f) \/ WriteToken(f)
    BY <2>3, OthersQuiet, FindUserAdvances, InsertUserAdvances, MatchUserAdvances,
       CountTokenAdvances, WriteTokenAdvances
  <2>4. CASE FindReact(f) \/ Post(f) \/ PushDone(f)
    BY <2>4, OthersQuiet, FindReactAdvances, PostAdvances, PushDoneAdvances
  <2>5. CASE GetMembers(f) \/ \E u \in Users : Push(f, u)
    BY <2>5, GetMembersQuiet, GetMembersAdvances, PushQuiet, PushAdvances
  <2>6. CASE InsertRoom(f) \/ InsertMembers(f) \/ List(f)
    BY <2>6, OthersQuiet, InsertRoomAdvances, InsertMembersAdvances, ListAdvances
  <2>7. CASE Close(f) \/ SendReply(f) \/ AddSession(f) \/ Register(f)
    BY <2>7
  <2>8. QED
    BY <1>1, <2>1, <2>2, <2>3, <2>4, <2>5, <2>6, <2>7, Zenon DEF Work
<1>2. QED
  BY <1>1, Zenon DEF Next

-----------------------------------------------------------------------------
(* Clients.                                                                *)

(* What a request says about the client that sent it. *)
LEMMA RequestSays ==
  ASSUME Typed, NEW c \in Clients, NEW f, NEW q \in Requests(c, f)
  PROVE  /\ q.type \in Types
         /\ q.type = "LOGIN" => client[c].user = NoUser
         /\ q.type = "SSE_CONNECT" => client[c].ear = "start" /\ q.user = client[c].user
<1>1. q.type \in Types
  BY DEF Requests
<1>2. CASE f = client[c].sse
  BY <1>2 DEF Requests
<1>3. CASE f # client[c].sse /\ client[c].user = NoUser
  BY <1>1, <1>3, RequestSide
<1>4. CASE f # client[c].sse /\ client[c].user # NoUser
  <2>1. q \in ServicePage(client[c].user)
    BY <1>4 DEF Requests
  <2>2. \A r : q \in RoomPage(r) => q.type # "LOGIN"
    BY DEF RoomPage
  <2>3. q \in NewRooms \/ q \in [type : {"UPDATE_ROOM_LIST", "Search_User"}] => q.type # "LOGIN"
    BY DEF NewRooms
  <2>4. q.type # "LOGIN"
    BY <2>1, <2>2, <2>3, PageParts
  <2>5. QED
    BY <1>1, <1>4, <2>4, RequestSide
<1>5. QED
  BY <1>1, <1>2, <1>3, <1>4

(* What a request changes at client b. *)
LEMMA ReceiveAt ==
  ASSUME Typed, Connected, NEW f \in Fds, Receive(f), NEW b \in Clients
  PROVE  /\ client'[b].rpc = client[b].rpc /\ client'[b].sse = client[b].sse
         /\ client'[b].user = client[b].user
         /\ \/ client'[b].ear = client[b].ear
            \/ f = client[b].sse /\ client[b].ear = "start" /\ client'[b].ear = "wait"
         /\ f = client[b].rpc /\ work'[f].req.type = "LOGIN" => client[b].user = NoUser
         /\ f = client[b].sse /\ work'[f].req.type = "SSE_CONNECT"
            => client'[b].ear = "wait" /\ client[b].user = work'[f].req.user
         /\ work'[f].req.type \in Types /\ work'[f].answer # "OK"
<1>1. PICK c \in Ends(f) : \E q \in Requests(c, f) :
              /\ work'[f].req = q /\ q \in Reqs /\ q.type # "none" /\ Fits(work'[f])
              /\ work'[f].pc \notin LoginSteps \cup {"closed", "recv"}
              /\ work'[f].ss \in {0, FindByFd(f)} /\ work'[f].answer # "OK"
              /\ client' = IF q.type = "SSE_CONNECT"
                           THEN [client EXCEPT ![c].ear = "wait"] ELSE client
  BY ReceiveTakes
<1>2. PICK q \in Requests(c, f) :
              /\ work'[f].req = q /\ work'[f].answer # "OK"
              /\ client' = IF q.type = "SSE_CONNECT"
                           THEN [client EXCEPT ![c].ear = "wait"] ELSE client
  BY <1>1
<1>3. c \in Clients /\ f \in {client[c].rpc, client[c].sse} /\ f # NoFd
  BY FdsAssumption DEF Ends, NoFd
<1>4. /\ q.type \in Types
      /\ q.type = "LOGIN" => client[c].user = NoUser
      /\ q.type = "SSE_CONNECT" => client[c].ear = "start" /\ q.user = client[c].user
      /\ (q.type = "SSE_CONNECT") <=> (f = client[c].sse)
  BY <1>3, RequestSays, RequestSide
<1>5. client[b] \in ClientRec /\ client[c] \in ClientRec
  BY <1>3 DEF Typed
<1>6. f \in {client[b].rpc, client[b].sse} => b = c
  BY <1>3 DEF Connected, EndsApart
<1>7. CASE q.type = "SSE_CONNECT"
  <2>1. client' = [client EXCEPT ![c].ear = "wait"]
    BY <1>2, <1>7
  <2>2. CASE b = c
    <3>1. /\ client'[b].rpc = client[b].rpc /\ client'[b].sse = client[b].sse
          /\ client'[b].user = client[b].user /\ client'[b].ear = "wait"
      BY <1>5, <2>1, <2>2 DEF ClientRec, Typed
    <3>2. QED
      BY <1>2, <1>4, <1>7, <2>2, <3>1
  <2>3. CASE b # c
    <3>1. client'[b] = client[b]
      BY <2>1, <2>3 DEF Typed
    <3>2. QED
      BY <1>2, <1>4, <1>6, <2>3, <3>1
  <2>4. QED
    BY <2>2, <2>3
<1>8. CASE q.type # "SSE_CONNECT"
  BY <1>2, <1>4, <1>6, <1>8
<1>9. QED
  BY <1>7, <1>8

(* What an answer changes at client b. *)
LEMMA AnswerAt ==
  ASSUME Typed, Connected, OneUser, NEW f \in Fds, SendReply(f), NEW b \in Clients
  PROVE  /\ client'[b].rpc = client[b].rpc /\ client'[b].sse = client[b].sse
         /\ \/ client'[b].user = client[b].user /\ client'[b].ear = client[b].ear
            \/ f = client[b].rpc /\ client[b].user = NoUser /\ client'[b].ear = "start"
            \/ /\ f = client[b].sse /\ client'[b].user = client[b].user
               /\ client[b].ear = "wait"
               /\ work[f].req.type = "SSE_CONNECT" /\ work[f].answer = "OK"
<1>1. client[b] \in ClientRec
  BY DEF Typed
<1>2. CASE client' = client
  BY <1>2
<1>3. ASSUME NEW c \in Ends(f), work[f].req.type = "LOGIN", client' = LoginAnswered(c, f)
      PROVE  /\ client'[b].rpc = client[b].rpc /\ client'[b].sse = client[b].sse
             /\ \/ client'[b].user = client[b].user /\ client'[b].ear = client[b].ear
                \/ f = client[b].rpc /\ client[b].user = NoUser /\ client'[b].ear = "start"
  <2>1. CASE b # c
    BY <1>3, <2>1 DEF LoginAnswered, Typed
  <2>2. CASE b = c
    <3>1. f = client[c].rpc /\ client[c].user = NoUser
      BY <1>3 DEF Ends, Connected, Sides, OneUser
    <3>2. /\ client'[b].rpc = client[b].rpc /\ client'[b].sse = client[b].sse
          /\ client'[b].ear = "start"
      BY <1>1, <1>3, <2>2 DEF LoginAnswered, Typed, ClientRec
    <3>3. QED
      BY <2>2, <3>1, <3>2
  <2>3. QED
    BY <2>1, <2>2
<1>4. ASSUME NEW c \in Ends(f), work[f].req.type = "SSE_CONNECT", client' = SseAnswered(c)
      PROVE  /\ client'[b].rpc = client[b].rpc /\ client'[b].sse = client[b].sse
             /\ client'[b].user = client[b].user
             /\ \/ client'[b].ear = client[b].ear
                \/ f = client[b].sse /\ client[b].ear = "wait"
  <2>1. CASE b # c
    BY <1>4, <2>1 DEF SseAnswered, Typed
  <2>2. CASE b = c
    <3>1. f = client[c].sse /\ client[c].ear = "wait"
      BY <1>4 DEF Ends, Connected, Sides, OneUser
    <3>2. /\ client'[b].rpc = client[b].rpc /\ client'[b].sse = client[b].sse
          /\ client'[b].user = client[b].user
      BY <1>1, <1>4, <2>2 DEF SseAnswered, Typed, ClientRec
    <3>3. QED
      BY <2>2, <3>1, <3>2
  <2>3. QED
    BY <2>1, <2>2
<1>5. QED
  BY <1>2, <1>3, <1>4, AnswerTakes

(* Opening a connection changes nothing but its descriptor. *)
LEMMA AcceptAt ==
  ASSUME Typed, Connected, NEW c \in Clients, Accept(c)
  PROVE  \E g \in Fds :
            /\ At(g, "closed") /\ work'[g] = Idle /\ OthersWait(g)
            /\ UNCHANGED <<up, db, sessions, history>>
            /\ \A b \in Clients : g \notin {client[b].rpc, client[b].sse}
            /\ \A b \in Clients :
                  /\ client'[b].user = client[b].user /\ client'[b].ear = client[b].ear
                  /\ client'[b].rpc = client[b].rpc
                     \/ (client[b].rpc = NoFd /\ client'[b].rpc = g)
                  /\ client'[b].sse = client[b].sse
                     \/ (client[b].sse = NoFd /\ client'[b].sse = g)
<1>1. PICK g \in Fds :
            /\ At(g, "closed") /\ work'[g] = Idle /\ OthersWait(g)
            /\ UNCHANGED <<up, db, sessions, history>>
            /\ \/ client[c].rpc = NoFd /\ client' = [client EXCEPT ![c].rpc = g]
               \/ /\ client[c].rpc # NoFd /\ client[c].sse = NoFd
                  /\ client' = [client EXCEPT ![c].sse = g]
  BY AcceptTakes
<1>2. \A b \in Clients : client[b] \in ClientRec
  BY DEF Typed
<1>3. g # NoFd
  BY FdsAssumption DEF NoFd
<1>4. \A b \in Clients : g \notin {client[b].rpc, client[b].sse}
  BY <1>1, <1>3 DEF Connected, EndsOpen
<1>5. \A b \in Clients :
         /\ client'[b].user = client[b].user /\ client'[b].ear = client[b].ear
         /\ client'[b].rpc = client[b].rpc
            \/ (client[b].rpc = NoFd /\ client'[b].rpc = g)
         /\ client'[b].sse = client[b].sse
            \/ (client[b].sse = NoFd /\ client'[b].sse = g)
  BY <1>1, <1>2 DEF ClientRec, Typed
<1>6. QED
  BY <1>1, <1>4, <1>5

-----------------------------------------------------------------------------
(* Directed is kept, part by part.                                         *)

(* Worker f is not searching, and ids of sessions are users. *)
LEMMA UnfreedStep ==
  ASSUME NoSearch, Typed, Connected, Unfreed, Next
  PROVE  Unfreed'
<1>0. sessions \in Seq(SessionRec)
  BY DEF Typed
<1>1. ASSUME NEW f \in Fds, OthersWait(f), work'[f].req.type # "Search_User",
             \A i \in DOMAIN sessions' : sessions'[i].id \in Users
      PROVE  Unfreed'
  BY <1>1 DEF Unfreed, OthersWait
<1>2. Idle.req.type = "none" /\ Closed.req.type = "none"
  BY DEF Closed, Idle, NoReq
<1>3. CASE Boot
  BY <1>3 DEF Boot, Unfreed
<1>4. CASE GoesDown
  BY <1>2, <1>4 DEF GoesDown, Crash, Unfreed
<1>5. ASSUME NEW c \in Clients, Accept(c) PROVE Unfreed'
  <2>1. PICK g \in Fds : work'[g] = Idle /\ OthersWait(g) /\ sessions' = sessions
    BY <1>5, AcceptTakes
  <2>2. QED
    BY <1>1, <1>2, <2>1 DEF Unfreed
<1>6. ASSUME NEW c \in Clients, Leave(c) PROVE Unfreed'
  BY <1>6 DEF Leave, Unfreed
<1>7. ASSUME NEW f \in Fds, Receive(f) PROVE Unfreed'
  <2>1. work'[f].req.type \in Types
    <3>1. PICK b \in Clients : TRUE
      BY <1>7, ReceiveTakes DEF Ends
    <3>2. QED
      BY <1>7, <3>1, ReceiveAt
  <2>2. QED
    BY <1>1, <1>7, <2>1, ReceiveTakes DEF Unfreed, NoSearch
<1>8. ASSUME NEW f \in Fds, Close(f) PROVE Unfreed'
  BY <1>2, <1>8 DEF Close, Unfreed, Typed
<1>9. ASSUME NEW f \in Fds, SendReply(f) PROVE Unfreed'
  BY <1>1, <1>2, <1>9, AnswerTakes DEF Unfreed
<1>10. ASSUME NEW f \in Fds, AddSession(f) PROVE Unfreed'
  <2> DEFINE s == [id |-> work[f].req.user, fd |-> f, sse |-> NoFd]
  <2>1. /\ Onward(f, "reply") /\ work[f].req.type = "LOGIN"
        /\ sessions' = Append(sessions, s) /\ work[f].req.user \in Users
    BY <1>10, AddSessionTakes
  <2>2. s.id \in Users
    BY <2>1
  <2> HIDE DEF s
  <2>3. \A i \in DOMAIN sessions' : sessions'[i] = s \/ (i \in DOMAIN sessions /\ sessions'[i] = sessions[i])
    BY <1>0, <2>1
  <2>4. \A i \in DOMAIN sessions' : sessions'[i].id \in Users
    BY <2>2, <2>3 DEF Unfreed
  <2>5. QED
    BY <1>1, <2>1, <2>4 DEF Onward
<1>11. ASSUME NEW f \in Fds, Register(f) PROVE Unfreed'
  <2>1. work'[f].req.type # "Search_User" /\ OthersWait(f)
    BY <1>2, <1>11, RegisterTakes, FinishIdle DEF Onward, Typed
  <2>2. /\ DOMAIN sessions' = DOMAIN sessions
        /\ \A i \in DOMAIN sessions : sessions'[i].id = sessions[i].id
    BY <1>0, <1>11, RegisterTakes, SseSet
  <2>3. QED
    BY <1>1, <2>1, <2>2 DEF Unfreed
<1>12. ASSUME NEW f \in Fds, Advances(f) PROVE Unfreed'
  <2>1. work'[f].req.type # "Search_User"
    BY <1>2, <1>12 DEF Advances, SameRequest, Unfreed, RoomReqs
  <2>2. QED
    BY <1>1, <1>12, <2>1 DEF Advances, Unfreed
<1>13. QED
  BY <1>3, <1>4, <1>5, <1>6, <1>7, <1>8, <1>9, <1>10, <1>11, <1>12, PushCases DEF Unfreed

(* Each connection of a client speaks for the user the client has. *)
LEMMA OneUserStep ==
  ASSUME Typed, Connected, Unfreed, OneUser, Next
  PROVE  OneUser'
<1>1. ASSUME NEW f \in Fds, OthersWait(f),
             work'[f].req.type \in {"none", work[f].req.type},
             work'[f].req.type \in {"LOGIN", "SSE_CONNECT"} => work'[f].req = work[f].req,
             \A b \in Clients : /\ client'[b].rpc = client[b].rpc
                                /\ client'[b].sse = client[b].sse
                                /\ client'[b].user = client[b].user
                                /\ client'[b].ear = client[b].ear
      PROVE  OneUser'
  BY <1>1 DEF OneUser, OthersWait
<1>2. Idle.req.type = "none" /\ Closed.req.type = "none"
  BY DEF Closed, Idle, NoReq
<1>3. CASE Boot
  BY <1>3 DEF Boot, OneUser
<1>4. CASE GoesDown
  BY <1>2, <1>4 DEF GoesDown, Crash, OneUser
<1>5. ASSUME NEW c \in Clients, Accept(c) PROVE OneUser'
  <2>1. PICK g \in Fds :
            /\ At(g, "closed") /\ work'[g] = Idle /\ OthersWait(g)
            /\ \A b \in Clients :
                  /\ client'[b].user = client[b].user /\ client'[b].ear = client[b].ear
                  /\ client'[b].rpc = client[b].rpc
                     \/ (client[b].rpc = NoFd /\ client'[b].rpc = g)
                  /\ client'[b].sse = client[b].sse
                     \/ (client[b].sse = NoFd /\ client'[b].sse = g)
    BY <1>5, AcceptAt
  <2>2. \A f \in Fds : f = g \/ work'[f] = work[f]
    BY <2>1 DEF OthersWait
  <2>3. QED
    BY <1>2, <2>1, <2>2 DEF OneUser
<1>6. ASSUME NEW c \in Clients, Leave(c) PROVE OneUser'
  <2>1. /\ work' = work /\ client'[c] = Off
        /\ \A b \in Clients \ {c} : client'[b] = client[b]
    BY <1>6 DEF Leave, Typed
  <2>2. Off.rpc = NoFd /\ Off.sse = NoFd /\ NoFd \notin Fds
    BY FdsAssumption DEF Off, NoFd
  <2>3. QED
    BY <2>1, <2>2 DEF OneUser
<1>7. ASSUME NEW f \in Fds, Receive(f) PROVE OneUser'
  <2>1. OthersWait(f)
    BY <1>7, ReceiveTakes
  <2> SUFFICES ASSUME NEW b \in Clients, NEW g \in Fds
               PROVE  /\ g = client'[b].rpc /\ work'[g].req.type = "LOGIN"
                         => client'[b].user = NoUser
                      /\ g = client'[b].sse /\ work'[g].req.type = "SSE_CONNECT"
                         => client'[b].ear = "wait" /\ client'[b].user = work'[g].req.user
    BY DEF OneUser
  <2>2. CASE g = f
    BY <1>7, <2>2, ReceiveAt
  <2>3. CASE g # f
    <3>1. work'[g] = work[g]
      BY <2>1, <2>3 DEF OthersWait
    <3>2. /\ client'[b].rpc = client[b].rpc /\ client'[b].sse = client[b].sse
          /\ client'[b].user = client[b].user
          /\ client'[b].ear = client[b].ear \/ f = client[b].sse
      BY <1>7, ReceiveAt
    <3>3. QED
      BY <2>3, <3>1, <3>2 DEF OneUser
  <2>4. QED
    BY <2>2, <2>3
<1>8. ASSUME NEW f \in Fds, Close(f) PROVE OneUser'
  <2>1. work'[f] = Closed /\ OthersWait(f) /\ client' = client
    BY <1>8 DEF Close, Typed, OthersWait
  <2>2. QED
    BY <1>1, <1>2, <2>1
<1>9. ASSUME NEW f \in Fds, SendReply(f) PROVE OneUser'
  <2>1. OthersWait(f) /\ work'[f] = Idle
    BY <1>9, AnswerTakes
  <2> SUFFICES ASSUME NEW b \in Clients, NEW g \in Fds
               PROVE  /\ g = client'[b].rpc /\ work'[g].req.type = "LOGIN"
                         => client'[b].user = NoUser
                      /\ g = client'[b].sse /\ work'[g].req.type = "SSE_CONNECT"
                         => client'[b].ear = "wait" /\ client'[b].user = work'[g].req.user
    BY DEF OneUser
  <2>2. CASE g = f
    BY <1>2, <2>1, <2>2
  <2>3. CASE g # f
    <3>1. work'[g] = work[g]
      BY <2>1, <2>3 DEF OthersWait
    <3>2. /\ client'[b].rpc = client[b].rpc /\ client'[b].sse = client[b].sse
          /\ \/ client'[b].user = client[b].user /\ client'[b].ear = client[b].ear
             \/ f = client[b].rpc /\ client[b].user = NoUser
             \/ f = client[b].sse /\ client'[b].user = client[b].user
      BY <1>9, AnswerAt
    <3>3. work[g].req.type = "SSE_CONNECT" => work[g].req.user \in Users
      <4>1. work[g].req \in Reqs
        BY DEF Typed, Worker
      <4>2. QED
        BY <4>1, ReqFields
    <3>4. QED
      BY <2>3, <3>1, <3>2, <3>3, NamesAssumption DEF OneUser
  <2>4. QED
    BY <2>2, <2>3
<1>10. ASSUME NEW f \in Fds, AddSession(f) PROVE OneUser'
  BY <1>1, <1>10, AddSessionTakes DEF Onward
<1>11. ASSUME NEW f \in Fds, Register(f) PROVE OneUser'
  <2>1. Onward(f, "reply") \/ (OthersWait(f) /\ work'[f] = Idle)
    BY <1>11, RegisterTakes, FinishIdle DEF Typed
  <2>2. QED
    BY <1>1, <1>2, <1>11, <2>1, RegisterTakes DEF Onward
<1>12. ASSUME NEW f \in Fds, Advances(f) PROVE OneUser'
  <2>1. /\ work'[f].req.type \in {"none", work[f].req.type}
        /\ work'[f].req.type \in {"LOGIN", "SSE_CONNECT"} => work'[f].req = work[f].req
    BY <1>2, <1>12 DEF Advances, SameRequest, RoomReqs
  <2>2. QED
    BY <1>1, <1>12, <2>1 DEF Advances, SameEnds
<1>13. QED
  BY <1>3, <1>4, <1>5, <1>6, <1>7, <1>8, <1>9, <1>10, <1>11, <1>12, PushCases DEF Unfreed

(* The list as far as pushes go: new sessions send nothing. *)
AimKept ==
    \A i \in DOMAIN sessions' :
        \/ sessions'[i].sse = NoFd
        \/ /\ i \in DOMAIN sessions /\ sessions'[i].sse = sessions[i].sse
           /\ sessions'[i].id = sessions[i].id

LEMMA AimedKept ==
  ASSUME Unfreed, Aimed, NEW f \in Fds, OthersWait(f), recycled' = recycled,
         work'[f].pc # "closed", AimKept,
         \A b \in Clients : /\ client'[b].rpc = client[b].rpc
                            /\ client'[b].sse = client[b].sse
                            /\ client'[b].user = client[b].user \/ client[b].user = NoUser
  PROVE  Aimed'
<1> SUFFICES ASSUME NEW i \in DOMAIN sessions', NEW g \in Fds, sessions'[i].sse = g
             PROVE  /\ work'[g].pc = "closed" => g \in recycled
                    /\ g \notin recycled => \A c \in Clients :
                          /\ client'[c].rpc # g
                          /\ client'[c].sse = g => client'[c].user = sessions'[i].id
  BY DEF Aimed, At, Fresh
<1>1. g # NoFd
  BY FdsAssumption DEF NoFd
<1>2. i \in DOMAIN sessions /\ sessions[i].sse = g /\ sessions'[i].id = sessions[i].id
  BY <1>1 DEF AimKept
<1>3. work'[g].pc = "closed" => work[g].pc = "closed"
  BY DEF OthersWait
<1>4. sessions[i].id # NoUser
  BY <1>2, NamesAssumption DEF Unfreed
<1>5. QED
  BY <1>2, <1>3, <1>4 DEF Aimed, At, Fresh

LEMMA AimedStep ==
  ASSUME Typed, Connected, Unfreed, OneUser, Aimed, Next
  PROVE  Aimed'
<1>0. sessions \in Seq(SessionRec) /\ NoFd \notin Fds
  BY FdsAssumption DEF Typed, NoFd
<1>1. sessions' = sessions => AimKept
  BY DEF AimKept
<1>2. Idle.pc = "recv" /\ Closed.pc = "closed"
  BY DEF Closed, Idle
<1>3. CASE Boot
  BY <1>3 DEF Boot, Aimed, At, Fresh, history
<1>4. CASE GoesDown
  BY <1>4 DEF GoesDown, Crash, Aimed
<1>5. ASSUME NEW c \in Clients, Accept(c) PROVE Aimed'
  <2>1. PICK g \in Fds :
            /\ At(g, "closed") /\ work'[g] = Idle /\ OthersWait(g)
            /\ UNCHANGED <<up, db, sessions, history>>
            /\ \A b \in Clients :
                  /\ client'[b].user = client[b].user /\ client'[b].ear = client[b].ear
                  /\ client'[b].rpc = client[b].rpc
                     \/ (client[b].rpc = NoFd /\ client'[b].rpc = g)
                  /\ client'[b].sse = client[b].sse
                     \/ (client[b].sse = NoFd /\ client'[b].sse = g)
    BY <1>5, AcceptAt
  <2>2. \A f \in Fds : f = g \/ work'[f] = work[f]
    BY <2>1 DEF OthersWait
  <2>3. recycled' = recycled /\ sessions' = sessions
    BY <2>1 DEF history
  <2>4. \A i \in DOMAIN sessions : sessions[i].sse = g => g \in recycled
    BY <2>1 DEF Aimed
  <2> SUFFICES ASSUME NEW i \in DOMAIN sessions, NEW h \in Fds, sessions[i].sse = h
               PROVE  /\ work'[h].pc = "closed" => h \in recycled
                      /\ h \notin recycled => \A b \in Clients :
                            /\ client'[b].rpc # h
                            /\ client'[b].sse = h => client'[b].user = sessions[i].id
    BY <2>3 DEF Aimed, At, Fresh
  <2>5. CASE h = g
    BY <2>4, <2>5
  <2>6. CASE h # g
    BY <2>1, <2>2, <2>6 DEF Aimed, At, Fresh
  <2>7. QED
    BY <2>5, <2>6
<1>6. ASSUME NEW c \in Clients, Leave(c) PROVE Aimed'
  <2>1. /\ UNCHANGED <<work, sessions, recycled>> /\ client'[c] = Off
        /\ \A b \in Clients \ {c} : client'[b] = client[b]
    BY <1>6 DEF Leave, Typed
  <2>2. Off.rpc = NoFd /\ Off.sse = NoFd
    BY DEF Off
  <2>3. \A b \in Clients, g \in Fds :
           /\ client'[b].rpc = g => client[b].rpc = g
           /\ client'[b].sse = g => client[b].sse = g /\ client'[b].user = client[b].user
    BY <1>0, <2>1, <2>2
  <2>4. QED
    BY <2>1, <2>3 DEF Aimed, At, Fresh
<1>7. ASSUME NEW f \in Fds, Receive(f) PROVE Aimed'
  <2>1. /\ OthersWait(f) /\ sessions' = sessions /\ recycled' = recycled
        /\ work'[f].pc # "closed"
    BY <1>7, ReceiveTakes DEF history
  <2>2. QED
    BY <1>1, <1>7, <2>1, ReceiveAt, AimedKept
<1>8. ASSUME NEW f \in Fds, Close(f) PROVE Aimed'
  <2>1. /\ work'[f] = Closed /\ \A g \in Fds \ {f} : work'[g] = work[g]
        /\ UNCHANGED <<client, sessions>> /\ recycled' = recycled \cup {f}
    BY <1>8 DEF Close, Typed
  <2>2. QED
    BY <2>1 DEF Aimed, At, Fresh
<1>9. ASSUME NEW f \in Fds, SendReply(f) PROVE Aimed'
  <2>1. /\ OthersWait(f) /\ sessions' = sessions /\ recycled' = recycled
        /\ work'[f].pc # "closed"
    BY <1>2, <1>9, AnswerTakes DEF history
  <2>2. \A b \in Clients : /\ client'[b].rpc = client[b].rpc
                           /\ client'[b].sse = client[b].sse
                           /\ client'[b].user = client[b].user \/ client[b].user = NoUser
    BY <1>9, AnswerAt
  <2>3. QED
    BY <1>1, <2>1, <2>2, AimedKept
<1>10. ASSUME NEW f \in Fds, AddSession(f) PROVE Aimed'
  <2> DEFINE s == [id |-> work[f].req.user, fd |-> f, sse |-> NoFd]
  <2>1. /\ Onward(f, "reply") /\ sessions' = Append(sessions, s)
        /\ UNCHANGED <<client, recycled>>
    BY <1>10, AddSessionTakes DEF history
  <2>2. s.sse = NoFd
    OBVIOUS
  <2> HIDE DEF s
  <2>3. \A i \in DOMAIN sessions' : sessions'[i] = s \/ (i \in DOMAIN sessions /\ sessions'[i] = sessions[i])
    BY <1>0, <2>1
  <2>4. AimKept
    BY <2>2, <2>3 DEF AimKept
  <2>5. QED
    BY <2>1, <2>4, AimedKept DEF Onward
<1>11. ASSUME NEW f \in Fds, Register(f) PROVE Aimed'
  <2> DEFINE u == work[f].req.user
  <2>1. /\ UNCHANGED <<client, recycled>> /\ At(f, "register")
        /\ work[f].req.type = "SSE_CONNECT" /\ u \in Users
    BY <1>11, RegisterTakes DEF Register
  <2>2. CASE Finish(f) /\ sessions' = sessions
    BY <1>1, <1>2, <2>1, <2>2, FinishIdle, AimedKept DEF Typed
  <2>3. ASSUME NEW i \in FindById(u), i \in DOMAIN sessions, Onward(f, "reply"),
               sessions' = [sessions EXCEPT ![i].sse = f]
        PROVE  Aimed'
    <3>1. sessions[i].id = u
      <4>1. sessions[i].id \in {u, Freed} /\ sessions[i].id \in Users
        BY <1>0, <2>3, FindIdTyped DEF Unfreed
      <4>2. QED
        BY <4>1, NamesAssumption
    <3>2. /\ DOMAIN sessions' = DOMAIN sessions
          /\ \A j \in DOMAIN sessions : sessions'[j].id = sessions[j].id
      BY <1>0, <2>3, SseSet
    <3>3. /\ sessions'[i].sse = f
          /\ \A j \in DOMAIN sessions : j # i => sessions'[j] = sessions[j]
      <4>1. sessions[i] \in SessionRec
        BY <1>0, <2>3
      <4>2. QED
        BY <2>3, <4>1 DEF SessionRec
    <3>4. work'[f].pc = "reply" /\ OthersWait(f)
      BY <2>3 DEF Onward
    <3> SUFFICES ASSUME NEW j \in DOMAIN sessions, NEW g \in Fds, sessions'[j].sse = g
                 PROVE  /\ work'[g].pc = "closed" => g \in recycled
                        /\ g \notin recycled => \A c \in Clients :
                              /\ client[c].rpc # g
                              /\ client[c].sse = g => client[c].user = sessions[j].id
      BY <2>1, <3>2 DEF Aimed, At, Fresh
    <3>5. CASE j # i
      <4>1. sessions[j].sse = g
        BY <3>3, <3>5
      <4>2. work'[g].pc = "closed" => work[g].pc = "closed"
        BY <3>4 DEF OthersWait
      <4>3. QED
        BY <4>1, <4>2 DEF Aimed, At, Fresh
    <3>6. CASE j = i
      <4>1. g = f
        BY <3>3, <3>6
      <4>2. \A c \in Clients : client[c].rpc # f /\ (client[c].sse = f => client[c].user = u)
        BY <2>1 DEF Connected, Sides, OneUser
      <4>3. QED
        BY <3>1, <3>4, <3>6, <4>1, <4>2
    <3>7. QED
      BY <3>5, <3>6
  <2>4. QED
    BY <1>11, <2>2, <2>3, RegisterTakes
<1>12. ASSUME NEW f \in Fds, Advances(f), Quiet(f) PROVE Aimed'
  <2>1. /\ OthersWait(f) /\ sessions' = sessions /\ recycled' = recycled
        /\ work'[f].pc # "closed" /\ SameEnds
    BY <1>2, <1>12 DEF Advances, Quiet
  <2>2. QED
    BY <1>1, <2>1, AimedKept DEF SameEnds
<1>13. QED
  BY <1>3, <1>4, <1>5, <1>6, <1>7, <1>8, <1>9, <1>10, <1>11, <1>12, PushCases DEF Unfreed

(* Members stay members, so a loop that is under way stays right. *)
LEMMA ToMembersStep ==
  ASSUME Typed, Unfreed, ToMembers, Next
  PROVE  ToMembers'
<1>1. ASSUME NEW f \in Fds, OthersWait(f), Stay(db, db'),
             work'[f].pc = "push" =>
                work'[f].rows \subseteq Members(work'[f].req.room, db')
      PROVE  ToMembers'
  <2> SUFFICES ASSUME NEW g \in Fds, work'[g].pc = "push"
               PROVE  work'[g].rows \subseteq Members(work'[g].req.room, db')
    BY DEF ToMembers, At, Members
  <2>1. CASE g = f
    BY <1>1, <2>1
  <2>2. CASE g # f
    <3>1. work'[g] = work[g] /\ work[g].req \in Reqs /\ work[g].req.type \in Posts
      BY <1>1, <2>2 DEF OthersWait, Typed, Worker, Fits, Suits
    <3>2. work[g].req.room \in Rooms
      BY <3>1, ReqFields
    <3>3. work[g].rows \subseteq Members(work[g].req.room, db)
      BY <3>1 DEF ToMembers, At
    <3>4. QED
      BY <1>1, <3>1, <3>2, <3>3 DEF Stay
  <2>3. QED
    BY <2>1, <2>2
<1>2. Idle.pc = "recv" /\ Closed.pc = "closed" /\ Stay(db, db)
  BY DEF Closed, Idle, Stay
<1>3. CASE Boot
  BY <1>3 DEF Boot, ToMembers, At, Members
<1>4. CASE GoesDown
  BY <1>2, <1>4 DEF GoesDown, Crash, ToMembers, At
<1>5. ASSUME NEW c \in Clients, Accept(c) PROVE ToMembers'
  <2>1. PICK g \in Fds : work'[g] = Idle /\ OthersWait(g) /\ db' = db
    BY <1>5, AcceptTakes
  <2>2. QED
    BY <1>1, <1>2, <2>1
<1>6. ASSUME NEW c \in Clients, Leave(c) PROVE ToMembers'
  BY <1>6 DEF Leave, ToMembers, At, Members
<1>7. ASSUME NEW f \in Fds, Receive(f) PROVE ToMembers'
  <2>1. work'[f].pc # "push" /\ OthersWait(f) /\ db' = db
    <3>1. PICK c \in Ends(f) : \E q \in Requests(c, f) :
              q \in Reqs /\ q.type # "none" /\ work'[f].pc \in {"reply", FirstStep[q.type]}
      <4>1. PICK c \in Ends(f) : \E q \in Requests(c, f) :
              work' = [work EXCEPT ![f] =
               IF q.type \in NeedsSession /\ FindByFd(f) = 0
               THEN [Idle EXCEPT !.pc = "reply", !.req = q,
                                 !.answer = "Session_Not_Found"]
               ELSE [Idle EXCEPT !.pc = FirstStep[q.type], !.req = q,
                                 !.ss = FindByFd(f)]]
        BY <1>7, Zenon DEF Receive
      <4>2. PICK q \in Requests(c, f) :
              work' = [work EXCEPT ![f] =
               IF q.type \in NeedsSession /\ FindByFd(f) = 0
               THEN [Idle EXCEPT !.pc = "reply", !.req = q,
                                 !.answer = "Session_Not_Found"]
               ELSE [Idle EXCEPT !.pc = FirstStep[q.type], !.req = q,
                                 !.ss = FindByFd(f)]]
        BY <4>1, Zenon
      <4>3. q \in Reqs /\ q.type # "none"
        BY RequestTyped DEF Ends
      <4>4. work'[f].pc \in {"reply", FirstStep[q.type]}
        BY <4>2 DEF Typed, Idle
      <4>5. QED
        BY <4>3, <4>4
    <3>2. ASSUME NEW q \in Reqs, q.type # "none" PROVE FirstStep[q.type] # "push"
      <4>1. q.type \in {"SIGNUP", "LOGIN", "SSE_CONNECT", "UPDATE_CHAT_LIST",
                        "UPDATE_ROOM_LIST", "Search_User", "CREATE_ROOM"} \cup Posts
        BY <3>2, ReqFields
      <4>2. CASE q.type \in {"SIGNUP", "LOGIN", "SSE_CONNECT", "CREATE_ROOM"}
        BY <4>2 DEF FirstStep
      <4>3. CASE q.type \in {"UPDATE_CHAT_LIST", "UPDATE_ROOM_LIST", "Search_User"}
        BY <4>3 DEF FirstStep
      <4>4. CASE q.type \in Posts
        BY <4>4 DEF FirstStep, Posts
      <4>5. QED
        BY <4>1, <4>2, <4>3, <4>4
    <3>3. QED
      BY <1>7, <3>1, <3>2, ReceiveTakes
  <2>2. QED
    BY <1>1, <1>2, <2>1
<1>8. ASSUME NEW f \in Fds, Close(f) PROVE ToMembers'
  <2>1. work'[f] = Closed /\ OthersWait(f) /\ db' = db
    BY <1>8 DEF Close, Typed, OthersWait
  <2>2. QED
    BY <1>1, <1>2, <2>1
<1>9. ASSUME NEW f \in Fds, SendReply(f) PROVE ToMembers'
  BY <1>1, <1>2, <1>9, AnswerTakes
<1>10. ASSUME NEW f \in Fds, AddSession(f) PROVE ToMembers'
  BY <1>1, <1>2, <1>10, AddSessionTakes DEF Onward
<1>11. ASSUME NEW f \in Fds, Register(f) PROVE ToMembers'
  <2>1. work'[f].pc # "push" /\ OthersWait(f) /\ db' = db
    BY <1>2, <1>11, RegisterTakes, FinishIdle DEF Onward, Typed
  <2>2. QED
    BY <1>1, <1>2, <2>1
<1>12. ASSUME NEW f \in Fds, Advances(f), Quiet(f) PROVE ToMembers'
  <2>1. OthersWait(f) /\ Stay(db, db')
    BY <1>12 DEF Advances
  <2>2. ASSUME work'[f].pc = "push"
        PROVE  work'[f].rows \subseteq Members(work'[f].req.room, db')
    <3>1. work'[f].req = work[f].req /\ work[f].req.type \in Posts /\ work[f].req \in Reqs
      BY <1>12, <2>2 DEF Quiet, Typed, Worker
    <3>2. work[f].req.room \in Rooms
      BY <3>1, ReqFields
    <3>3. work'[f].rows \subseteq Members(work[f].req.room, db)
      BY <1>12, <2>2 DEF Quiet, ToMembers
    <3>4. QED
      BY <2>1, <3>1, <3>2, <3>3 DEF Stay
  <2>3. QED
    BY <1>1, <2>1, <2>2
<1>13. QED
  BY <1>3, <1>4, <1>5, <1>6, <1>7, <1>8, <1>9, <1>10, <1>11, <1>12, PushCases DEF Unfreed

(* What was heard stays right: nobody loses his membership, and whoever    *)
(* has a user keeps it.                                                    *)
LEMMA ToldKept ==
  ASSUME Aimed, Told, Stay(db, db'), recycled \subseteq recycled',
         heard' \subseteq heard,
         \A h \in heard' : LET b == h[1] IN
             /\ client'[b].rpc = client[b].rpc \/ client[b].rpc = NoFd
             /\ client'[b].sse = client[b].sse \/ client[b].sse = NoFd
             /\ client'[b].user = client[b].user \/ client[b].user = NoUser
  PROVE  Told'
<1> SUFFICES ASSUME NEW h \in heard'
             PROVE  /\ h[3] = "sse" /\ client'[h[1]].sse \notin recycled'
                       => client'[h[1]].user \in Members(h[2], db')
                    /\ h[3] = "rpc" => client'[h[1]].rpc \in recycled'
                    /\ h[1] \in Clients /\ h[2] \in Rooms
  BY DEF Told, PushReachesMember, Fresh, Members
<1> DEFINE b == h[1]
<1>1. /\ h \in heard /\ b \in Clients /\ h[2] \in Rooms
      /\ h[3] = "sse" /\ client[b].sse \notin recycled => client[b].user \in Members(h[2], db)
      /\ h[3] = "rpc" => client[b].rpc \in recycled
  BY DEF Told, PushReachesMember, Fresh
<1>2. NoFd \notin recycled
  BY FdsAssumption DEF Aimed, NoFd
<1>3. \A r : Members(r, db) \subseteq Users
  BY DEF Members
<1>4. NoUser \notin Users
  BY NamesAssumption
<1>5. Members(h[2], db) \subseteq Members(h[2], db')
  BY <1>1 DEF Stay
<1>6. /\ client'[b].rpc = client[b].rpc \/ client[b].rpc = NoFd
      /\ client'[b].sse = client[b].sse \/ client[b].sse = NoFd
      /\ client'[b].user = client[b].user \/ client[b].user = NoUser
  OBVIOUS
<1> HIDE DEF b
<1>7. h[3] = "sse" /\ client'[b].sse \notin recycled' => client'[b].user \in Members(h[2], db')
  <2> SUFFICES ASSUME h[3] = "sse", client'[b].sse \notin recycled'
               PROVE  client'[b].user \in Members(h[2], db')
    OBVIOUS
  <2>1. client[b].sse \notin recycled
    BY <1>2, <1>6
  <2>2. client[b].user \in Members(h[2], db)
    BY <1>1, <2>1
  <2>3. client'[b].user = client[b].user
    BY <1>3, <1>4, <1>6, <2>2
  <2>4. QED
    BY <1>5, <2>2, <2>3
<1>8. h[3] = "rpc" => client'[b].rpc \in recycled'
  BY <1>1, <1>2, <1>6
<1>9. QED
  BY <1>1, <1>7, <1>8 DEF b

(* A push: the descriptor is that of a session of u, and u is a member. *)
LEMMA ToldPush ==
  ASSUME Typed, Directed, NEW f \in Fds, NEW u \in Users, Push(f, u)
  PROVE  Told'
<1>0. sessions \in Seq(SessionRec)
  BY DEF Typed
<1> DEFINE r == work[f].req.room
<1>1. /\ At(f, "push") /\ u \in work[f].rows
      /\ UNCHANGED <<db, recycled>> /\ work[f].req.type \in Posts /\ work[f].req \in Reqs
  BY DEF Push, At, Typed, Fits, Suits, Worker
<1>2. r \in Rooms /\ u \in Members(r, db) /\ Stay(db, db)
  BY <1>1, ReqFields DEF Directed, ToMembers, Stay
<1>3. SameEnds
  BY DeliveredEnds, SameClients DEF Push
<1>4. CASE heard' = heard
  BY <1>1, <1>2, <1>3, <1>4, ToldKept DEF Directed, SameEnds, Told
<1>5. ASSUME NEW g \in SseFds(u), g \in Fds, Delivered(g, r) PROVE Told'
  <2>1. PICK i \in FindById(u) : g = IF i = 0 THEN NoFd ELSE sessions[i].sse
    BY DEF SseFds
  <2>2. g # NoFd
    BY <1>5, FdsAssumption DEF NoFd
  <2>3. i \in DOMAIN sessions /\ sessions[i].sse = g /\ sessions[i].id \in {u, Freed}
    BY <1>0, <2>1, <2>2, FindIdTyped
  <2>4. sessions[i].id = u
    BY <2>3, NamesAssumption DEF Directed, Unfreed
  <2>5. g \notin recycled => \A c \in Clients :
           client[c].rpc # g /\ (client[c].sse = g => client[c].user = u)
    BY <1>5, <2>3, <2>4 DEF Directed, Aimed, Fresh
  <2>6. heard' = heard \cup {<<c, r, IF client[c].sse = g THEN "sse" ELSE "rpc">> : c \in Ends(g)}
    BY <1>5 DEF Delivered
  <2> SUFFICES ASSUME NEW h \in heard'
               PROVE  /\ h[3] = "sse" /\ client'[h[1]].sse \notin recycled
                         => client'[h[1]].user \in Members(h[2], db)
                      /\ h[3] = "rpc" => client'[h[1]].rpc \in recycled
                      /\ h[1] \in Clients /\ h[2] \in Rooms
    BY <1>1 DEF Told, PushReachesMember, Fresh, Members
  <2>7. CASE h \in heard
    BY <1>3, <2>7 DEF Directed, Told, PushReachesMember, Fresh, SameEnds
  <2>8. ASSUME NEW c \in Ends(g), h = <<c, r, IF client[c].sse = g THEN "sse" ELSE "rpc">>
        PROVE  /\ h[3] = "sse" /\ client'[h[1]].sse \notin recycled
                  => client'[h[1]].user \in Members(h[2], db)
               /\ h[3] = "rpc" => client'[h[1]].rpc \in recycled
               /\ h[1] \in Clients /\ h[2] \in Rooms
    <3>1. /\ h[1] = c /\ h[2] = r
          /\ h[3] = IF client[c].sse = g THEN "sse" ELSE "rpc"
      BY <2>8
    <3>2. c \in Clients /\ (client[c].rpc = g \/ client[c].sse = g)
      BY DEF Ends
    <3>3. /\ client'[c].rpc = client[c].rpc /\ client'[c].sse = client[c].sse
          /\ client'[c].user = client[c].user
      BY <1>3, <3>2 DEF SameEnds
    <3>4. QED
      BY <1>2, <2>5, <3>1, <3>2, <3>3
  <2>9. QED
    BY <2>6, <2>7, <2>8
<1>6. QED
  BY <1>4, <1>5 DEF Push

LEMMA ToldStep ==
  ASSUME Typed, Connected, Directed, Next
  PROVE  Told'
<1>0. /\ Unfreed /\ OneUser /\ Aimed /\ Told
      /\ \A h \in heard : h[1] \in Clients
  BY DEF Directed, Told
<1>1. Stay(db, db)
  BY DEF Stay
<1>2. CASE Boot
  BY <1>0, <1>2 DEF Boot, Told, PushReachesMember, Members, Fresh, history
<1>3. CASE GoesDown
  BY <1>3 DEF GoesDown, Crash, Told, PushReachesMember
<1>4. ASSUME NEW c \in Clients, Accept(c) PROVE Told'
  <2>1. PICK g \in Fds :
            /\ UNCHANGED <<up, db, sessions, history>>
            /\ \A b \in Clients :
                  /\ client'[b].user = client[b].user
                  /\ client'[b].rpc = client[b].rpc
                     \/ (client[b].rpc = NoFd /\ client'[b].rpc = g)
                  /\ client'[b].sse = client[b].sse
                     \/ (client[b].sse = NoFd /\ client'[b].sse = g)
    BY <1>4, AcceptAt
  <2>2. UNCHANGED <<db, recycled, heard>>
    BY <2>1 DEF history
  <2>3. \A h \in heard' : LET b == h[1] IN
             /\ client'[b].rpc = client[b].rpc \/ client[b].rpc = NoFd
             /\ client'[b].sse = client[b].sse \/ client[b].sse = NoFd
             /\ client'[b].user = client[b].user \/ client[b].user = NoUser
    BY <1>0, <2>1, <2>2
  <2>4. QED
    BY <1>0, <1>1, <2>2, <2>3, ToldKept
<1>5. ASSUME NEW c \in Clients, Leave(c) PROVE Told'
  <2>1. /\ UNCHANGED <<db, recycled>> /\ heard' = {h \in heard : h[1] # c}
        /\ \A b \in Clients \ {c} : client'[b] = client[b]
    BY <1>5 DEF Leave, Typed
  <2>2. \A h \in heard' : client'[h[1]] = client[h[1]]
    BY <1>0, <2>1
  <2>3. QED
    BY <1>0, <1>1, <2>1, <2>2, ToldKept
<1>6. ASSUME NEW f \in Fds, UNCHANGED heard, Stay(db, db'), recycled \subseteq recycled',
             \A b \in Clients : /\ client'[b].rpc = client[b].rpc
                                /\ client'[b].sse = client[b].sse
                                /\ client'[b].user = client[b].user \/ client[b].user = NoUser
      PROVE  Told'
  BY <1>0, <1>6, ToldKept
<1>7. ASSUME NEW f \in Fds, Receive(f) PROVE Told'
  <2>1. UNCHANGED <<heard, db, recycled>>
    BY <1>7 DEF Receive, history
  <2>2. QED
    BY <1>1, <1>6, <1>7, <2>1, ReceiveAt
<1>8. ASSUME NEW f \in Fds, Close(f) PROVE Told'
  BY <1>1, <1>6, <1>8 DEF Close
<1>9. ASSUME NEW f \in Fds, SendReply(f) PROVE Told'
  <2>1. UNCHANGED <<heard, db, recycled>>
    BY <1>9 DEF SendReply, history
  <2>2. \A b \in Clients : /\ client'[b].rpc = client[b].rpc
                           /\ client'[b].sse = client[b].sse
                           /\ client'[b].user = client[b].user \/ client[b].user = NoUser
    BY <1>0, <1>9, AnswerAt
  <2>3. QED
    BY <1>1, <1>6, <2>1, <2>2
<1>10. ASSUME NEW f \in Fds, AddSession(f) \/ Register(f) PROVE Told'
  <2>1. UNCHANGED <<heard, db, recycled, client>>
    BY <1>10 DEF AddSession, Register, history
  <2>2. QED
    BY <1>1, <1>6, <2>1
<1>11. ASSUME NEW f \in Fds, Advances(f), Quiet(f) PROVE Told'
  <2>1. CASE UNCHANGED heard
    BY <1>6, <1>11, <2>1 DEF Advances, Quiet, SameEnds
  <2>2. CASE \E u \in Users : Push(f, u)
    BY <2>2, ToldPush
  <2>3. QED
    BY <1>11, <2>1, <2>2 DEF Quiet
<1>12. QED
  BY <1>2, <1>3, <1>4, <1>5, <1>7, <1>8, <1>9, <1>10, <1>11, PushCases DEF Directed, Unfreed

LEMMA DirectedStep == NoSearch /\ Typed /\ Connected /\ Directed /\ [Next]_vars => Directed'
<1> SUFFICES ASSUME NoSearch, Typed, Connected, Directed, [Next]_vars PROVE Directed'
  OBVIOUS
<1>1. CASE Next
  BY <1>1, UnfreedStep, OneUserStep, AimedStep, ToMembersStep, ToldStep DEF Directed
<1>2. CASE UNCHANGED vars
  <2>1. UNCHANGED <<db, sessions, work, client, recycled, heard>>
    BY <1>2 DEF vars, history
  <2>2. Unfreed' /\ OneUser' /\ Aimed'
    BY <2>1 DEF Directed, Unfreed, OneUser, Aimed, At, Fresh
  <2>3. ToMembers' /\ Told'
    BY <2>1 DEF Directed, ToMembers, Told, PushReachesMember, Members, At, Fresh
  <2>4. QED
    BY <2>2, <2>3 DEF Directed
<1>3. QED
  BY <1>1, <1>2

LEMMA DirectedInit == Init => Directed
<1> SUFFICES ASSUME Init PROVE Directed
  OBVIOUS
<1>1. /\ sessions = <<>> /\ work = [f \in Fds |-> Closed] /\ recycled = {} /\ heard = {}
  BY DEF Init
<1>2. Closed.pc = "closed" /\ Closed.req.type = "none"
  BY DEF Closed, Idle, NoReq
<1>3. Unfreed /\ OneUser /\ Aimed
  BY <1>1, <1>2 DEF Unfreed, OneUser, Aimed
<1>4. ToMembers /\ Told
  BY <1>1, <1>2 DEF ToMembers, Told, PushReachesMember, At
<1>5. QED
  BY <1>3, <1>4 DEF Directed

(* When nobody searches, a push of a room is heard by members of that room *)
(* only, and on the connection meant for pushes, unless a descriptor was   *)
(* used again: whoever leaves, and whatever calls fail.                    *)
THEOREM PushesArrive == NoSearch => (Spec => []PushReachesMember)
<1> SUFFICES ASSUME NoSearch PROVE Spec => []PushReachesMember
  OBVIOUS
<1>1. Typed /\ Connected /\ Directed /\ [Next]_vars => Directed'
  BY DirectedStep
<1>2. Directed => PushReachesMember
  BY DEF Directed, Told
<1>3. QED
  BY <1>1, <1>2, DirectedInit, ConnectedAlways, PTL DEF Spec

-----------------------------------------------------------------------------
(* What ends the server.                                                   *)

(* Nobody has left, and whoever changes a room changes one with members.   *)
Quietly == NoSearch /\ ~ DbFaulty /\ ~ Leaving

EndsHeld == \A f \in Fds : ~ At(f, "closed") => ~ Gone(f)

HasMembers ==
    \A f \in Fds : work[f].req.type \in Posts => Members(work[f].req.room, db) # {}

Safe == up /\ EndsHeld /\ HasMembers /\ Unfreed

(* The members of a room that has some can be read, when calls do not fail.*)
LEMMA MembersRead ==
  ASSUME ~ DbFaulty, NEW r, Members(r, db) # {},
         NEW o \in Outcomes([name |-> "get_members", room |-> r])
  PROVE  ~ Empty(o)
<1> DEFINE c == [name |-> "get_members", room |-> r]
           last == [NoVars EXCEPT !["max_chat_id"] =
                      IF RoomChats(c.room, db) = {} THEN 0
                      ELSE Cardinality(RoomChats(c.room, db)) - 1]
<1>1. Effect(c, db) = db
  BY DEF Effect
<1>2. o.res = Answer(c, db)
  BY <1>1 DEF Outcomes
<1>3. Answer(c, db) = Result({MemberItem(c.room, u, db, last) : u \in Members(c.room, db)})
  BY DEF Answer
<1> HIDE DEF last
<1>4. o.res.rows # {} /\ ~ o.res.null
  BY <1>2, <1>3 DEF Result
<1>5. QED
  BY <1>4 DEF Empty

(* No step of a worker ends the server, or closes a connection. *)
LEMMA WorkGoesOn ==
  ASSUME ~ DbFaulty, Typed, Safe, NEW f \in Fds, Work(f)
  PROVE  SendReply(f) \/ AddSession(f) \/ Register(f) \/ Advances(f)
<1>1. CASE BrokenPipe(f)
  BY <1>1 DEF BrokenPipe, Safe, EndsHeld, At
<1>2. CASE Close(f)
  BY <1>2 DEF Close, Safe, EndsHeld, At
<1>3. CASE SearchUser(f) \/ FreeId(f)
  BY <1>3 DEF SearchUser, FreeId, At, Typed, Fits, Suits, Safe, Unfreed
<1>4. CASE GetMembers(f)
  <2>1. PICK o \in Outcomes([name |-> "get_members", room |-> work[f].req.room]) :
          IF Empty(o) THEN Crash
          ELSE /\ work' = [work EXCEPT ![f].pc = "push",
                                       ![f].rows = {m.owner : m \in o.res.rows}]
               /\ UNCHANGED <<up, sessions, client, started, history>>
    BY <1>4 DEF GetMembers
  <2>2. work[f].req.type \in Posts
    BY <1>4 DEF GetMembers, At, Typed, Fits, Suits, Posts
  <2>3. ~ Empty(o)
    BY <2>2, MembersRead DEF Safe, HasMembers
  <2>4. up'
    BY <2>1, <2>3 DEF Safe
  <2>5. QED
    BY <1>4, <2>4, GetMembersAdvances DEF GoesDown, Crash
<1>5. CASE FindUser(f) \/ InsertUser(f) \/ MatchUser(f) \/ CountToken(f) \/ WriteToken(f)
  BY <1>5, FindUserAdvances, InsertUserAdvances, MatchUserAdvances,
     CountTokenAdvances, WriteTokenAdvances
<1>6. CASE FindReact(f) \/ Post(f) \/ PushDone(f) \/ \E u \in Users : Push(f, u)
  BY <1>6, FindReactAdvances, PostAdvances, PushDoneAdvances, PushAdvances
<1>7. CASE InsertRoom(f) \/ InsertMembers(f) \/ List(f)
  BY <1>7, InsertRoomAdvances, InsertMembersAdvances, ListAdvances
<1>8. QED
  BY <1>1, <1>2, <1>3, <1>4, <1>5, <1>6, <1>7, Zenon DEF Work

(* A client changes rooms its user is a member of. *)
LEMMA PostsInHisRooms ==
  ASSUME Typed, NEW c \in Clients, NEW f, NEW q \in Requests(c, f), q.type \in Posts
  PROVE  Members(q.room, db) # {}
<1>1. f # client[c].sse
  BY RequestSide DEF Posts
<1>2. CASE client[c].user = NoUser
  BY <1>1, <1>2 DEF Requests, LoginPage, Posts
<1>3. CASE client[c].user # NoUser
  <2> DEFINE u == client[c].user
  <2>1. q \in ServicePage(u)
    BY <1>1, <1>3 DEF Requests
  <2>2. CASE q \in [type : {"UPDATE_ROOM_LIST", "Search_User"}] \/ q \in NewRooms
    BY <2>2 DEF NewRooms, Posts
  <2>3. ASSUME NEW r \in HisRooms(u), q \in RoomPage(r) PROVE Members(q.room, db) # {}
    <3>1. q.room = r
      BY <2>3 DEF RoomPage
    <3>2. u \in Members(r, db)
      BY DEF HisRooms
    <3>3. QED
      BY <3>1, <3>2
  <2>4. QED
    BY <2>1, <2>2, <2>3, PageParts
<1>4. QED
  BY <1>2, <1>3

(* One worker went on, and nobody gave up a connection. *)
LEMMA SafeKept ==
  ASSUME Typed, Safe, NEW f \in Fds, OthersWait(f), UNCHANGED up, Stay(db, db'), Unfreed',
         \A b \in Clients : /\ client'[b].rpc \in {client[b].rpc} \/ client[b].rpc = NoFd
                            /\ client'[b].sse \in {client[b].sse} \/ client[b].sse = NoFd,
         work'[f].pc # "closed" => ~ Gone(f)',
         work'[f].req.type \in Posts => Members(work'[f].req.room, db') # {}
  PROVE  Safe'
<1>1. EndsHeld'
  <2> SUFFICES ASSUME NEW g \in Fds, work'[g].pc # "closed", g # f PROVE ~ Gone(g)'
    BY DEF EndsHeld, At
  <2>1. work'[g] = work[g] /\ g # NoFd
    BY FdsAssumption DEF OthersWait, NoFd
  <2>2. PICK c \in Clients : g \in {client[c].rpc, client[c].sse}
    BY <2>1 DEF Safe, EndsHeld, Gone, Ends, At
  <2>3. g \in {client'[c].rpc, client'[c].sse}
    BY <2>1, <2>2
  <2>4. QED
    BY <2>3 DEF Gone, Ends
<1>2. HasMembers'
  <2> SUFFICES ASSUME NEW g \in Fds, work'[g].req.type \in Posts, g # f
               PROVE  Members(work'[g].req.room, db') # {}
    BY DEF HasMembers, Members
  <2>1. work'[g] = work[g] /\ work[g].req \in Reqs
    BY DEF OthersWait, Typed, Worker
  <2>2. work[g].req.room \in Rooms
    BY <2>1, ReqFields
  <2>3. Members(work[g].req.room, db) # {}
    BY <2>1 DEF Safe, HasMembers
  <2>4. QED
    BY <2>1, <2>2, <2>3 DEF Stay
<1>3. QED
  BY <1>1, <1>2 DEF Safe

LEMMA SafeStep == Quietly /\ Typed /\ Connected /\ Safe /\ [Next]_vars => Safe'
<1> SUFFICES ASSUME Quietly, Typed, Connected, Safe, [Next]_vars PROVE Safe'
  OBVIOUS
<1>0. NoSearch /\ ~ DbFaulty /\ ~ Leaving /\ Unfreed /\ Stay(db, db)
  BY DEF Quietly, Safe, Stay
<1>1. Idle.req.type = "none" /\ "none" \notin Posts /\ Idle.pc = "recv"
  BY DEF Idle, NoReq, Posts
<1>2. CASE UNCHANGED vars
  BY <1>2 DEF vars, history, Safe, EndsHeld, HasMembers, Unfreed, At, Gone, Ends, Members
<1>3. ASSUME Next PROVE Unfreed'
  BY <1>0, <1>3, UnfreedStep
<1>4. CASE Boot
  BY <1>4 DEF Boot, Safe
<1>5. ASSUME NEW c \in Clients, Accept(c) PROVE Safe'
  <2>1. PICK g \in Fds :
            /\ work'[g] = Idle /\ OthersWait(g)
            /\ UNCHANGED <<up, db, sessions, history>>
            /\ \/ client[c].rpc = NoFd /\ client' = [client EXCEPT ![c].rpc = g]
               \/ /\ client[c].rpc # NoFd /\ client[c].sse = NoFd
                  /\ client' = [client EXCEPT ![c].sse = g]
    BY <1>5, AcceptTakes
  <2>2. \A b \in Clients : client[b] \in ClientRec
    BY DEF Typed
  <2>3. g \in {client'[c].rpc, client'[c].sse}
    BY <2>1, <2>2 DEF Typed, ClientRec
  <2>4. ~ Gone(g)'
    BY <2>3 DEF Gone, Ends
  <2>5. \A b \in Clients :
            /\ client'[b].rpc \in {client[b].rpc} \/ client[b].rpc = NoFd
            /\ client'[b].sse \in {client[b].sse} \/ client[b].sse = NoFd
    BY <2>1, <2>2 DEF Typed, ClientRec
  <2>6. Unfreed'
    BY <1>3, <1>5 DEF Next
  <2>7. QED
    BY <1>0, <1>1, <2>1, <2>4, <2>5, <2>6, SafeKept
<1>6. ASSUME NEW f \in Fds, OthersWait(f), UNCHANGED up, Stay(db, db'), Next, ~ At(f, "closed"),
             \A b \in Clients : client'[b].rpc = client[b].rpc /\ client'[b].sse = client[b].sse,
             work'[f].req.type \in Posts => work'[f].req = work[f].req
                                            \/ Members(work'[f].req.room, db') # {}
      PROVE  Safe'
  <2>1. ~ Gone(f)'
    BY <1>6 DEF Safe, EndsHeld, Gone, Ends
  <2>2. ASSUME work'[f].req.type \in Posts PROVE Members(work'[f].req.room, db') # {}
    <3>1. CASE work'[f].req = work[f].req
      <4>1. work[f].req.room \in Rooms /\ Members(work[f].req.room, db) # {}
        BY <2>2, <3>1, ReqFields DEF Safe, HasMembers, Typed, Worker
      <4>2. QED
        BY <1>6, <3>1, <4>1 DEF Stay
    <3>2. QED
      BY <1>6, <2>2, <3>1
  <2>3. QED
    BY <1>3, <1>6, <2>1, <2>2, SafeKept
<1>7. ASSUME NEW f \in Fds, Receive(f) PROVE Safe'
  <2>1. UNCHANGED <<up, db>> /\ At(f, "recv") /\ OthersWait(f)
    BY <1>7, ReceiveTakes
  <2>2. PICK c \in Ends(f) : \E q \in Requests(c, f) : work'[f].req = q
    BY <1>7, ReceiveTakes
  <2>3. c \in Clients
    BY DEF Ends
  <2>4. PICK q \in Requests(c, f) : work'[f].req = q
    BY <2>2
  <2>5. q.type \in Posts => Members(q.room, db) # {}
    BY <2>3, PostsInHisRooms
  <2>6. work'[f].req.type \in Posts => Members(work'[f].req.room, db') # {}
    BY <2>1, <2>4, <2>5
  <2>7. \A b \in Clients : client'[b].rpc = client[b].rpc /\ client'[b].sse = client[b].sse
    BY <1>7, ReceiveAt
  <2>8. Next
    BY <1>7 DEF Next
  <2>9. QED
    BY <1>0, <1>6, <2>1, <2>6, <2>7, <2>8 DEF At
<1>8. ASSUME NEW f \in Fds, Work(f) PROVE Safe'
  <2>1. Next
    BY <1>8 DEF Next
  <2>2. CASE SendReply(f)
    <3>1. /\ UNCHANGED <<up, db>> /\ At(f, "reply") /\ OthersWait(f) /\ work'[f] = Idle
      BY <2>2, AnswerTakes
    <3>2. \A b \in Clients : client'[b].rpc = client[b].rpc /\ client'[b].sse = client[b].sse
      <4>1. ASSUME NEW c, client' = LoginAnswered(c, f) \/ client' = SseAnswered(c)
            PROVE  \A b \in Clients :
                      client'[b].rpc = client[b].rpc /\ client'[b].sse = client[b].sse
        <5>1. \A b \in Clients : client[b] \in ClientRec
          BY DEF Typed
        <5>2. CASE client' = LoginAnswered(c, f)
          BY <5>1, <5>2 DEF LoginAnswered, Typed, ClientRec
        <5>3. CASE client' = SseAnswered(c)
          BY <5>1, <5>3 DEF SseAnswered, Typed, ClientRec
        <5>4. QED
          BY <4>1, <5>2, <5>3
      <4>2. QED
        BY <2>2, <4>1, AnswerTakes
    <3>3. QED
      BY <1>0, <1>1, <1>6, <2>1, <3>1, <3>2 DEF At
  <2>3. CASE AddSession(f)
    <3>1. /\ UNCHANGED <<up, db, client>> /\ ~ At(f, "closed") /\ OthersWait(f)
          /\ work'[f].req = work[f].req
      BY <2>3, AddSessionTakes DEF Onward, At
    <3>2. QED
      BY <1>0, <1>6, <2>1, <3>1
  <2>4. CASE Register(f)
    <3>1. /\ UNCHANGED <<up, db, client>> /\ ~ At(f, "closed") /\ OthersWait(f)
          /\ work'[f].req = work[f].req \/ work'[f] = Idle
      BY <2>4, RegisterTakes, FinishIdle DEF Onward, At, Typed
    <3>2. QED
      BY <1>0, <1>1, <1>6, <2>1, <3>1
  <2>5. CASE Advances(f)
    <3>1. /\ UNCHANGED up /\ Stay(db, db') /\ ~ At(f, "closed") /\ OthersWait(f)
          /\ work'[f] = Idle \/ SameRequest(f)
          /\ \A b \in Clients : client'[b].rpc = client[b].rpc /\ client'[b].sse = client[b].sse
      BY <2>5 DEF Advances, SameEnds, At
    <3>2. work'[f].req.type \in Posts => work'[f].req = work[f].req
      BY <1>1, <3>1 DEF SameRequest, RoomReqs, Posts
    <3>3. QED
      BY <1>6, <2>1, <3>1, <3>2
  <2>6. QED
    BY <1>0, <1>8, <2>2, <2>3, <2>4, <2>5, WorkGoesOn
<1>9. ASSUME NEW c \in Clients, Leave(c) PROVE FALSE
  BY <1>0, <1>9 DEF Leave
<1>10. QED
  BY <1>2, <1>4, <1>5, <1>7, <1>8, <1>9 DEF Next

(* As long as nobody leaves, nobody searches for users and no call fails,  *)
(* the server never goes down: no step of a worker raises SIGPIPE, reads   *)
(* through a missing list of members or frees an id twice.                 *)
THEOREM NeverDown == Quietly => (Spec => []StaysUp)
<1> SUFFICES ASSUME Quietly PROVE Spec => []StaysUp
  OBVIOUS
<1>1. Typed /\ Connected /\ Safe /\ [Next]_vars => Safe'
  BY SafeStep
<1>2. Init => Safe
  <2> SUFFICES ASSUME Init PROVE Safe
    OBVIOUS
  <2>1. up /\ sessions = <<>> /\ work = [f \in Fds |-> Closed]
    BY DEF Init
  <2>2. Closed.pc = "closed" /\ Closed.req.type = "none" /\ "none" \notin Posts
    BY DEF Closed, Idle, NoReq, Posts
  <2>3. QED
    BY <2>1, <2>2 DEF Safe, EndsHeld, HasMembers, Unfreed, At
<1>3. Safe => StaysUp
  BY DEF Safe, StaysUp
<1>4. QED
  BY <1>1, <1>2, <1>3, ConnectedAlways, PTL DEF Spec
=============================================================================
