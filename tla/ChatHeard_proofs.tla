-------------------------- MODULE ChatHeard_proofs --------------------------
(***************************************************************************)
(* Nobody is forgotten: who has not heard of a change of a room is before  *)
(* a worker that will push to him, as long as no client sends Search_User. *)
(* The cases in which this fails are those Informed names: a push loop     *)
(* that was given up, and a user who registered again from another client. *)
(*                                                                         *)
(* And what was announced is stored, as long as no call fails, nobody      *)
(* leaves or searches, and everybody has one client.                       *)
(***************************************************************************)
EXTENDS ChatPush_proofs, FunctionTheorems

-----------------------------------------------------------------------------
(* What the proof is by.                                                   *)

(* Who has not heard of a change listens, and is a member of the room.     *)
Listening ==
    \A m \in missed :
        /\ m[1] \in Clients /\ m[2] \in Rooms
        /\ client[m[1]].ear = "on"
        /\ client[m[1]].user \in Members(m[2], db)

(* The first session of user u. *)
First(i, u) ==
    /\ i \in DOMAIN sessions /\ sessions[i].id = u
    /\ \A j \in DOMAIN sessions : sessions[j].id = u => i <= j

(* Client c has registered for pushes, or the answer is under way. *)
Enrolls(c) ==
    \/ client[c].ear = "on"
    \/ \E f \in Fds : /\ f = client[c].sse /\ At(f, "reply")
                      /\ work[f].req.type = "SSE_CONNECT" /\ work[f].answer = "OK"

(* The session that is found for a user names the push connection of the   *)
(* client that registered last.                                            *)
Enrolled ==
    /\ latest \in [Users -> Clients \cup {NoUser}]
    /\ \A u \in Users, c \in Clients :
          latest[u] = c /\ client[c].user = u /\ Enrolls(c)
          => /\ client[c].sse \in Fds
             /\ \E i \in DOMAIN sessions : First(i, u) /\ sessions[i].sse = client[c].sse

-----------------------------------------------------------------------------
(* The session that is found.                                              *)

(* Without freed ids the first session of a user is the one found. *)
LEMMA FoundFirst ==
  ASSUME sessions \in Seq(SessionRec), Unfreed, NEW u \in Users, NEW j \in FindById(u)
  PROVE  \/ j = 0 /\ \A i \in DOMAIN sessions : sessions[i].id # u
         \/ First(j, u)
<1> DEFINE same == {i \in DOMAIN sessions : sessions[i].id = u}
<1>1. same \in SUBSET Nat
  OBVIOUS
<1>2. \A i \in DOMAIN sessions : sessions[i].id # Freed
  BY NamesAssumption DEF Unfreed
<1>3. j = IF same = {} THEN 0 ELSE Min(same)
  BY <1>2 DEF FindById
<1>4. CASE same = {}
  BY <1>3, <1>4
<1>5. CASE same # {}
  <2>1. j \in same /\ \A y \in same : j <= y
    BY <1>1, <1>3, <1>5, MinMember
  <2>2. QED
    BY <2>1 DEF First
<1>6. QED
  BY <1>4, <1>5

LEMMA OneFirst ==
  ASSUME sessions \in Seq(SessionRec), NEW u, NEW i, NEW j, First(i, u), First(j, u)
  PROVE  i = j
<1>1. i \in Nat /\ j \in Nat /\ i <= j /\ j <= i
  BY DEF First
<1>2. QED
  BY <1>1

-----------------------------------------------------------------------------
(* The last to register is the one who is found.                           *)

(* Sessions may be appended: what was first stays first. *)
FirstKept ==
    \A i \in DOMAIN sessions, u \in Users :
        First(i, u) => First(i, u)' /\ sessions'[i] = sessions[i]

LEMMA EnrolledKept ==
  ASSUME Enrolled, latest' = latest, FirstKept,
         \A c \in Clients : client'[c].user \in Users /\ Enrolls(c)' =>
            /\ Enrolls(c) /\ client'[c].user = client[c].user
            /\ client'[c].sse = client[c].sse \/ client[c].sse = NoFd
  PROVE  Enrolled'
<1>1. NoFd \notin Fds
  BY FdsAssumption DEF NoFd
<1> SUFFICES ASSUME NEW u \in Users, NEW c \in Clients,
                    latest[u] = c, client'[c].user = u, Enrolls(c)'
             PROVE  /\ client'[c].sse \in Fds
                    /\ \E i \in DOMAIN sessions' :
                          First(i, u)' /\ sessions'[i].sse = client'[c].sse
  BY DEF Enrolled
<1>2. Enrolls(c) /\ client[c].user = u
  OBVIOUS
<1>3. client[c].sse \in Fds
  BY <1>2 DEF Enrolled
<1>4. PICK i \in DOMAIN sessions : First(i, u) /\ sessions[i].sse = client[c].sse
  BY <1>2 DEF Enrolled
<1>5. client'[c].sse = client[c].sse
  BY <1>1, <1>3
<1>6. First(i, u)' /\ sessions'[i] = sessions[i]
  BY <1>4 DEF FirstKept
<1>7. i \in DOMAIN sessions'
  BY <1>6 DEF First
<1>8. QED
  BY <1>3, <1>4, <1>5, <1>6, <1>7

(* A step of a worker that is not done with a registration. *)
LEMMA EnrolledWork ==
  ASSUME Enrolled, UNCHANGED <<latest, sessions>>, NEW f \in Fds, OthersWait(f),
         ~ (/\ work'[f].pc = "reply" /\ work'[f].req.type = "SSE_CONNECT"
            /\ work'[f].answer = "OK"),
         \A c \in Clients : client'[c].user \in Users =>
            /\ client'[c].user = client[c].user
            /\ client'[c].sse = client[c].sse \/ (client[c].sse = NoFd /\ client'[c].sse = f)
            /\ client'[c].ear = "on" => Enrolls(c)
  PROVE  Enrolled'
<1>1. FirstKept
  BY DEF FirstKept, First
<1>2. ASSUME NEW c \in Clients, client'[c].user \in Users, Enrolls(c)'
      PROVE  Enrolls(c)
  <2>1. CASE client'[c].ear = "on"
    BY <1>2, <2>1
  <2>2. ASSUME NEW g \in Fds, g = client'[c].sse, work'[g].pc = "reply",
               work'[g].req.type = "SSE_CONNECT", work'[g].answer = "OK"
        PROVE  Enrolls(c)
    <3>1. g # f
      BY <2>2
    <3>2. work'[g] = work[g] /\ g = client[c].sse
      BY <1>2, <2>2, <3>1 DEF OthersWait
    <3>3. QED
      BY <2>2, <3>2 DEF Enrolls, At
  <2>3. QED
    BY <1>2, <2>1, <2>2 DEF Enrolls, At
<1>3. QED
  BY <1>1, <1>2, EnrolledKept

(* A registration: the client becomes the last, and its connection is that *)
(* of the first session; sessions of others are as before.                 *)
LEMMA EnrolledRegister ==
  ASSUME Typed, Connected, Unfreed, OneUser, Enrolled, NEW f \in Fds, Register(f)
  PROVE  Enrolled'
<1> DEFINE u == work[f].req.user
<1>0. sessions \in Seq(SessionRec)
  BY DEF Typed
<1>1. /\ At(f, "register") /\ work[f].req.type = "SSE_CONNECT" /\ u \in Users
      /\ client' = client
  BY RegisterTakes DEF At
<1>2. PICK i \in FindById(u) :
         IF i = 0 THEN Finish(f) /\ UNCHANGED <<sessions, latest>>
         ELSE /\ sessions' = [sessions EXCEPT ![i].sse = f]
              /\ Reply(f, "OK")
              /\ latest' = [latest EXCEPT ![u] =
                   IF Gone(f) THEN NoUser ELSE CHOOSE c \in Ends(f) : TRUE]
  BY DEF Register
<1>3. CASE i = 0
  <2>1. work'[f] = Idle /\ OthersWait(f) /\ UNCHANGED <<sessions, latest>>
    BY <1>2, <1>3, FinishIdle DEF Typed
  <2>2. Idle.pc = "recv"
    BY DEF Idle
  <2>3. \A c \in Clients : client'[c].ear = "on" => Enrolls(c)
    BY <1>1 DEF Enrolls
  <2>4. QED
    BY <1>1, <2>1, <2>2, <2>3, EnrolledWork
<1>4. CASE i # 0
  <2>1. First(i, u) /\ i \in DOMAIN sessions
    BY <1>0, <1>1, <1>4, FoundFirst DEF First
  <2> DEFINE last == IF Gone(f) THEN NoUser ELSE CHOOSE c \in Ends(f) : TRUE
  <2>2. /\ sessions' = [sessions EXCEPT ![i].sse = f]
        /\ latest' = [latest EXCEPT ![u] = last] /\ OthersWait(f)
    BY <1>2, <1>4, ReplyOnward DEF Typed, Statuses, Onward
  <2>3. last = NoUser \/ last \in Ends(f)
    BY DEF Gone
  <2> HIDE DEF last
  <2>4. /\ DOMAIN sessions' = DOMAIN sessions
        /\ \A j \in DOMAIN sessions : sessions'[j].id = sessions[j].id
    BY <1>0, <2>1, <2>2, SseSet
  <2>5. /\ sessions'[i].sse = f
        /\ \A j \in DOMAIN sessions : j # i => sessions'[j] = sessions[j]
    <3>1. sessions[i] \in SessionRec
      BY <1>0, <2>1
    <3>2. QED
      BY <2>1, <2>2, <3>1 DEF SessionRec
  <2>6. \A j, v : First(j, v) => First(j, v)'
    BY <2>4 DEF First
  <2>7. /\ latest' \in [Users -> Clients \cup {NoUser}] /\ latest'[u] = last
        /\ \A v \in Users : v # u => latest'[v] = latest[v]
    BY <1>1, <2>2, <2>3 DEF Enrolled, Ends
  <2> SUFFICES ASSUME NEW v \in Users, NEW c \in Clients,
                      latest'[v] = c, client[c].user = v, Enrolls(c)'
               PROVE  /\ client[c].sse \in Fds
                      /\ \E j \in DOMAIN sessions :
                            First(j, v)' /\ sessions'[j].sse = client[c].sse
    BY <1>1, <2>4, <2>7 DEF Enrolled
  <2>8. CASE v = u
    <3>1. c \in Ends(f)
      BY <2>3, <2>7, <2>8, NamesAssumption
    <3>2. client[c].sse = f
      BY <1>1, <3>1 DEF Ends, Connected, Sides
    <3>3. QED
      BY <2>1, <2>5, <2>6, <2>8, <3>2
  <2>9. CASE v # u
    <3>1. Enrolls(c)
      <4>1. CASE client[c].ear = "on"
        BY <4>1 DEF Enrolls
      <4>2. ASSUME NEW g \in Fds, g = client[c].sse, work'[g].pc = "reply",
                   work'[g].req.type = "SSE_CONNECT", work'[g].answer = "OK"
            PROVE  Enrolls(c)
        <5>1. g # f
          BY <1>1, <2>9, <4>2 DEF OneUser
        <5>2. work'[g] = work[g]
          BY <2>2, <5>1 DEF OthersWait
        <5>3. QED
          BY <4>2, <5>2 DEF Enrolls, At
      <4>3. QED
        BY <1>1, <4>1, <4>2 DEF Enrolls, At
    <3>2. latest[v] = c
      BY <2>7, <2>9
    <3>3. client[c].sse \in Fds
      BY <3>1, <3>2 DEF Enrolled
    <3>4. PICK j \in DOMAIN sessions : First(j, v) /\ sessions[j].sse = client[c].sse
      BY <3>1, <3>2 DEF Enrolled
    <3>5. j # i
      BY <2>1, <2>9, <3>4 DEF First
    <3>6. sessions'[j].sse = client[c].sse /\ First(j, v)'
      BY <2>5, <2>6, <3>4, <3>5
    <3>7. QED
      BY <3>3, <3>6
  <2>10. QED
    BY <2>8, <2>9
<1>5. QED
  BY <1>3, <1>4

LEMMA EnrolledStep ==
  ASSUME Typed, Connected, Directed, Enrolled, Next
  PROVE  Enrolled'
<1>0. /\ sessions \in Seq(SessionRec) /\ NoFd \notin Fds
      /\ Unfreed /\ OneUser
  BY FdsAssumption DEF Typed, NoFd, Directed
<1>1. Idle.pc = "recv" /\ Closed.pc = "closed"
  BY DEF Closed, Idle
<1>2. CASE Boot
  BY <1>2 DEF Boot, history, Enrolled, Enrolls, First, At
<1>3. CASE GoesDown
  <2>1. latest' = [u \in Users |-> NoUser]
    BY <1>3 DEF GoesDown, Crash
  <2>2. QED
    BY <2>1, NamesAssumption DEF Enrolled
<1>4. ASSUME NEW c \in Clients, Accept(c) PROVE Enrolled'
  <2>1. PICK g \in Fds :
            /\ work'[g] = Idle /\ OthersWait(g)
            /\ UNCHANGED <<up, db, sessions, history>>
            /\ \A b \in Clients :
                  /\ client'[b].user = client[b].user /\ client'[b].ear = client[b].ear
                  /\ client'[b].rpc = client[b].rpc
                     \/ (client[b].rpc = NoFd /\ client'[b].rpc = g)
                  /\ client'[b].sse = client[b].sse
                     \/ (client[b].sse = NoFd /\ client'[b].sse = g)
    BY <1>4, AcceptAt
  <2>2. UNCHANGED <<latest, sessions>>
    BY <2>1 DEF history
  <2>3. \A b \in Clients : client'[b].ear = "on" => Enrolls(b)
    BY <2>1 DEF Enrolls
  <2>4. QED
    BY <1>1, <2>1, <2>2, <2>3, EnrolledWork
<1>5. ASSUME NEW c \in Clients, Leave(c) PROVE Enrolled'
  <2>1. /\ UNCHANGED <<work, sessions, latest>> /\ client'[c] = Off
        /\ \A b \in Clients \ {c} : client'[b] = client[b]
    BY <1>5 DEF Leave, Typed
  <2>2. Off.user = NoUser
    BY DEF Off
  <2>3. FirstKept
    BY <2>1 DEF FirstKept, First
  <2>4. \A b \in Clients : client'[b].user \in Users => client'[b] = client[b]
    BY <2>1, <2>2, NamesAssumption
  <2>5. \A b \in Clients : client'[b] = client[b] /\ Enrolls(b)' => Enrolls(b)
    BY <2>1 DEF Enrolls, At
  <2>6. QED
    BY <2>1, <2>3, <2>4, <2>5, EnrolledKept
<1>6. ASSUME NEW f \in Fds, Receive(f) PROVE Enrolled'
  <2>1. OthersWait(f) /\ UNCHANGED <<latest, sessions>>
    BY <1>6, ReceiveTakes DEF history
  <2>2. \A b \in Clients : /\ client'[b].user = client[b].user
                           /\ client'[b].sse = client[b].sse
                           /\ client'[b].ear = "on" => Enrolls(b)
    BY <1>6, ReceiveAt DEF Enrolls
  <2>3. work'[f].answer # "OK"
    BY <1>6, ReceiveTakes
  <2>4. QED
    BY <2>1, <2>2, <2>3, EnrolledWork
<1>7. ASSUME NEW f \in Fds, Close(f) PROVE Enrolled'
  <2>1. work'[f] = Closed /\ OthersWait(f) /\ UNCHANGED <<latest, sessions, client>>
    BY <1>7 DEF Close, Typed, OthersWait
  <2>2. \A b \in Clients : client'[b].ear = "on" => Enrolls(b)
    BY <2>1 DEF Enrolls
  <2>3. QED
    BY <1>1, <2>1, <2>2, EnrolledWork
<1>8. ASSUME NEW f \in Fds, SendReply(f) PROVE Enrolled'
  <2>1. /\ work'[f] = Idle /\ OthersWait(f) /\ UNCHANGED <<latest, sessions>>
        /\ At(f, "reply")
    BY <1>8, AnswerTakes DEF history
  <2>2. FirstKept
    BY <2>1 DEF FirstKept, First
  <2>3. ASSUME NEW b \in Clients, Enrolls(b)'
        PROVE  /\ Enrolls(b) /\ client'[b].user = client[b].user
               /\ client'[b].sse = client[b].sse
    <3>1. /\ client'[b].sse = client[b].sse
          /\ \/ client'[b].user = client[b].user /\ client'[b].ear = client[b].ear
             \/ client[b].user = NoUser /\ client'[b].ear = "start"
             \/ /\ f = client[b].sse /\ client'[b].user = client[b].user
                /\ work[f].req.type = "SSE_CONNECT" /\ work[f].answer = "OK"
      BY <1>0, <1>8, AnswerAt
    <3>2. CASE client'[b].ear = "on"
      BY <2>1, <3>1, <3>2 DEF Enrolls
    <3>3. ASSUME NEW g \in Fds, g = client'[b].sse, work'[g].pc = "reply",
                 work'[g].req.type = "SSE_CONNECT", work'[g].answer = "OK"
          PROVE  Enrolls(b) /\ client'[b].user = client[b].user
      <4>1. g # f
        BY <1>1, <2>1, <3>3
      <4>2. work'[g] = work[g] /\ g = client[b].sse
        BY <2>1, <3>1, <3>3, <4>1 DEF OthersWait
      <4>3. Enrolls(b)
        BY <3>3, <4>2 DEF Enrolls, At
      <4>4. work[g].req \in Reqs
        BY DEF Typed, Worker
      <4>5. client[b].user \in Users
        BY <1>0, <3>3, <4>2, <4>4, ReqFields DEF OneUser
      <4>6. QED
        BY <3>1, <4>3, <4>5, NamesAssumption
    <3>4. QED
      BY <2>3, <3>1, <3>2, <3>3 DEF Enrolls, At
  <2>4. QED
    BY <2>1, <2>2, <2>3, EnrolledKept
<1>9. ASSUME NEW f \in Fds, AddSession(f) PROVE Enrolled'
  <2> DEFINE s == [id |-> work[f].req.user, fd |-> f, sse |-> NoFd]
  <2>1. /\ Onward(f, "reply") /\ sessions' = Append(sessions, s)
        /\ UNCHANGED <<client, latest>> /\ work[f].req.type = "LOGIN"
    BY <1>9, AddSessionTakes DEF history
  <2> HIDE DEF s
  <2>2. /\ DOMAIN sessions \subseteq DOMAIN sessions'
        /\ \A i \in DOMAIN sessions : sessions'[i] = sessions[i]
        /\ \A i \in DOMAIN sessions' \ DOMAIN sessions :
              \A j \in DOMAIN sessions : j <= i
    BY <1>0, <2>1
  <2>3. FirstKept
    BY <2>2 DEF FirstKept, First
  <2>4. ASSUME NEW c \in Clients, Enrolls(c)' PROVE Enrolls(c)
    <3>1. \A g \in Fds : work'[g] = work[g] \/ work'[g].req.type = "LOGIN"
      BY <2>1 DEF Onward, OthersWait
    <3>2. QED
      BY <2>1, <2>4, <3>1 DEF Enrolls, At
  <2>5. QED
    BY <2>1, <2>3, <2>4, EnrolledKept
<1>10. ASSUME NEW f \in Fds, Register(f) PROVE Enrolled'
  BY <1>0, <1>10, EnrolledRegister
<1>11. ASSUME NEW f \in Fds, Advances(f), Quiet(f) PROVE Enrolled'
  <2>1. /\ OthersWait(f) /\ UNCHANGED <<latest, sessions>> /\ SameEnds
        /\ work'[f] = Idle \/ (SameRequest(f) /\ LoginIsGood(f))
    BY <1>11 DEF Advances, Quiet
  <2>2. ~ (/\ work'[f].pc = "reply" /\ work'[f].req.type = "SSE_CONNECT"
           /\ work'[f].answer = "OK")
    <3>1. work'[f] = Idle \/ work'[f].req = work[f].req \/ work'[f].req.type = "CREATE_ROOM"
      BY <2>1 DEF SameRequest, RoomReqs
    <3>2. QED
      BY <1>1, <2>1, <3>1 DEF LoginIsGood
  <2>3. \A b \in Clients : client'[b].ear = "on" => Enrolls(b)
    BY <2>1 DEF Enrolls, SameEnds
  <2>4. QED
    BY <2>1, <2>2, <2>3, EnrolledWork DEF SameEnds
<1>12. QED
  BY <1>2, <1>3, <1>4, <1>5, <1>6, <1>7, <1>8, <1>9, <1>10, <1>11, PushCases DEF Directed, Unfreed

-----------------------------------------------------------------------------
(* Who is missing a change listens.                                        *)

LEMMA ListeningKept ==
  ASSUME Listening, Stay(db, db'), missed' \subseteq missed,
         \A m \in missed' : client'[m[1]].ear = "on" /\ client'[m[1]].user = client[m[1]].user
  PROVE  Listening'
<1> SUFFICES ASSUME NEW m \in missed'
             PROVE  /\ m[1] \in Clients /\ m[2] \in Rooms
                    /\ client'[m[1]].ear = "on"
                    /\ client'[m[1]].user \in Members(m[2], db')
  BY DEF Listening, Members
<1>1. /\ m[1] \in Clients /\ m[2] \in Rooms
      /\ client[m[1]].user \in Members(m[2], db)
  BY DEF Listening
<1>2. Members(m[2], db) \subseteq Members(m[2], db')
  BY <1>1 DEF Stay
<1>3. QED
  BY <1>1, <1>2

(* A change concerns those who listen.                                     *)
LEMMA ListeningPost ==
  ASSUME Typed, Listening, NEW f \in Fds, Post(f)
  PROVE  Listening'
<1> DEFINE r == work[f].req.room
<1>1. /\ missed' = missed \/ missed' = missed \cup (Audience(r) \X {r})
      /\ work[f].req.type \in Posts /\ work[f].req \in Reqs /\ client' = client
  BY DEF Post, Typed, Fits, Suits, Worker, Posts
<1>2. Stay(db, db') /\ r \in Rooms
  BY <1>1, PostAdvances, ReqFields DEF Advances
<1> HIDE DEF r
<1>3. ASSUME NEW m \in missed'
      PROVE  /\ m[1] \in Clients /\ m[2] \in Rooms /\ client[m[1]].ear = "on"
             /\ client[m[1]].user \in Members(m[2], db)
  BY <1>1, <1>2 DEF Listening, Audience
<1>4. \A m \in missed' : client'[m[1]].user \in Members(m[2], db')
  BY <1>1, <1>2, <1>3 DEF Stay
<1>5. QED
  BY <1>1, <1>3, <1>4 DEF Listening, Members

LEMMA ListeningStep ==
  ASSUME Typed, Connected, Directed, Listening, Next
  PROVE  Listening'
<1>0. /\ OneUser /\ Stay(db, db)
      /\ \A m \in missed : /\ m[1] \in Clients /\ client[m[1]].ear = "on"
                           /\ client[m[1]].user # NoUser
  BY NamesAssumption DEF Directed, Stay, Listening, Members
<1>1. CASE Boot
  BY <1>1, <1>0, ListeningKept DEF Boot, history
<1>2. CASE GoesDown
  BY <1>2 DEF GoesDown, Crash, Listening
<1>3. ASSUME NEW c \in Clients, Accept(c) PROVE Listening'
  <2>1. /\ UNCHANGED <<db, history>>
        /\ \A b \in Clients : client'[b].user = client[b].user /\ client'[b].ear = client[b].ear
    BY <1>3, AcceptAt
  <2>2. missed' = missed
    BY <2>1 DEF history
  <2>3. QED
    BY <1>0, <2>1, <2>2, ListeningKept
<1>4. ASSUME NEW c \in Clients, Leave(c) PROVE Listening'
  <2>1. /\ UNCHANGED db /\ missed' = {m \in missed : m[1] # c}
        /\ \A b \in Clients \ {c} : client'[b] = client[b]
    BY <1>4 DEF Leave, Typed
  <2>2. QED
    BY <1>0, <2>1, ListeningKept
<1>5. ASSUME NEW f \in Fds, Receive(f) PROVE Listening'
  <2>1. UNCHANGED <<db, missed>>
    BY <1>5, ReceiveTakes DEF history
  <2>2. \A b \in Clients :
           /\ client'[b].user = client[b].user
           /\ client'[b].ear = client[b].ear \/ client[b].ear = "start"
    BY <1>5, ReceiveAt
  <2>3. QED
    BY <1>0, <2>1, <2>2, ListeningKept
<1>6. ASSUME NEW f \in Fds, Close(f) PROVE Listening'
  BY <1>0, <1>6, ListeningKept DEF Close
<1>7. ASSUME NEW f \in Fds, SendReply(f) PROVE Listening'
  <2>1. UNCHANGED <<db, missed>>
    BY <1>7, AnswerTakes DEF history
  <2>2. \A b \in Clients :
           \/ client'[b].user = client[b].user /\ client'[b].ear = client[b].ear
           \/ client[b].user = NoUser
           \/ client[b].ear = "wait"
    BY <1>0, <1>7, AnswerAt
  <2>3. QED
    BY <1>0, <2>1, <2>2, ListeningKept
<1>8. ASSUME NEW f \in Fds, AddSession(f) \/ Register(f) PROVE Listening'
  <2>1. UNCHANGED <<db, missed, client>>
    BY <1>8 DEF AddSession, Register, history
  <2>2. QED
    BY <1>0, <2>1, ListeningKept
<1>9. ASSUME NEW f \in Fds, Advances(f), Quiet(f) PROVE Listening'
  <2>1. Stay(db, db') /\ SameEnds
    BY <1>9 DEF Advances
  <2>2. CASE missed' \subseteq missed
    BY <1>0, <2>1, <2>2, ListeningKept DEF SameEnds
  <2>3. CASE Post(f)
    BY <2>3, ListeningPost
  <2>4. ASSUME NEW u \in Users, Push(f, u) PROVE missed' \subseteq missed
    BY <2>4 DEF Push, Delivered
  <2>5. QED
    BY <1>9, <2>2, <2>3, <2>4 DEF Quiet
<1>10. QED
  BY <1>1, <1>2, <1>3, <1>4, <1>5, <1>6, <1>7, <1>8, <1>9, PushCases DEF Directed, Unfreed

-----------------------------------------------------------------------------
(* Who is missing a change is before a worker.                             *)

(* m need not wait for a push, with what is known after a step. *)
Settled(m) == m[2] \in cut \/ latest[client[m[1]].user] # m[1]

Awaits(m, f) == WillPush(f, client[m[1]].user, m[2])

(* Steps of workers that push to nobody: the workers that will go on.      *)
LEMMA InformedKept ==
  ASSUME Informed, missed' \subseteq missed, cut' = cut,
         NEW f \in Fds, OthersWait(f), ~ At(f, "get_members"), ~ At(f, "push"),
         \A m \in missed' :
            /\ client'[m[1]].user = client[m[1]].user
            /\ \/ latest'[client[m[1]].user] = latest[client[m[1]].user]
               \/ latest'[client[m[1]].user] # m[1]
  PROVE  Informed'
<1> SUFFICES ASSUME NEW m \in missed' PROVE Settled(m)' \/ \E g \in Fds : Awaits(m, g)'
  BY DEF Informed, Settled, Awaits, WillPush, At
<1>1. CASE Settled(m)
  BY <1>1 DEF Settled
<1>2. ASSUME NEW g \in Fds, Awaits(m, g) PROVE Awaits(m, g)'
  <2>1. g # f
    BY <1>2 DEF Awaits, WillPush
  <2>2. work'[g] = work[g]
    BY <2>1 DEF OthersWait
  <2>3. QED
    BY <1>2, <2>2 DEF Awaits, WillPush, At
<1>3. QED
  BY <1>1, <1>2 DEF Informed, Settled, Awaits

(* Whoever a change concerns is before the worker that made it.            *)
LEMMA InformedPost ==
  ASSUME Typed, Informed, NEW f \in Fds, Post(f)
  PROVE  Informed'
<1> DEFINE r == work[f].req.room
<1>1. /\ UNCHANGED <<client, cut, latest>> /\ OthersWait(f)
      /\ missed' = missed \/ missed' = missed \cup (Audience(r) \X {r})
      /\ work[f].req.type \in Posts /\ ~ At(f, "get_members") /\ ~ At(f, "push")
  BY PostAdvances DEF Post, Typed, Fits, Suits, Posts, Advances, At
<1>2. work'[f].pc = "get_members" /\ work'[f].req = work[f].req
  BY GotoOnward DEF Post, Onward, Typed, Steps
<1> SUFFICES ASSUME NEW m \in missed' PROVE Settled(m)' \/ \E g \in Fds : Awaits(m, g)'
  BY DEF Informed, Settled, Awaits, WillPush, At
<1>3. CASE m \in missed
  <2>1. CASE Settled(m)
    BY <1>1, <2>1 DEF Settled
  <2>2. ASSUME NEW g \in Fds, Awaits(m, g) PROVE Awaits(m, g)'
    <3>1. work'[g] = work[g]
      BY <1>1, <2>2 DEF Awaits, WillPush, OthersWait
    <3>2. QED
      BY <1>1, <2>2, <3>1 DEF Awaits, WillPush, At
  <2>3. QED
    BY <1>3, <2>1, <2>2 DEF Informed, Settled, Awaits
<1>4. CASE m \notin missed
  <2>1. m[2] = r
    BY <1>1, <1>4
  <2>2. QED
    BY <1>1, <1>2, <2>1 DEF Awaits, WillPush, At, Posts
<1>5. QED
  BY <1>3, <1>4

(* A turn of the loop takes its user off the rows: if he is missing the    *)
(* change, the push goes to his connection.                                *)
LEMMA InformedPush ==
  ASSUME Typed, Connected, Directed, Enrolled, Listening, Informed,
         NEW f \in Fds, NEW u \in Users, Push(f, u)
  PROVE  Informed'
<1> DEFINE r == work[f].req.room
<1>0. sessions \in Seq(SessionRec) /\ Unfreed /\ NoFd \notin Fds /\ work[f] \in Worker
  BY FdsAssumption DEF Typed, Directed, NoFd
<1>1. PICK g \in SseFds(u) :
          \/ /\ g = NoFd
             /\ work' = [work EXCEPT ![f].rows = @ \ {u}]
             /\ UNCHANGED <<client, missed, heard, cut>>
          \/ /\ g \in Fds /\ ~At(g, "closed")
             /\ Delivered(g, r)
             /\ work' = [work EXCEPT ![f].rows = @ \ {u}]
             /\ UNCHANGED cut
          \/ /\ g \in Fds /\ At(g, "closed")
             /\ cut' = cut \cup {r}
             /\ IF work[f].req.type = "SEND_CHAT_REACT" THEN Finish(f) ELSE Reply(f, "ERROR")
             /\ UNCHANGED <<client, missed, heard>>
  BY DEF Push
<1>2. At(f, "push") /\ latest' = latest /\ SameEnds /\ OthersWait(f)
  BY PushAdvances DEF Push, Advances
<1>3. missed' \subseteq missed /\ cut \subseteq cut'
  BY <1>1 DEF Delivered
<1>4. ASSUME NEW c \in Clients, latest[u] = c, client[c].user = u, client[c].ear = "on"
      PROVE  g = client[c].sse /\ g \in Fds /\ ~ At(g, "closed")
  <2>1. Enrolls(c)
    BY <1>4 DEF Enrolls
  <2>2. client[c].sse \in Fds
    BY <1>4, <2>1 DEF Enrolled
  <2>3. PICK i \in DOMAIN sessions : First(i, u) /\ sessions[i].sse = client[c].sse
    BY <1>4, <2>1 DEF Enrolled
  <2>4. PICK j \in FindById(u) : g = IF j = 0 THEN NoFd ELSE sessions[j].sse
    BY DEF SseFds
  <2>5. First(j, u) /\ j # 0
    <3>1. sessions[i].id = u /\ 0 \notin DOMAIN sessions
      BY <1>0, <2>3 DEF First
    <3>2. First(j, u)
      BY <1>0, <2>3, <3>1, FoundFirst
    <3>3. QED
      BY <3>1, <3>2 DEF First
  <2>6. i = j
    BY <1>0, <2>3, <2>5, OneFirst
  <2>7. g = client[c].sse
    BY <2>3, <2>4, <2>5, <2>6
  <2>8. QED
    BY <1>0, <2>2, <2>7 DEF Connected, EndsOpen
<1> SUFFICES ASSUME NEW m \in missed' PROVE Settled(m)' \/ \E h \in Fds : Awaits(m, h)'
  BY DEF Informed, Settled, Awaits, WillPush, At
<1> DEFINE c == m[1]
<1>5. /\ m \in missed /\ c \in Clients /\ client[c].ear = "on"
      /\ client'[c].user = client[c].user
  BY <1>2, <1>3 DEF Listening, SameEnds
<1>6. CASE Settled(m)
  BY <1>2, <1>3, <1>5, <1>6 DEF Settled
<1>7. ASSUME NEW h \in Fds, Awaits(m, h), h # f PROVE Awaits(m, h)'
  <2>1. work'[h] = work[h]
    BY <1>2, <1>7 DEF OthersWait
  <2>2. QED
    BY <1>5, <1>7, <2>1 DEF Awaits, WillPush, At
<1>8. ASSUME Awaits(m, f), latest[client[c].user] = c
      PROVE  Settled(m)' \/ Awaits(m, f)'
  <2>1. /\ client[c].user \in work[f].rows /\ m[2] = r /\ work[f].req.type \in Posts
    BY <1>2, <1>8 DEF Awaits, WillPush, At, Posts
  <2>2. CASE r \in cut'
    BY <2>1, <2>2 DEF Settled
  <2>3. CASE r \notin cut'
    <3>1. /\ work' = [work EXCEPT ![f].rows = @ \ {u}]
          /\ g = NoFd \/ (g \in Fds /\ Delivered(g, r))
      BY <1>1, <2>3
    <3>2. work'[f].pc = "push" /\ work'[f].req = work[f].req /\ work'[f].rows = work[f].rows \ {u}
      BY <1>0, <1>2, <3>1 DEF Typed, Worker, At
    <3>3. client[c].user # u
      <4>1. SUFFICES ASSUME client[c].user = u PROVE FALSE
        OBVIOUS
      <4>2. g = client[c].sse /\ g \in Fds
        BY <1>4, <1>5, <1>8, <4>1
      <4>3. Delivered(g, r)
        BY <1>0, <3>1, <4>2
      <4>4. c \in Ends(g)
        BY <1>5, <4>2 DEF Ends
      <4>5. m \notin missed'
        BY <2>1, <4>2, <4>3, <4>4 DEF Delivered
      <4>6. QED
        BY <4>5
    <3>4. QED
      BY <1>5, <2>1, <3>2, <3>3 DEF Awaits, WillPush, At, Posts
  <2>4. QED
    BY <2>2, <2>3
<1>9. QED
  BY <1>5, <1>6, <1>7, <1>8 DEF Informed, Settled, Awaits

LEMMA InformedStep ==
  ASSUME Typed, Connected, Directed, Enrolled, Listening, Informed, Next
  PROVE  Informed'
<1>0. /\ OneUser
      /\ \A m \in missed : /\ m[1] \in Clients /\ client[m[1]].ear = "on"
                           /\ client[m[1]].user # NoUser
  BY NamesAssumption DEF Directed, Listening, Members
<1>1. CASE Boot
  BY <1>1 DEF Boot, history, Informed, WillPush, At
<1>2. CASE GoesDown
  BY <1>2 DEF GoesDown, Crash, Informed
<1>3. ASSUME NEW c \in Clients, Accept(c) PROVE Informed'
  <2>1. PICK g \in Fds :
            /\ At(g, "closed") /\ OthersWait(g) /\ UNCHANGED history
            /\ \A b \in Clients : client'[b].user = client[b].user
    BY <1>3, AcceptAt
  <2>2. /\ UNCHANGED <<missed, cut, latest>>
        /\ ~ At(g, "get_members") /\ ~ At(g, "push")
    BY <2>1 DEF history, At
  <2>3. QED
    BY <1>0, <2>1, <2>2, InformedKept
<1>4. ASSUME NEW c \in Clients, Leave(c) PROVE Informed'
  <2>1. /\ UNCHANGED <<work, latest, cut>> /\ missed' = {m \in missed : m[1] # c}
        /\ \A b \in Clients \ {c} : client'[b] = client[b]
    BY <1>4 DEF Leave, Typed
  <2>2. \A m \in missed' : m \in missed /\ client'[m[1]] = client[m[1]]
    BY <1>0, <2>1
  <2>3. QED
    BY <2>1, <2>2 DEF Informed, WillPush, At
<1>5. ASSUME NEW f \in Fds, Receive(f) PROVE Informed'
  <2>1. /\ UNCHANGED <<missed, cut, latest>> /\ OthersWait(f)
        /\ ~ At(f, "get_members") /\ ~ At(f, "push")
    BY <1>5, ReceiveTakes DEF history, At
  <2>2. \A b \in Clients : client'[b].user = client[b].user
    BY <1>5, ReceiveAt
  <2>3. QED
    BY <1>0, <2>1, <2>2, InformedKept
<1>6. ASSUME NEW f \in Fds, Close(f) PROVE Informed'
  <2>1. /\ UNCHANGED <<missed, cut, latest, client>> /\ OthersWait(f)
        /\ ~ At(f, "get_members") /\ ~ At(f, "push")
    BY <1>6 DEF Close, OthersWait, At, Typed
  <2>2. QED
    BY <2>1, InformedKept
<1>7. ASSUME NEW f \in Fds, SendReply(f) PROVE Informed'
  <2>1. /\ UNCHANGED <<missed, cut, latest>> /\ OthersWait(f)
        /\ ~ At(f, "get_members") /\ ~ At(f, "push")
    BY <1>7, AnswerTakes DEF history, At
  <2>2. \A b \in Clients : client'[b].user = client[b].user \/ client[b].user = NoUser
    BY <1>0, <1>7, AnswerAt
  <2>3. QED
    BY <1>0, <2>1, <2>2, InformedKept
<1>8. ASSUME NEW f \in Fds, AddSession(f) PROVE Informed'
  <2>1. /\ UNCHANGED <<missed, cut, latest, client>> /\ OthersWait(f)
        /\ ~ At(f, "get_members") /\ ~ At(f, "push")
    BY <1>8, AddSessionTakes DEF history, At, Onward
  <2>2. QED
    BY <2>1, InformedKept
<1>9. ASSUME NEW f \in Fds, Register(f) PROVE Informed'
  <2> DEFINE u == work[f].req.user
  <2>1. /\ UNCHANGED <<missed, cut, client>> /\ OthersWait(f)
        /\ ~ At(f, "get_members") /\ ~ At(f, "push")
        /\ work[f].req.type = "SSE_CONNECT" /\ u \in Users
    BY <1>9, RegisterTakes, FinishIdle DEF Register, At, Onward, Typed
  <2>2. \/ latest' = latest
        \/ \E c \in Ends(f) \cup {NoUser} : latest' = [latest EXCEPT ![u] = c]
    <3> DEFINE last == IF Gone(f) THEN NoUser ELSE CHOOSE c \in Ends(f) : TRUE
    <3>1. last \in Ends(f) \cup {NoUser}
      BY DEF Gone
    <3>2. latest' = latest \/ latest' = [latest EXCEPT ![u] = last]
      BY <1>9 DEF Register
    <3> HIDE DEF last
    <3>3. QED
      BY <3>1, <3>2
  <2>3. ASSUME NEW m \in missed
        PROVE  \/ latest'[client[m[1]].user] = latest[client[m[1]].user]
               \/ latest'[client[m[1]].user] # m[1]
    <3> DEFINE b == m[1]
    <3>1. b \in Clients /\ client[b].ear = "on" /\ b # NoUser
      BY <1>0, <2>3, NamesAssumption
    <3>2. b \notin Ends(f)
      BY <2>1, <3>1, <1>0 DEF Ends, Connected, Sides, OneUser
    <3> HIDE DEF b
    <3>3. CASE latest' = latest
      BY <3>3
    <3>4. ASSUME NEW c \in Ends(f) \cup {NoUser}, latest' = [latest EXCEPT ![u] = c]
          PROVE  \/ latest'[client[b].user] = latest[client[b].user]
                 \/ latest'[client[b].user] # b
      BY <3>1, <3>2, <3>4, <2>1 DEF Enrolled
    <3>5. QED
      BY <2>2, <3>3, <3>4 DEF b
  <2>4. QED
    BY <2>1, <2>3, InformedKept
<1>10. ASSUME NEW f \in Fds, Advances(f), Quiet(f) PROVE Informed'
  <2>1. CASE Post(f)
    BY <2>1, InformedPost
  <2>2. CASE \E u \in Users : Push(f, u)
    BY <2>2, InformedPush
  <2>3. CASE ~ Post(f) /\ ~ \E u \in Users : Push(f, u)
    <3>1. /\ UNCHANGED <<missed, cut, latest>> /\ SameEnds /\ OthersWait(f)
          /\ At(f, "get_members") =>
                /\ work'[f].pc = "push" /\ work'[f].req = work[f].req
                /\ work'[f].rows = Members(work[f].req.room, db)
          /\ At(f, "push") => work[f].rows = {}
      BY <1>10, <2>3 DEF Quiet, Advances, At
    <3> SUFFICES ASSUME NEW m \in missed PROVE Settled(m)' \/ \E g \in Fds : Awaits(m, g)'
      BY <3>1 DEF Informed, Settled, Awaits, WillPush, At
    <3>2. client'[m[1]].user = client[m[1]].user
      BY <1>0, <3>1 DEF SameEnds
    <3>3. CASE Settled(m)
      BY <3>1, <3>2, <3>3 DEF Settled
    <3>4. ASSUME NEW g \in Fds, Awaits(m, g) PROVE Awaits(m, g)'
      <4>1. CASE g # f
        <5>1. work'[g] = work[g]
          BY <3>1, <4>1 DEF OthersWait
        <5>2. QED
          BY <3>2, <3>4, <5>1 DEF Awaits, WillPush, At
      <4>2. CASE g = f
        <5>1. At(f, "get_members") /\ work[f].req.room = m[2]
          BY <3>1, <3>4, <4>2 DEF Awaits, WillPush
        <5>2. client[m[1]].user \in work'[f].rows
          BY <3>1, <5>1 DEF Listening
        <5>3. QED
          BY <3>1, <3>2, <3>4, <4>2, <5>1, <5>2 DEF Awaits, WillPush, At
      <4>3. QED
        BY <4>1, <4>2
    <3>5. QED
      BY <3>3, <3>4 DEF Informed, Settled, Awaits
  <2>4. QED
    BY <2>1, <2>2, <2>3
<1>11. QED
  BY <1>1, <1>2, <1>3, <1>4, <1>5, <1>6, <1>7, <1>8, <1>9, <1>10, PushCases DEF Directed, Unfreed

(* All of it, kept by every step.                                          *)
Attended == Directed /\ Enrolled /\ Listening /\ Informed

LEMMA AttendedStep == NoSearch /\ Typed /\ Connected /\ Attended /\ [Next]_vars => Attended'
<1> SUFFICES ASSUME NoSearch, Typed, Connected, Attended, [Next]_vars PROVE Attended'
  OBVIOUS
<1>1. CASE Next
  BY <1>1, DirectedStep, EnrolledStep, ListeningStep, InformedStep DEF Attended
<1>2. CASE UNCHANGED vars
  <2>1. UNCHANGED <<db, sessions, work, client, latest, missed, cut>>
    BY <1>2 DEF vars, history
  <2>2. Directed'
    BY <1>2, DirectedStep DEF Attended
  <2>3. Enrolled'
    BY <2>1 DEF Attended, Enrolled, Enrolls, First, At
  <2>4. Listening' /\ Informed'
    BY <2>1 DEF Attended, Listening, Informed, WillPush, Members, At
  <2>5. QED
    BY <2>2, <2>3, <2>4 DEF Attended
<1>3. QED
  BY <1>1, <1>2

(* Whatever calls fail and whoever leaves, when nobody searches: a client  *)
(* that has not heard of a change of its room is before a worker that will *)
(* push to it, unless a loop of the room was given up half way or the user *)
(* registered again from another client.                                   *)
THEOREM NobodyForgotten == NoSearch => (Spec => []Informed)
<1> SUFFICES ASSUME NoSearch PROVE Spec => []Informed
  OBVIOUS
<1>1. Init => Attended
  <2>1. Init => missed = {} /\ latest = [u \in Users |-> NoUser]
    BY DEF Init
  <2>2. Init => Enrolled /\ Listening /\ Informed
    BY <2>1, NamesAssumption DEF Enrolled, Listening, Informed
  <2>3. QED
    BY <2>2, DirectedInit DEF Attended
<1>2. Typed /\ Connected /\ Attended /\ [Next]_vars => Attended'
  BY AttendedStep
<1>3. Attended => Informed
  BY DEF Attended
<1>4. QED
  BY <1>1, <1>2, <1>3, ConnectedAlways, PTL DEF Spec

-----------------------------------------------------------------------------
(* What was announced is stored.  A reaction is looked up first and then   *)
(* inserted or updated, so nobody else may act for the same user in        *)
(* between; a deletion is of a message with a number no later one gets.    *)

(* Everybody has one client. *)
OwnClient == \A b, c \in Clients : b # c => Person[b] \cap Person[c] = {}

(* The messages of a room are numbered, each differently. *)
ChatsNumbered(d) ==
    /\ \A r \in Rooms : \E n \in Nat : ChatIds(r, d) = 0 .. n - 1
    /\ \A x, y \in d.chat : x.room = y.room /\ x.id = y.id => x = y

(* The user a worker acts for. *)
HisId(f) == sessions[work[f].ss].id

(* A session, and a login, is of the person at the other end. *)
SessionsHeld ==
    \A i \in DOMAIN sessions : \E c \in Clients :
        client[c].rpc = sessions[i].fd /\ sessions[i].id \in Person[c]
LoginsHeld ==
    \A f \in Fds : work[f].req.type = "LOGIN" =>
        \E c \in Clients : client[c].rpc = f /\ work[f].req.user \in Person[c]

(* A worker acts for a session on its own connection. *)
OnItsSession ==
    \A f \in Fds : work[f].ss # 0 =>
        work[f].ss \in DOMAIN sessions /\ sessions[work[f].ss].fd = f

(* A message that is deleted is one of the room. *)
ChatKnown ==
    \A f \in Fds : work[f].req.type = "DELETE_CHAT" =>
        work[f].req.chat \in ChatIds(work[f].req.room, db)

(* Stored, for any tables. *)
StoredIn(q, u, d) ==
    CASE q.type = "SEND_CHAT" -> \E x \in RoomChats(q.room, d) : x.user = u
      [] q.type = "SEND_CHAT_REACT" ->
           [room |-> q.room, chat |-> q.chat, type |-> q.react, user |-> u] \in d.react
      [] q.type = "DELETE_CHAT" ->
           IF q.all
           THEN \A x \in RoomChats(q.room, d) : x.id = q.chat => x.deleted
           ELSE [room |-> q.room, chat |-> q.chat, user |-> u] \in d.hidden

(* What a worker at step p of request q knows of the tables, for user u.   *)
Knows(p, q, u, d) ==
    /\ p = "insert_react" => Reactions(u, q.room, q.chat, d) = {}
    /\ p = "update_react" => Reactions(u, q.room, q.chat, d) # {}
    /\ p = "get_members" => StoredIn(q, u, d)

Found == \A f \in Fds : work[f].ss # 0 => Knows(work[f].pc, work[f].req, HisId(f), db)

Marked == /\ ChatsNumbered(db) /\ SessionsHeld /\ LoginsHeld /\ OnItsSession
          /\ ChatKnown /\ Found

-----------------------------------------------------------------------------
(* What a call leaves of messages, reactions and deletions.                *)

(* Nothing happens to them. *)
MarksSame(d, e) == e.chat = d.chat /\ e.react = d.react /\ e.hidden = d.hidden

(* Messages keep their number, room and sender, and stay deleted; a new    *)
(* one has a new number; only the reactions of user u may change.          *)
MarksGrow(d, e, u) ==
    /\ \A x \in d.chat : \E y \in e.chat : y.room = x.room /\ y.user = x.user /\ y.id = x.id
    /\ \A y \in e.chat :
          \/ \E x \in d.chat : /\ x.room = y.room /\ x.id = y.id
                               /\ x.deleted => y.deleted
          \/ y.id \notin ChatIds(y.room, d)
    /\ d.hidden \subseteq e.hidden
    /\ \A x : x.user # u => (x \in d.react <=> x \in e.react)

MarkCalls == {"insert_chat", "insert_react", "update_react", "delete_all", "delete_self"}

(* To leave them alone is one way to do so. *)
LEMMA SameGrow ==
  ASSUME NEW d, NEW e, NEW u, MarksSame(d, e), ChatsNumbered(d)
  PROVE  MarksGrow(d, e, u) /\ ChatsNumbered(e)
BY DEF MarksSame, MarksGrow, ChatsNumbered, ChatIds

(* The calls that do nothing to them. *)
LEMMA EffectMarksSame ==
  ASSUME NEW d, Tables(d), NEW c \in ServerCalls, c.name \notin MarkCalls
  PROVE  MarksSame(d, Effect(c, d))
<1>0. d \in Db /\ c.name \in CallNames
  BY CallFields DEF Tables
<1>1. \A x : /\ MarksSame(d, [d EXCEPT !.account = x]) /\ MarksSame(d, [d EXCEPT !.token = x])
             /\ MarksSame(d, [d EXCEPT !.room = x]) /\ MarksSame(d, [d EXCEPT !.lastRead = x])
  BY <1>0 DEF Db, MarksSame
<1>2. MarksSame(d, d)
  BY DEF MarksSame
<1>3. CASE c.name = "chat_list"
  <2>1. Effect(c, d) = MarkRead(c, d)
    BY <1>3 DEF Effect, Write
  <2> DEFINE g == [d.lastRead EXCEPT ![c.room][c.user] = NextChatId(c.room, d)]
  <2>2. Effect(c, d) \in {d, [d EXCEPT !.lastRead = g]}
    BY <1>0, <2>1 DEF MarkRead, Db
  <2> HIDE DEF g
  <2>3. QED
    BY <1>1, <1>2, <2>2
<1>4. CASE c.name = "insert_room"
  BY <1>0, <1>1, <1>4 DEF Effect
<1>5. CASE c.name = "get_members"
  BY <1>2, <1>5 DEF Effect
<1>6. CASE c.name \notin {"chat_list", "insert_room", "get_members"}
  <2>1. Effect(c, d) \in {d, Write(c.name, c, d, NoVars)}
    BY <1>6 DEF Effect, Statements, MarkCalls
  <2>2. CASE c.name = "insert_user"
    <3>1. Write(c.name, c, d, NoVars) = [d EXCEPT !.account = [d.account EXCEPT ![c.user] = c.pwd]]
      BY <2>2, <1>0 DEF Write, Db
    <3>2. QED
      BY <1>1, <1>2, <2>1, <3>1
  <2>3. CASE c.name = "insert_token"
    BY <1>0, <1>1, <1>2, <2>1, <2>3 DEF Write
  <2>4. CASE c.name = "insert_members"
    <3> DEFINE h == [u \in Users |-> IF u \in c.users THEN 0 ELSE d.lastRead[c.room][u]]
               g == [d.lastRead EXCEPT ![c.room] = h]
    <3>1. Write(c.name, c, d, NoVars) = [d EXCEPT !.lastRead = g]
      BY <1>0, <2>4 DEF Write, AddMembers, Db
    <3> HIDE DEF g
    <3>2. QED
      BY <1>1, <1>2, <2>1, <3>1
  <2>5. CASE c.name \in {"count_token", "update_token", "find_user", "search_user",
                         "room_list", "match_user", "find_react"}
    BY <1>2, <2>1, <2>5 DEF Write
  <2>6. QED
    BY <1>0, <1>6, <2>2, <2>3, <2>4, <2>5
       DEF MarkCalls, CallNames, SingleUser, SinglePwd, SingleReact, SingleDelete, MultiRoomUser
<1>7. QED
  BY <1>3, <1>4, <1>5, <1>6

(* A room has as many messages as numbers. *)
LEMMA CountIsNew ==
  ASSUME NEW d, Tables(d), ChatsNumbered(d), NEW r \in Rooms
  PROVE  LET n == Cardinality(RoomChats(r, d)) IN n \in Nat /\ ChatIds(r, d) = 0 .. n - 1
<1> DEFINE R == RoomChats(r, d)
           f == [x \in R |-> x.id]
<1>1. PICK n \in Nat : ChatIds(r, d) = 0 .. n - 1
  BY DEF ChatsNumbered
<1>2. 0 .. n - 1 = {x.id : x \in R}
  BY <1>1 DEF ChatIds, RoomChats
<1>3. \A x, y \in R : x.id = y.id => x = y
  BY DEF ChatsNumbered, RoomChats
<1> HIDE DEF R
<1>4. f \in Bijection(R, 0 .. n - 1)
  BY <1>2, <1>3, Fun_IsBij
<1>5. ExistsBijection(0 .. n - 1, R)
  BY <1>4, Fun_ExistsBijSymmetric DEF ExistsBijection
<1>6. IsFiniteSet(0 .. n - 1) /\ Cardinality(0 .. n - 1) = n
  BY FS_Interval
<1>7. Cardinality(R) = n
  BY <1>5, <1>6, FS_Bijection
<1>8. QED
  BY <1>1, <1>7 DEF R

(* A message more. *)
LEMMA InsertChatMarks ==
  ASSUME NEW d, Tables(d), ChatsNumbered(d), NEW c \in ServerCalls, c.name = "insert_chat"
  PROVE  LET e == Effect(c, d) IN
         /\ MarksGrow(d, e, c.user) /\ ChatsNumbered(e)
         /\ \E x \in RoomChats(c.room, e) : x.user = c.user
<1> DEFINE n == Cardinality(RoomChats(c.room, d))
           x == [room |-> c.room, user |-> c.user, deleted |-> FALSE, id |-> n]
           e == Effect(c, d)
<1>1. c.room \in Rooms /\ d \in Db
  BY CallFields DEF MultiRoomUser, Tables
<1>2. n \in Nat /\ ChatIds(c.room, d) = 0 .. n - 1
  BY <1>1, CountIsNew
<1>3. e = [d EXCEPT !.chat = d.chat \cup {x}]
  BY <1>1 DEF Effect, Db
<1>4. x.room = c.room /\ x.user = c.user /\ x.id = n
  OBVIOUS
<1> HIDE DEF n, x
<1>5. e.chat = d.chat \cup {x} /\ e.react = d.react /\ e.hidden = d.hidden
  BY <1>1, <1>3 DEF Db
<1> HIDE DEF e
<1>6. n \notin ChatIds(c.room, d)
  BY <1>2
<1>7. MarksGrow(d, e, c.user)
  BY <1>4, <1>5, <1>6 DEF MarksGrow
<1>8. \A r \in Rooms : ChatIds(r, e) = IF r = c.room THEN ChatIds(r, d) \cup {n} ELSE ChatIds(r, d)
  BY <1>4, <1>5 DEF ChatIds
<1>9. \A r \in Rooms : \E k \in Nat : ChatIds(r, e) = 0 .. k - 1
  <2> SUFFICES ASSUME NEW r \in Rooms PROVE \E k \in Nat : ChatIds(r, e) = 0 .. k - 1
    OBVIOUS
  <2>1. CASE r = c.room
    <3>1. ChatIds(r, e) = (0 .. n - 1) \cup {n}
      BY <1>2, <1>8, <2>1
    <3>2. (0 .. n - 1) \cup {n} = 0 .. (n + 1) - 1 /\ n + 1 \in Nat
      BY <1>2
    <3>3. QED
      BY <3>1, <3>2
  <2>2. CASE r # c.room
    BY <1>8, <2>2 DEF ChatsNumbered
  <2>3. QED
    BY <2>1, <2>2
<1>10. \A y, z \in e.chat : y.room = z.room /\ y.id = z.id => y = z
  <2>1. \A y \in d.chat : y.room = c.room => y.id # n
    BY <1>6 DEF ChatIds
  <2>2. QED
    BY <1>4, <1>5, <2>1 DEF ChatsNumbered
<1>11. x \in RoomChats(c.room, e)
  BY <1>4, <1>5 DEF RoomChats
<1>12. QED
  BY <1>4, <1>7, <1>9, <1>10, <1>11 DEF ChatsNumbered, e

(* A reaction more, of the user who had none to the message. *)
LEMMA InsertReactMarks ==
  ASSUME NEW d, Tables(d), ChatsNumbered(d), NEW c \in ServerCalls, c.name = "insert_react",
         Reactions(c.user, c.room, c.chat, d) = {}
  PROVE  LET e == Effect(c, d) IN
         /\ MarksGrow(d, e, c.user) /\ ChatsNumbered(e) /\ NewReaction(c) \in e.react
<1> DEFINE e == Effect(c, d)
           x == NewReaction(c)
<1>1. e = [d EXCEPT !.react = d.react \cup {x}]
  BY DEF Effect, Statements, Rejected, DuplicateReaction, Write, Tables, Db
<1>2. x.user = c.user
  BY DEF NewReaction
<1> HIDE DEF x
<1>3. e.react = d.react \cup {x} /\ e.chat = d.chat /\ e.hidden = d.hidden
  BY <1>1 DEF Tables, Db
<1> HIDE DEF e
<1>4. MarksGrow(d, e, c.user) /\ ChatsNumbered(e)
  BY <1>2, <1>3 DEF MarksGrow, ChatsNumbered, ChatIds
<1>5. QED
  BY <1>3, <1>4 DEF e, x

(* The reaction of a user who had one becomes that of the call. *)
LEMMA UpdateReactMarks ==
  ASSUME NEW d, Tables(d), ChatsNumbered(d), NEW c \in ServerCalls, c.name = "update_react"
  PROVE  LET e == Effect(c, d) IN
         /\ MarksGrow(d, e, c.user) /\ ChatsNumbered(e)
         /\ Reactions(c.user, c.room, c.chat, d) # {} => NewReaction(c) \in e.react
<1> DEFINE e == Effect(c, d)
           R == Reactions(c.user, c.room, c.chat, d)
           g(x) == IF x \in R THEN [x EXCEPT !.type = c.type] ELSE x
           S == {g(x) : x \in d.react}
<1>1. e = [d EXCEPT !.react = S]
  BY DEF Effect, Statements, Rejected, Write, UpdateReaction, Tables, Db
<1>2. e.react = S /\ e.chat = d.chat /\ e.hidden = d.hidden /\ d.react \subseteq ReactRows
  BY <1>1 DEF Tables, Db
<1>3. \A x \in d.react : /\ x \in R => /\ x.user = c.user /\ g(x).user = c.user
                                       /\ g(x) = NewReaction(c)
                         /\ x \notin R => g(x) = x
  BY <1>2 DEF Reactions, ReactRows, NewReaction
<1>4. R \subseteq d.react
  BY DEF Reactions
<1> HIDE DEF e, R
<1>5. \A x : x.user # c.user => (x \in d.react <=> x \in e.react)
  <2>1. ASSUME NEW x \in d.react, x.user # c.user PROVE x \in e.react
    <3>1. x = g(x)
      BY <1>3, <2>1
    <3>2. QED
      BY <1>2, <3>1
  <2>2. ASSUME NEW x \in e.react, x.user # c.user PROVE x \in d.react
    <3>1. PICK y \in d.react : x = g(y)
      BY <1>2, <2>2
    <3>2. QED
      BY <1>3, <2>2, <3>1
  <2>3. QED
    BY <2>1, <2>2
<1>6. R # {} => NewReaction(c) \in e.react
  <2> SUFFICES ASSUME NEW x \in R PROVE NewReaction(c) \in e.react
    OBVIOUS
  <2>1. x \in d.react /\ g(x) = NewReaction(c)
    BY <1>3, <1>4
  <2>2. QED
    BY <1>2, <2>1
<1>7. MarksGrow(d, e, c.user) /\ ChatsNumbered(e)
  BY <1>2, <1>5 DEF MarksGrow, ChatsNumbered, ChatIds
<1>8. QED
  BY <1>6, <1>7 DEF e, R

(* A message deleted for everyone keeps its row. *)
LEMMA DeleteAllMarks ==
  ASSUME NEW d, Tables(d), ChatsNumbered(d), NEW c \in ServerCalls, c.name = "delete_all"
  PROVE  LET e == Effect(c, d) IN
         /\ MarksGrow(d, e, c.user) /\ ChatsNumbered(e)
         /\ \A x \in RoomChats(c.room, e) : x.id = c.chat => x.deleted
<1> DEFINE e == Effect(c, d)
           g(x) == IF x.room = c.room /\ x.id = c.chat THEN [x EXCEPT !.deleted = TRUE] ELSE x
           S == {g(x) : x \in d.chat}
<1>1. e = [d EXCEPT !.chat = S]
  BY DEF Effect, Statements, Rejected, Write, DeleteAll, Tables, Db
<1>2. e.chat = S /\ e.react = d.react /\ e.hidden = d.hidden /\ d.chat \subseteq ChatRows
  BY <1>1 DEF Tables, Db
<1>3. \A x \in d.chat : /\ g(x).room = x.room /\ g(x).id = x.id /\ g(x).user = x.user
                        /\ x.deleted => g(x).deleted
                        /\ x.room = c.room /\ x.id = c.chat => g(x).deleted
  BY <1>2 DEF ChatRows
<1> HIDE DEF e, g
<1>4. MarksGrow(d, e, c.user)
  <2>1. \A x \in d.chat : \E y \in e.chat : y.room = x.room /\ y.user = x.user /\ y.id = x.id
    BY <1>2, <1>3
  <2>2. \A y \in e.chat : \E x \in d.chat : /\ x.room = y.room /\ x.id = y.id
                                            /\ x.deleted => y.deleted
    BY <1>2, <1>3
  <2>3. QED
    BY <1>2, <2>1, <2>2 DEF MarksGrow
<1>5. ChatsNumbered(e)
  <2>1. \A r \in Rooms : ChatIds(r, e) = ChatIds(r, d)
    BY <1>2, <1>3 DEF ChatIds
  <2>2. \A x, y \in d.chat : g(x).room = g(y).room /\ g(x).id = g(y).id => g(x) = g(y)
    BY <1>3 DEF ChatsNumbered
  <2>3. QED
    BY <1>2, <2>1, <2>2 DEF ChatsNumbered
<1>6. \A x \in RoomChats(c.room, e) : x.id = c.chat => x.deleted
  BY <1>2, <1>3 DEF RoomChats
<1>7. QED
  BY <1>4, <1>5, <1>6 DEF e

(* A message deleted for one user gets a row of its own, or has it. *)
LEMMA DeleteSelfMarks ==
  ASSUME NEW d, Tables(d), ChatsNumbered(d), NEW c \in ServerCalls, c.name = "delete_self"
  PROVE  LET e == Effect(c, d) IN
         MarksGrow(d, e, c.user) /\ ChatsNumbered(e) /\ Mark(c) \in e.hidden
<1> DEFINE e == Effect(c, d)
<1>1. e = IF Mark(c) \in d.hidden THEN d ELSE [d EXCEPT !.hidden = d.hidden \cup {Mark(c)}]
  BY DEF Effect, Statements, Rejected, Write, Tables, Db
<1>2. e.hidden = d.hidden \cup {Mark(c)} /\ e.chat = d.chat /\ e.react = d.react
  BY <1>1 DEF Tables, Db
<1> HIDE DEF e
<1>3. MarksGrow(d, e, c.user) /\ ChatsNumbered(e)
  BY <1>2 DEF MarksGrow, ChatsNumbered, ChatIds
<1>4. QED
  BY <1>2, <1>3 DEF e

-----------------------------------------------------------------------------
(* What a worker knows stays right while others act for other users. *)
LEMMA KnowsKept ==
  ASSUME NEW d, NEW e, NEW u, NEW v, u # v, MarksGrow(d, e, u),
         NEW p, NEW q, Knows(p, q, v, d),
         p = "get_members" => q.type \in Posts,
         q.type = "DELETE_CHAT" => q.chat \in ChatIds(q.room, d)
  PROVE  Knows(p, q, v, e)
<1>1. Reactions(v, q.room, q.chat, e) = Reactions(v, q.room, q.chat, d)
  BY DEF Reactions, MarksGrow
<1>2. ASSUME StoredIn(q, v, d), q.type \in Posts PROVE StoredIn(q, v, e)
  <2>1. CASE q.type = "SEND_CHAT"
    BY <1>2, <2>1 DEF StoredIn, RoomChats, MarksGrow
  <2>2. CASE q.type = "SEND_CHAT_REACT"
    <3> DEFINE x == [room |-> q.room, chat |-> q.chat, type |-> q.react, user |-> v]
    <3>1. x.user # u /\ x \in d.react
      BY <1>2, <2>2 DEF StoredIn
    <3>2. x \in e.react
      BY <3>1 DEF MarksGrow
    <3>3. QED
      BY <2>2, <3>2 DEF StoredIn
  <2>3. CASE q.type = "DELETE_CHAT" /\ q.all
    <3> SUFFICES ASSUME NEW y \in RoomChats(q.room, e), y.id = q.chat PROVE y.deleted
      BY <2>3 DEF StoredIn
    <3>1. y \in e.chat /\ y.room = q.room
      BY DEF RoomChats
    <3>2. y.id \in ChatIds(y.room, d)
      BY <2>3, <3>1
    <3>3. PICK x \in d.chat : x.room = y.room /\ x.id = y.id /\ (x.deleted => y.deleted)
      BY <3>1, <3>2 DEF MarksGrow
    <3>4. x.deleted
      BY <1>2, <2>3, <3>1, <3>3 DEF StoredIn, RoomChats
    <3>5. QED
      BY <3>3, <3>4
  <2>4. CASE q.type = "DELETE_CHAT" /\ ~ q.all
    BY <1>2, <2>4 DEF StoredIn, MarksGrow
  <2>5. QED
    BY <1>2, <2>1, <2>2, <2>3, <2>4 DEF Posts
<1>3. QED
  BY <1>1, <1>2 DEF Knows

(* Two workers that both have a session act for different users. *)
LEMMA ActApart ==
  ASSUME OwnClient, Typed, Connected, SessionsHeld, OnItsSession,
         NEW f \in Fds, NEW g \in Fds \ {f}, work[f].ss # 0, work[g].ss # 0
  PROVE  HisId(f) # HisId(g)
<1>1. PICK b \in Clients : client[b].rpc = f /\ HisId(f) \in Person[b]
  BY DEF SessionsHeld, OnItsSession, HisId
<1>2. PICK c \in Clients : client[c].rpc = g /\ HisId(g) \in Person[c]
  BY DEF SessionsHeld, OnItsSession, HisId
<1>3. b # c
  BY <1>1, <1>2
<1>4. QED
  BY <1>1, <1>2, <1>3 DEF OwnClient

(* Everything about the others is kept by a step of worker f that acts for *)
(* user u on the tables, keeps or appends sessions, and opens connections. *)
LEMMA MarkedKept ==
  ASSUME Typed, Marked, NEW f \in Fds, OthersWait(f),
         NEW u, MarksGrow(db, db', u), ChatsNumbered(db'),
         \A g \in Fds \ {f} : work[g].ss # 0 => HisId(g) # u,
         \A i \in DOMAIN sessions : /\ i \in DOMAIN sessions'
                                    /\ sessions'[i].id = sessions[i].id
                                    /\ sessions'[i].fd = sessions[i].fd,
         \A i \in DOMAIN sessions' : i \notin DOMAIN sessions =>
            /\ sessions'[i].fd = f
            /\ \E c \in Clients : client[c].rpc = f /\ sessions'[i].id \in Person[c],
         \A c \in Clients : client'[c].rpc = client[c].rpc \/ client[c].rpc = NoFd,
         work'[f].req.type = "LOGIN" =>
            \E c \in Clients : client[c].rpc = f /\ work'[f].req.user \in Person[c],
         work'[f].ss # 0 =>
            /\ work'[f].ss \in DOMAIN sessions' /\ sessions'[work'[f].ss].fd = f
            /\ Knows(work'[f].pc, work'[f].req, sessions'[work'[f].ss].id, db'),
         work'[f].req.type = "DELETE_CHAT" =>
            work'[f].req.chat \in ChatIds(work'[f].req.room, db)
  PROVE  Marked'
<1>0. \A g \in Fds : g # NoFd
  BY FdsAssumption DEF NoFd
<1>1. \A i \in DOMAIN sessions : sessions[i].fd \in Fds
  <2>1. sessions \in Seq(SessionRec)
    BY DEF Typed
  <2>2. \A i \in DOMAIN sessions : sessions[i] \in SessionRec
    BY <2>1
  <2>3. QED
    BY <2>2 DEF SessionRec
<1>2. \A g \in Fds : \A c \in Clients : client[c].rpc = g => client'[c].rpc = g
  BY <1>0
<1>3. SessionsHeld'
  <2> SUFFICES ASSUME NEW i \in DOMAIN sessions'
               PROVE  \E c \in Clients : client'[c].rpc = sessions'[i].fd
                                         /\ sessions'[i].id \in Person[c]
    BY DEF SessionsHeld
  <2>1. PICK c \in Clients : client[c].rpc = sessions'[i].fd /\ sessions'[i].id \in Person[c]
    BY DEF Marked, SessionsHeld
  <2>2. sessions'[i].fd # NoFd
    <3>1. CASE i \in DOMAIN sessions
      BY <1>0, <1>1, <3>1
    <3>2. CASE i \notin DOMAIN sessions
      BY <1>0, <3>2
    <3>3. QED
      BY <3>1, <3>2
  <2>3. QED
    BY <2>1, <2>2
<1>4. LoginsHeld'
  BY <1>2 DEF Marked, LoginsHeld, OthersWait
<1>5. OnItsSession'
  BY DEF Marked, OnItsSession, OthersWait
<1>6. \A r : ChatIds(r, db) \subseteq ChatIds(r, db')
  BY DEF ChatIds, MarksGrow
<1>7. ChatKnown'
  <2> SUFFICES ASSUME NEW g \in Fds, work'[g].req.type = "DELETE_CHAT"
               PROVE  work'[g].req.chat \in ChatIds(work'[g].req.room, db')
    BY DEF ChatKnown, ChatIds
  <2>1. work'[g].req.chat \in ChatIds(work'[g].req.room, db)
    BY DEF Marked, ChatKnown, OthersWait
  <2>2. QED
    BY <1>6, <2>1
<1>8. Found'
  <2> SUFFICES ASSUME NEW g \in Fds, work'[g].ss # 0
               PROVE  Knows(work'[g].pc, work'[g].req, sessions'[work'[g].ss].id, db')
    BY DEF Found, HisId, Knows, Reactions, StoredIn, RoomChats
  <2>1. CASE g = f
    BY <2>1
  <2>2. CASE g # f
    <3>1. work'[g] = work[g] /\ work[g].ss # 0
      BY <2>2 DEF OthersWait
    <3>2. work[g].ss \in DOMAIN sessions /\ HisId(g) # u
      BY <2>2, <3>1 DEF Marked, OnItsSession
    <3>3. sessions'[work'[g].ss].id = HisId(g)
      BY <3>1, <3>2 DEF HisId
    <3>4. Knows(work[g].pc, work[g].req, HisId(g), db)
      BY <3>1 DEF Marked, Found
    <3>5. work[g].pc = "get_members" => work[g].req.type \in Posts
      BY DEF Typed, Fits, Suits
    <3>6. work[g].req.type = "DELETE_CHAT" => work[g].req.chat \in ChatIds(work[g].req.room, db)
      BY DEF Marked, ChatKnown
    <3>7. Knows(work[g].pc, work[g].req, HisId(g), db')
      BY <3>2, <3>4, <3>5, <3>6, KnowsKept
    <3>8. QED
      BY <3>1, <3>3, <3>7
  <2>3. QED
    BY <2>1, <2>2
<1>9. ChatsNumbered(db)'
  BY DEF ChatsNumbered, ChatIds
<1>10. QED
  BY <1>3, <1>4, <1>5, <1>7, <1>8, <1>9 DEF Marked

(* The steps at which a worker knows something of the tables. *)
MarkSteps == {"insert_react", "update_react", "get_members"}

(* A step of worker f that leaves messages, reactions and deletions alone, *)
(* keeps its request and session, and is not about to announce a change.   *)
LEMMA PlainKept ==
  ASSUME Typed, Unfreed, Marked, NEW f \in Fds, OthersWait(f), MarksSame(db, db'),
         Len(sessions') = Len(sessions), sessions' \in Seq(SessionRec),
         \A i \in DOMAIN sessions : /\ sessions'[i].id = sessions[i].id
                                    /\ sessions'[i].fd = sessions[i].fd,
         \A c \in Clients : client'[c].rpc = client[c].rpc,
         \/ work'[f].req.type = "none" /\ work'[f].ss = 0
         \/ SameRequest(f),
         work'[f].pc \notin MarkSteps
  PROVE  Marked'
<1>1. MarksGrow(db, db', NoUser) /\ ChatsNumbered(db')
  BY SameGrow DEF Marked
<1>2. DOMAIN sessions' = DOMAIN sessions
  BY DEF Typed
<1>3. \A g \in Fds \ {f} : work[g].ss # 0 => HisId(g) # NoUser
  BY NamesAssumption DEF Marked, OnItsSession, HisId, Unfreed
<1>4. work'[f].req.type = "LOGIN" =>
         \E c \in Clients : client[c].rpc = f /\ work'[f].req.user \in Person[c]
  BY DEF SameRequest, RoomReqs, Marked, LoginsHeld
<1>5. work'[f].req.type = "DELETE_CHAT" => work'[f].req.chat \in ChatIds(work'[f].req.room, db)
  BY DEF SameRequest, RoomReqs, Marked, ChatKnown
<1>6. work'[f].ss # 0 =>
         /\ work'[f].ss \in DOMAIN sessions' /\ sessions'[work'[f].ss].fd = f
         /\ Knows(work'[f].pc, work'[f].req, sessions'[work'[f].ss].id, db')
  BY <1>2 DEF SameRequest, Marked, OnItsSession, MarkSteps, Knows
<1>7. QED
  BY <1>1, <1>2, <1>3, <1>4, <1>5, <1>6, MarkedKept

(* The calls of the other handlers leave them alone. *)
LEMMA OutcomeMarks ==
  ASSUME Typed, NEW c \in ServerCalls, c.name \notin MarkCalls, NEW o \in Outcomes(c)
  PROVE  MarksSame(db, o.db)
<1>1. MarksSame(db, Effect(c, db)) /\ MarksSame(db, db)
  BY EffectMarksSame DEF Typed, MarksSame
<1>2. o.db \in {db, Effect(c, db)}
  BY DEF Outcomes
<1>3. QED
  BY <1>1, <1>2

(* The handlers that neither look for a reaction nor post. *)
LEMMA PlainWork ==
  ASSUME Typed, Unfreed, NEW f \in Fds,
         \/ FindUser(f) \/ InsertUser(f) \/ MatchUser(f) \/ CountToken(f) \/ WriteToken(f)
         \/ (\E u \in Users : Push(f, u)) \/ PushDone(f)
         \/ InsertRoom(f) \/ InsertMembers(f) \/ List(f)
  PROVE  MarksSame(db, db') /\ work'[f].pc \notin MarkSteps
<1>0. work[f].req \in Reqs /\ Fits(work[f]) /\ work[f] \in Worker
  BY DEF Typed, Worker
<1>s. MarksSame(db, db)
  BY DEF MarksSame
<1>2. ASSUME NEW p \in Steps \ MarkSteps, Goto(f, p) PROVE work'[f].pc \notin MarkSteps
  BY <1>2, GotoOnward DEF Typed, Onward
<1>3. ASSUME NEW s \in Statuses, Reply(f, s) PROVE work'[f].pc \notin MarkSteps
  BY <1>3, ReplyOnward DEF Typed, Onward, MarkSteps
<1>4. ASSUME Finish(f) PROVE work'[f].pc \notin MarkSteps
  BY <1>4, FinishIdle DEF Typed, Idle, MarkSteps
<1>5. CASE FindUser(f) \/ MatchUser(f)
  BY <1>s, <1>2, <1>3, <1>5 DEF FindUser, MatchUser, Steps, MarkSteps, Statuses
<1>6. CASE CountToken(f)
  <2>1. UNCHANGED db /\ (Reply(f, "NoToken") \/ Goto(f, "insert_token") \/ Goto(f, "update_token"))
    BY <1>6 DEF CountToken
  <2>2. QED
    BY <1>s, <1>2, <1>3, <2>1 DEF Steps, MarkSteps, Statuses
<1>7. CASE PushDone(f)
  BY <1>s, <1>4, <1>7 DEF PushDone
<1>8. ASSUME NEW u \in Users, Push(f, u) PROVE MarksSame(db, db') /\ work'[f].pc \notin MarkSteps
  <2>1. UNCHANGED db /\ At(f, "push")
    BY <1>8 DEF Push
  <2>2. \/ Finish(f) \/ Reply(f, "ERROR") \/ work' = [work EXCEPT ![f].rows = @ \ {u}]
    BY <1>8 DEF Push
  <2>3. work' = [work EXCEPT ![f].rows = @ \ {u}] => work'[f].pc = "push"
    BY <1>0, <2>1 DEF At, Typed, Worker
  <2>4. QED
    BY <1>s, <1>3, <1>4, <2>1, <2>2, <2>3 DEF MarkSteps, Statuses
<1>9. CASE InsertUser(f)
  <2> DEFINE c == [name |-> "insert_user", user |-> work[f].req.user, pwd |-> work[f].req.pwd]
  <2>1. c \in ServerCalls /\ c.name \notin MarkCalls
    BY <1>0, <1>9, ReqFields DEF InsertUser, At, Fits, Suits, ServerCalls, SinglePwd, MarkCalls
  <2>2. Reply(f, "OK") /\ (UNCHANGED db \/ \E o \in Outcomes(c) : db' = o.db)
    BY <1>9 DEF InsertUser
  <2>3. QED
    BY <1>s, <1>3, <2>1, <2>2, OutcomeMarks DEF Statuses
<1>10. CASE WriteToken(f)
  <2> DEFINE c == [name |-> work[f].pc, user |-> work[f].req.user]
  <2>1. c \in ServerCalls /\ c.name \notin MarkCalls
    BY <1>0, <1>10, ReqFields
       DEF WriteToken, At, Fits, Suits, LoginSteps, ServerCalls, SingleUser, MarkCalls
  <2>2. Goto(f, "add_session") /\ \E o \in Outcomes(c) : db' = o.db
    BY <1>10 DEF WriteToken
  <2>3. QED
    BY <1>2, <2>1, <2>2, OutcomeMarks DEF Steps, MarkSteps
<1>11. CASE InsertRoom(f)
  <2> DEFINE c == [name |-> "insert_room"]
  <2>1. c \in ServerCalls /\ c.name \notin MarkCalls
    BY DEF ServerCalls, MarkCalls
  <2>2. PICK o \in Outcomes(c) :
           /\ db' = o.db
           /\ IF Empty(o) THEN Reply(f, "OK")
              ELSE work' = [work EXCEPT ![f].pc = "insert_members",
                               ![f].req.room = CHOOSE n \in o.res.rows : TRUE]
    BY <1>11 DEF InsertRoom
  <2>3. ASSUME NEW n, work' = [work EXCEPT ![f].pc = "insert_members", ![f].req.room = n]
        PROVE  work'[f].pc \notin MarkSteps
    BY <1>0, <2>3 DEF Typed, Worker, MarkSteps
  <2>4. QED
    BY <1>3, <2>1, <2>2, <2>3, OutcomeMarks DEF Statuses
<1>12. CASE InsertMembers(f)
  <2> DEFINE c == [name |-> "insert_members", room |-> work[f].req.room, users |-> work[f].req.users]
  <2>1. c \in ServerCalls /\ c.name \notin MarkCalls
    BY <1>0, <1>12, ReqFields DEF InsertMembers, At, Fits, Suits, ServerCalls, RoomReqs, MarkCalls
  <2>2. Reply(f, "OK") /\ (UNCHANGED db \/ \E o \in Outcomes(c) : db' = o.db)
    BY <1>12 DEF InsertMembers
  <2>3. QED
    BY <1>s, <1>3, <2>1, <2>2, OutcomeMarks DEF Statuses
<1>13. CASE List(f)
  <2>1. PICK u \in UserIds(f) : \E o \in Outcomes(ListCall(f, u)) : db' = o.db
    BY <1>13 DEF List
  <2>2. work[f].req.type \in NeedsSession /\ work[f].pc # "reply"
    BY <1>0, <1>13 DEF List, Fits, Suits, NeedsSession
  <2>3. u \in Users
    BY <2>2, HisIds
  <2>4. ListCall(f, u) \in ServerCalls /\ ListCall(f, u).name \notin MarkCalls
    <3>1. CASE At(f, "room_list")
      BY <2>3, <3>1 DEF ListCall, ServerCalls, SingleUser, MarkCalls
    <3>2. CASE ~ At(f, "room_list")
      <4>1. work[f].req.room \in Rooms
        BY <1>0, <1>13, <3>2, ReqFields DEF List, At, Fits, Suits
      <4>2. QED
        BY <2>3, <3>2, <4>1 DEF ListCall, ServerCalls, MultiRoomUser, MarkCalls
    <3>3. QED
      BY <3>1, <3>2
  <2>5. MarksSame(db, db')
    BY <2>1, <2>4, OutcomeMarks
  <2>6. QED
    BY <1>3, <1>13, <2>5 DEF List, Statuses
<1>14. QED
  BY <1>5, <1>6, <1>7, <1>8, <1>9, <1>10, <1>11, <1>12, <1>13

-----------------------------------------------------------------------------
(* The handlers of reactions, messages and deletions.                      *)

(* Whom such a worker acts for. *)
LEMMA ActsFor ==
  ASSUME Typed, Unfreed, NEW f \in Fds, work[f].req.type \in NeedsSession, work[f].pc # "reply"
  PROVE  /\ work[f].ss # 0 /\ work[f].ss \in DOMAIN sessions
         /\ HisId(f) \in Users /\ UserIds(f) = {HisId(f)}
<1>1. work[f].ss \in DOMAIN sessions /\ work[f].ss # 0
  BY HisSession DEF Typed, Fits, Suits
<1>2. HisId(f) \in Users
  BY <1>1 DEF Unfreed, HisId
<1>3. QED
  BY <1>1, <1>2, NamesAssumption DEF UserIds, HisId

(* Looking for a reaction tells whether there is one. *)
LEMMA MarkedFindReact ==
  ASSUME ~ DbFaulty, Typed, Unfreed, Marked, NEW f \in Fds, FindReact(f)
  PROVE  Marked'
<1> DEFINE q == work[f].req
           u == HisId(f)
           c == [name |-> "find_react", room |-> q.room, user |-> u, chat |-> q.chat,
                 type |-> q.react]
           R == Reactions(u, q.room, q.chat, db)
<1>1. /\ work[f].pc = "find_react" /\ q.type = "SEND_CHAT_REACT" /\ q \in Reqs
      /\ q.type \in NeedsSession
  BY DEF FindReact, At, Typed, Fits, Suits, NeedsSession, Worker
<1>2. work[f].ss # 0 /\ work[f].ss \in DOMAIN sessions /\ u \in Users /\ UserIds(f) = {u}
  BY <1>1, ActsFor
<1>3. q.room \in Rooms /\ q.chat \in Nat /\ q.react \in Reacts
  BY <1>1, ReqFields DEF Posts
<1> HIDE DEF u
<1>4. c \in ServerCalls /\ c.name \notin MarkCalls /\ PostCall(f, u) = c
  BY <1>1, <1>2, <1>3 DEF ServerCalls, SingleReact, MarkCalls, PostCall
<1>5. MarksSame(db, Effect(c, db))
  BY <1>4, EffectMarksSame DEF Typed
<1>6. Answer(c, Effect(c, db)) = Result(R)
  <2>1. Answer(c, Effect(c, db)) = Result(Reactions(u, q.room, q.chat, Effect(c, db)))
    BY DEF Answer, Select
  <2>2. QED
    BY <1>5, <2>1 DEF Reactions, MarksSame
<1>7. Outcomes(PostCall(f, u)) = {[db |-> Effect(c, db), res |-> Result(R)]}
  BY <1>4, <1>6 DEF Outcomes
<1>8. PICK o \in Outcomes(PostCall(f, u)) :
         Goto(f, IF o.res.null THEN "get_members"
                 ELSE IF Empty(o) THEN "insert_react" ELSE "update_react")
  BY <1>2 DEF FindReact
<1> DEFINE p == IF R = {} THEN "insert_react" ELSE "update_react"
<1>9. Goto(f, p)
  BY <1>7, <1>8 DEF Result, Empty
<1>10. Onward(f, p)
  BY <1>9, GotoOnward DEF Typed, Steps
<1>11. UNCHANGED <<db, sessions, client>>
  BY DEF FindReact
<1>12. Knows(p, q, u, db)
  BY DEF Knows
<1> HIDE DEF p, q
<1>13. /\ work'[f].pc = p /\ work'[f].req = q /\ work'[f].ss = work[f].ss
       /\ OthersWait(f) /\ q.type = "SEND_CHAT_REACT"
  BY <1>1, <1>10 DEF Onward, q
<1>14. MarksGrow(db, db', NoUser) /\ ChatsNumbered(db')
  BY <1>11, SameGrow DEF Marked, MarksSame
<1>15. \A g \in Fds \ {f} : work[g].ss # 0 => HisId(g) # NoUser
  BY NamesAssumption DEF Marked, OnItsSession, HisId, Unfreed
<1>16. work'[f].ss \in DOMAIN sessions' /\ sessions'[work'[f].ss].fd = f
  BY <1>2, <1>11, <1>13 DEF Marked, OnItsSession
<1>17. Knows(work'[f].pc, work'[f].req, sessions'[work'[f].ss].id, db')
  BY <1>11, <1>12, <1>13 DEF u, HisId
<1>18. QED
  BY <1>11, <1>13, <1>14, <1>15, <1>16, <1>17, MarkedKept

(* What a post does to the tables, and that it is stored then. *)
LEMMA PostMarks ==
  ASSUME ~ DbFaulty, Typed, Unfreed, Marked, NEW f \in Fds, Post(f)
  PROVE  /\ MarksGrow(db, db', HisId(f)) /\ ChatsNumbered(db')
         /\ StoredIn(work[f].req, HisId(f), db')
<1> DEFINE q == work[f].req
           u == HisId(f)
           c == PostCall(f, u)
<1>1. /\ work[f].pc \in {"insert_chat", "insert_react", "update_react", "delete"}
      /\ work[f].pc = "insert_chat" => q.type = "SEND_CHAT"
      /\ work[f].pc \in {"insert_react", "update_react"} => q.type = "SEND_CHAT_REACT"
      /\ work[f].pc = "delete" => q.type = "DELETE_CHAT"
  BY DEF Post, Typed, Fits, Suits
<1>2. work[f].ss # 0 /\ u \in Users /\ UserIds(f) = {u}
  BY <1>1, ActsFor DEF NeedsSession
<1>3. Knows(work[f].pc, q, u, db)
  BY <1>2 DEF Marked, Found
<1>4. c \in ServerCalls
  BY <1>1, <1>2, PostCallTyped
<1>5. db' = Effect(c, db)
  <2>1. Outcomes(c) = {[db |-> Effect(c, db), res |-> Answer(c, Effect(c, db))]}
    BY DEF Outcomes
  <2>2. QED
    BY <1>2, <2>1 DEF Post
<1>6. Tables(db) /\ ChatsNumbered(db)
  BY DEF Typed, Marked
<1> HIDE DEF u
<1>7. CASE q.type = "SEND_CHAT"
  <2>1. c.name = "insert_chat" /\ c.user = u /\ c.room = q.room
    BY <1>7 DEF PostCall
  <2>2. QED
    BY <1>4, <1>5, <1>6, <1>7, <2>1, InsertChatMarks DEF StoredIn, u
<1>8. CASE q.type = "SEND_CHAT_REACT"
  <2>1. /\ c.name = work[f].pc /\ c.name \in {"insert_react", "update_react"}
        /\ c.user = u /\ c.room = q.room /\ c.chat = q.chat /\ c.type = q.react
    BY <1>1, <1>8 DEF PostCall
  <2> HIDE DEF c
  <2>2. NewReaction(c) \in db'.react => StoredIn(q, u, db')
    BY <1>8, <2>1 DEF NewReaction, StoredIn
  <2>3. CASE c.name = "insert_react"
    <3>1. Reactions(c.user, c.room, c.chat, db) = {}
      BY <1>3, <2>1, <2>3 DEF Knows
    <3>2. QED
      BY <1>4, <1>5, <1>6, <2>1, <2>2, <2>3, <3>1, InsertReactMarks DEF u
  <2>4. CASE c.name = "update_react"
    <3>1. Reactions(c.user, c.room, c.chat, db) # {}
      BY <1>3, <2>1, <2>4 DEF Knows
    <3>2. QED
      BY <1>4, <1>5, <1>6, <2>1, <2>2, <2>4, <3>1, UpdateReactMarks DEF u
  <2>5. QED
    BY <2>1, <2>3, <2>4
<1>9. CASE q.type = "DELETE_CHAT"
  <2>1. /\ c.name = IF q.all THEN "delete_all" ELSE "delete_self"
        /\ c.user = u /\ c.room = q.room /\ c.chat = q.chat
    BY <1>9 DEF PostCall
  <2> HIDE DEF c
  <2>2. CASE q.all
    BY <1>4, <1>5, <1>6, <1>9, <2>1, <2>2, DeleteAllMarks DEF StoredIn, u
  <2>3. CASE ~ q.all
    <3>1. Mark(c) \in db'.hidden => StoredIn(q, u, db')
      BY <1>9, <2>1, <2>3 DEF Mark, StoredIn
    <3>2. QED
      BY <1>4, <1>5, <1>6, <2>1, <2>3, <3>1, DeleteSelfMarks DEF u
  <2>4. QED
    BY <2>2, <2>3
<1>10. QED
  BY <1>1, <1>7, <1>8, <1>9

(* After a post the change is stored; the others act for other users. *)
LEMMA MarkedPost ==
  ASSUME ~ DbFaulty, OwnClient, Typed, Connected, Unfreed, Marked, NEW f \in Fds, Post(f)
  PROVE  Marked'
<1>1. /\ work[f].pc # "reply" /\ work[f].req.type \in NeedsSession
  BY DEF Post, Typed, Fits, Suits, NeedsSession
<1>2. work[f].ss # 0 /\ work[f].ss \in DOMAIN sessions
  BY <1>1, ActsFor
<1>3. Onward(f, "get_members") /\ UNCHANGED <<sessions, client>>
  BY GotoOnward DEF Post, Typed, Steps
<1>4. /\ MarksGrow(db, db', HisId(f)) /\ ChatsNumbered(db')
      /\ StoredIn(work[f].req, HisId(f), db')
  BY PostMarks
<1>5. \A g \in Fds \ {f} : work[g].ss # 0 => HisId(g) # HisId(f)
  BY <1>2, ActApart DEF Marked
<1>6. /\ work'[f].pc = "get_members" /\ work'[f].req = work[f].req
      /\ work'[f].ss = work[f].ss /\ OthersWait(f)
  BY <1>3 DEF Onward
<1>7. work'[f].ss \in DOMAIN sessions' /\ sessions'[work'[f].ss].fd = f
  BY <1>2, <1>3, <1>6 DEF Marked, OnItsSession
<1>8. Knows(work'[f].pc, work'[f].req, sessions'[work'[f].ss].id, db')
  BY <1>3, <1>4, <1>6 DEF HisId, Knows
<1>9. work'[f].req.type \notin {"LOGIN"} /\ (work'[f].req.type = "DELETE_CHAT" =>
         work'[f].req.chat \in ChatIds(work'[f].req.room, db))
  BY <1>1, <1>6 DEF Marked, ChatKnown, NeedsSession
<1>10. QED
  BY <1>3, <1>4, <1>5, <1>6, <1>7, <1>8, <1>9, MarkedKept
-----------------------------------------------------------------------------
(* The other steps.                                                        *)

(* A login is sent on the connection for requests of a client, by its      *)
(* person; a message that is deleted is one the client sees in the room.   *)
LEMMA RequestMarks ==
  ASSUME Typed, NEW c \in Clients, NEW f \in Fds, f \in {client[c].rpc, client[c].sse},
         NEW q \in Requests(c, f)
  PROVE  /\ q.type = "LOGIN" => client[c].rpc = f /\ q.user \in Person[c]
         /\ q.type = "DELETE_CHAT" => q.chat \in ChatIds(q.room, db)
<1>1. CASE f = client[c].sse
  <2>1. q.type = "SSE_CONNECT"
    BY <1>1, RequestSide
  <2>2. QED
    BY <2>1
<1>2. CASE f # client[c].sse
  <2>1. \/ client[c].user = NoUser /\ q \in LoginPage(c)
        \/ q \in ServicePage(client[c].user)
    BY <1>2 DEF Requests
  <2>2. CASE q \in LoginPage(c)
    BY <1>2, <2>2 DEF LoginPage
  <2>3. ASSUME NEW r, q \in RoomPage(r)
        PROVE  q.type # "LOGIN" /\ (q.type = "DELETE_CHAT" => q.chat \in ChatIds(q.room, db))
    BY <2>3 DEF RoomPage
  <2>4. CASE q \in ServicePage(client[c].user)
    <3>1. CASE \E r \in HisRooms(client[c].user) : q \in RoomPage(r)
      BY <2>3, <3>1
    <3>2. CASE q \in [type : {"UPDATE_ROOM_LIST", "Search_User"}] \/ q \in NewRooms
      BY <3>2 DEF NewRooms
    <3>3. QED
      BY <2>4, <3>1, <3>2, PageParts
  <2>5. QED
    BY <2>1, <2>2, <2>4
<1>3. QED
  BY <1>1, <1>2

(* A handler does not start in the middle. *)
LEMMA ReceiveFirst ==
  ASSUME Typed, NEW f \in Fds, Receive(f)
  PROVE  work'[f].pc \notin MarkSteps
<1>1. PICK c \in Ends(f) : \E q \in Requests(c, f) :
         work' = [work EXCEPT ![f] =
               IF q.type \in NeedsSession /\ FindByFd(f) = 0
               THEN [Idle EXCEPT !.pc = "reply", !.req = q,
                                 !.answer = "Session_Not_Found"]
               ELSE [Idle EXCEPT !.pc = FirstStep[q.type], !.req = q,
                                 !.ss = FindByFd(f)]]
  BY DEF Receive
<1>2. PICK q \in Requests(c, f) :
         work' = [work EXCEPT ![f] =
               IF q.type \in NeedsSession /\ FindByFd(f) = 0
               THEN [Idle EXCEPT !.pc = "reply", !.req = q,
                                 !.answer = "Session_Not_Found"]
               ELSE [Idle EXCEPT !.pc = FirstStep[q.type], !.req = q,
                                 !.ss = FindByFd(f)]]
  BY <1>1
<1>3. c \in Clients
  BY DEF Ends
<1>4. q \in Reqs /\ q.type # "none"
  BY <1>3, RequestTyped
<1>5. FirstStep[q.type] \notin MarkSteps
  <2>1. q.type \in {"SIGNUP", "LOGIN", "SSE_CONNECT", "UPDATE_CHAT_LIST",
                    "UPDATE_ROOM_LIST", "Search_User", "CREATE_ROOM"} \cup Posts
    BY <1>4, ReqFields
  <2>2. QED
    BY <2>1 DEF FirstStep, MarkSteps, Posts
<1>6. work'[f].pc \in {"reply", FirstStep[q.type]}
  <2>1. \/ work'[f] = [Idle EXCEPT !.pc = "reply", !.req = q, !.answer = "Session_Not_Found"]
        \/ work'[f] = [Idle EXCEPT !.pc = FirstStep[q.type], !.req = q, !.ss = FindByFd(f)]
    BY <1>2 DEF Typed
  <2>2. QED
    BY <2>1 DEF Idle
<1>7. QED
  BY <1>5, <1>6 DEF MarkSteps

(* A request is taken, with a session of its own connection or with none. *)
LEMMA MarkedReceive ==
  ASSUME Typed, Connected, Unfreed, Marked, NEW f \in Fds, Receive(f)
  PROVE  Marked'
<1>1. UNCHANGED <<db, sessions>> /\ OthersWait(f)
  BY ReceiveTakes
<1>2. PICK c \in Ends(f) : \E q \in Requests(c, f) :
         work'[f].req = q /\ work'[f].ss \in {0, FindByFd(f)}
  BY ReceiveTakes
<1>3. PICK q \in Requests(c, f) : work'[f].req = q /\ work'[f].ss \in {0, FindByFd(f)}
  BY <1>2
<1>4. c \in Clients /\ f \in {client[c].rpc, client[c].sse}
  BY DEF Ends
<1>5. /\ q.type = "LOGIN" => client[c].rpc = f /\ q.user \in Person[c]
      /\ q.type = "DELETE_CHAT" => q.chat \in ChatIds(q.room, db)
  BY <1>4, RequestMarks
<1>6. work'[f].pc \notin MarkSteps
  BY ReceiveFirst
<1>7. work'[f].ss # 0 => work'[f].ss \in DOMAIN sessions /\ sessions[work'[f].ss].fd = f
  BY <1>3, FindTyped DEF Typed
<1>8. \A b \in Clients : client'[b].rpc = client[b].rpc
  BY ReceiveAt
<1>9. MarksGrow(db, db', NoUser) /\ ChatsNumbered(db')
  BY <1>1, SameGrow DEF Marked, MarksSame
<1>10. \A g \in Fds \ {f} : work[g].ss # 0 => HisId(g) # NoUser
  BY NamesAssumption DEF Marked, OnItsSession, HisId, Unfreed
<1>11. Knows(work'[f].pc, work'[f].req, sessions'[work'[f].ss].id, db')
  BY <1>6 DEF Knows, MarkSteps
<1>12. QED
  BY <1>1, <1>3, <1>4, <1>5, <1>7, <1>8, <1>9, <1>10, <1>11, MarkedKept

(* A session is added for the login that is under way on the connection. *)
LEMMA MarkedAddSession ==
  ASSUME Typed, Unfreed, Marked, NEW f \in Fds, AddSession(f)
  PROVE  Marked'
<1> DEFINE s == [id |-> work[f].req.user, fd |-> f, sse |-> NoFd]
<1>1. /\ UNCHANGED <<db, client>> /\ Onward(f, "reply") /\ work[f].req.type = "LOGIN"
      /\ sessions' = Append(sessions, s)
  BY AddSessionTakes
<1>2. PICK c \in Clients : client[c].rpc = f /\ work[f].req.user \in Person[c]
  BY <1>1 DEF Marked, LoginsHeld
<1>3. sessions \in Seq(SessionRec)
  BY DEF Typed
<1>4. s.id = work[f].req.user /\ s.fd = f
  OBVIOUS
<1> HIDE DEF s
<1>5. /\ \A i \in DOMAIN sessions : i \in DOMAIN sessions' /\ sessions'[i] = sessions[i]
      /\ \A i \in DOMAIN sessions' : i \notin DOMAIN sessions => sessions'[i] = s
  BY <1>1, <1>3
<1>6. /\ work'[f].pc = "reply" /\ work'[f].req = work[f].req /\ work'[f].ss = work[f].ss
      /\ OthersWait(f)
  BY <1>1 DEF Onward
<1>7. MarksGrow(db, db', NoUser) /\ ChatsNumbered(db')
  BY <1>1, SameGrow DEF Marked, MarksSame
<1>8. \A g \in Fds \ {f} : work[g].ss # 0 => HisId(g) # NoUser
  BY NamesAssumption DEF Marked, OnItsSession, HisId, Unfreed
<1>9. work'[f].ss # 0 =>
         /\ work'[f].ss \in DOMAIN sessions' /\ sessions'[work'[f].ss].fd = f
         /\ Knows(work'[f].pc, work'[f].req, sessions'[work'[f].ss].id, db')
  BY <1>5, <1>6 DEF Marked, OnItsSession, Knows
<1>10. work'[f].req.type # "DELETE_CHAT"
  BY <1>1, <1>6
<1>11. \A i \in DOMAIN sessions : /\ i \in DOMAIN sessions'
                                  /\ sessions'[i].id = sessions[i].id
                                  /\ sessions'[i].fd = sessions[i].fd
  BY <1>5
<1>12. \A i \in DOMAIN sessions' : i \notin DOMAIN sessions =>
          /\ sessions'[i].fd = f
          /\ \E b \in Clients : client[b].rpc = f /\ sessions'[i].id \in Person[b]
  BY <1>2, <1>4, <1>5
<1>13. \E b \in Clients : client[b].rpc = f /\ work'[f].req.user \in Person[b]
  BY <1>2, <1>6
<1>14. \A b \in Clients : client'[b].rpc = client[b].rpc
  BY <1>1
<1>15. QED
  BY <1>6, <1>7, <1>8, <1>9, <1>10, <1>11, <1>12, <1>13, <1>14, MarkedKept

(* A worker that has nothing before it. *)
LEMMA MarkedIdle ==
  ASSUME Typed, Unfreed, Marked, NEW f \in Fds, OthersWait(f), UNCHANGED <<db, sessions>>,
         work'[f] = Idle,
         \A c \in Clients : client'[c].rpc = client[c].rpc \/ client[c].rpc = NoFd
  PROVE  Marked'
<1>1. work'[f].req.type = "none" /\ work'[f].ss = 0
  BY DEF Idle, NoReq
<1>2. MarksGrow(db, db', NoUser) /\ ChatsNumbered(db')
  BY SameGrow DEF Marked, MarksSame
<1>3. \A g \in Fds \ {f} : work[g].ss # 0 => HisId(g) # NoUser
  BY NamesAssumption DEF Marked, OnItsSession, HisId, Unfreed
<1>4. QED
  BY <1>1, <1>2, <1>3, MarkedKept

(* The handlers that look for no reaction and post nothing keep their      *)
(* request, or are done with it.                                           *)
LEMMA MarkedWork ==
  ASSUME Typed, Unfreed, Marked, NEW f \in Fds, Advances(f),
         MarksSame(db, db'), work'[f].pc \notin MarkSteps
  PROVE  Marked'
<1>1. UNCHANGED sessions /\ OthersWait(f) /\ (work'[f] = Idle \/ SameRequest(f))
  BY DEF Advances
<1>2. Idle.req.type = "none" /\ Idle.ss = 0
  BY DEF Idle, NoReq
<1>3. \A c \in Clients : client'[c].rpc = client[c].rpc
  BY DEF Advances, SameEnds
<1>4. sessions' \in Seq(SessionRec) /\ Len(sessions') = Len(sessions)
  BY <1>1 DEF Typed
<1>5. QED
  BY <1>1, <1>2, <1>3, <1>4, PlainKept

(* A registration changes where pushes of a session go to. *)
LEMMA MarkedRegister ==
  ASSUME Typed, Unfreed, Marked, NEW f \in Fds, Register(f)
  PROVE  Marked'
<1>0. sessions \in Seq(SessionRec) /\ work \in [Fds -> Worker]
  BY DEF Typed
<1>1. UNCHANGED <<db, client>>
  BY RegisterTakes
<1>2. CASE Finish(f) /\ UNCHANGED sessions
  BY <1>0, <1>1, <1>2, FinishIdle, MarkedIdle
<1>3. CASE Onward(f, "reply") /\ \E i \in FindById(work[f].req.user) :
              i \in DOMAIN sessions /\ sessions' = [sessions EXCEPT ![i].sse = f]
  <2>1. /\ sessions' \in Seq(SessionRec) /\ Len(sessions') = Len(sessions)
        /\ \A j \in DOMAIN sessions : /\ sessions'[j].fd = sessions[j].fd
                                      /\ sessions'[j].id = sessions[j].id
    BY <1>0, <1>3, SseSet
  <2>2. OthersWait(f) /\ SameRequest(f) /\ work'[f].pc \notin MarkSteps
    BY <1>3 DEF Onward, SameRequest, MarkSteps
  <2>3. MarksSame(db, db')
    BY <1>1 DEF MarksSame
  <2>4. QED
    BY <1>1, <2>1, <2>2, <2>3, PlainKept
<1>4. QED
  BY <1>2, <1>3, RegisterTakes

(* An answer changes what a client knows, not its connections. *)
LEMMA MarkedSendReply ==
  ASSUME Typed, Unfreed, Marked, NEW f \in Fds, SendReply(f)
  PROVE  Marked'
<1>1. UNCHANGED <<db, sessions>> /\ OthersWait(f) /\ work'[f] = Idle
  BY AnswerTakes
<1>2. ASSUME NEW c, client' = LoginAnswered(c, f) \/ client' = SseAnswered(c)
      PROVE  \A b \in Clients : client'[b].rpc = client[b].rpc
  <2>1. \A b \in Clients : client[b] \in ClientRec
    BY DEF Typed
  <2>2. CASE client' = LoginAnswered(c, f)
    BY <2>1, <2>2 DEF LoginAnswered, Typed, ClientRec
  <2>3. CASE client' = SseAnswered(c)
    BY <2>1, <2>3 DEF SseAnswered, Typed, ClientRec
  <2>4. QED
    BY <1>2, <2>2, <2>3
<1>3. \A b \in Clients : client'[b].rpc = client[b].rpc
  BY <1>2, AnswerTakes
<1>4. QED
  BY <1>1, <1>3, MarkedIdle

(* A client opens a connection: its first one it had not before. *)
LEMMA MarkedAccept ==
  ASSUME Typed, Unfreed, Marked, NEW c \in Clients, Accept(c)
  PROVE  Marked'
<1>1. PICK g \in Fds :
          /\ work'[g] = Idle /\ OthersWait(g)
          /\ UNCHANGED <<up, db, sessions, history>>
          /\ \/ client[c].rpc = NoFd /\ client' = [client EXCEPT ![c].rpc = g]
             \/ /\ client[c].rpc # NoFd /\ client[c].sse = NoFd
                /\ client' = [client EXCEPT ![c].sse = g]
  BY AcceptTakes
<1>2. \A b \in Clients : client[b] \in ClientRec
  BY DEF Typed
<1>3. \A b \in Clients : client'[b].rpc = client[b].rpc \/ client[b].rpc = NoFd
  BY <1>1, <1>2 DEF Typed, ClientRec
<1>4. QED
  BY <1>1, <1>3, MarkedIdle

(* Nobody is connected: there is nothing to be known but the numbers of    *)
(* the messages.                                                           *)
LEMMA MarkedEmpty ==
  ASSUME Marked, GoesDown
  PROVE  Marked'
<1>1. sessions' = <<>> /\ work' = [f \in Fds |-> Closed] /\ UNCHANGED db
  BY DEF GoesDown, Crash
<1>2. Closed.req.type = "none" /\ Closed.ss = 0
  BY DEF Closed, Idle, NoReq
<1>3. \A f \in Fds : work'[f].req.type = "none" /\ work'[f].ss = 0
  BY <1>1, <1>2
<1>4. SessionsHeld' /\ LoginsHeld' /\ OnItsSession' /\ ChatKnown' /\ Found'
  BY <1>1, <1>3 DEF SessionsHeld, LoginsHeld, OnItsSession, ChatKnown, Found
<1>5. ChatsNumbered(db)'
  BY <1>1 DEF Marked, ChatsNumbered, ChatIds
<1>6. QED
  BY <1>4, <1>5 DEF Marked

(* Every step keeps all of it. *)
LEMMA MarkedStep ==
  Quietly /\ OwnClient /\ Typed /\ Connected /\ Unfreed /\ Marked /\ [Next]_vars => Marked'
<1> SUFFICES ASSUME Quietly, OwnClient, Typed, Connected, Unfreed, Marked, [Next]_vars
             PROVE  Marked'
  OBVIOUS
<1>0. NoSearch /\ ~ DbFaulty /\ ~ Leaving
  BY DEF Quietly
<1>1. ASSUME UNCHANGED <<db, sessions, work, client>> PROVE Marked'
  <2>1. SessionsHeld' /\ LoginsHeld' /\ OnItsSession'
    BY <1>1 DEF Marked, SessionsHeld, LoginsHeld, OnItsSession
  <2>2. ChatKnown' /\ ChatsNumbered(db)'
    BY <1>1 DEF Marked, ChatKnown, ChatsNumbered, ChatIds
  <2>3. Found'
    BY <1>1 DEF Marked, Found, HisId, Knows, StoredIn, Reactions, RoomChats
  <2>4. QED
    BY <2>1, <2>2, <2>3 DEF Marked
<1>2. CASE UNCHANGED vars
  BY <1>1, <1>2 DEF vars
<1>3. CASE Boot
  BY <1>1, <1>3 DEF Boot
<1>4. ASSUME NEW c \in Clients, Accept(c) \/ Leave(c) PROVE Marked'
  BY <1>0, <1>4, MarkedAccept DEF Leave
<1>5. ASSUME NEW f \in Fds, Receive(f) PROVE Marked'
  BY <1>5, MarkedReceive
<1>6. ASSUME NEW f \in Fds, Work(f) PROVE Marked'
  <2>1. CASE BrokenPipe(f)
    BY <2>1, MarkedEmpty DEF BrokenPipe, GoesDown
  <2>2. CASE SearchUser(f) \/ FreeId(f)
    BY <2>2 DEF SearchUser, FreeId, At, Typed, Fits, Suits, Unfreed
  <2>3. CASE Close(f)
    <3>1. UNCHANGED <<db, sessions, client>> /\ OthersWait(f) /\ work'[f] = Closed
      BY <2>3 DEF Close, OthersWait, Typed
    <3>2. Closed.req.type = "none" /\ Closed.ss = 0 /\ Closed.pc \notin MarkSteps
      BY DEF Closed, Idle, NoReq, MarkSteps
    <3>3. MarksSame(db, db') /\ sessions' \in Seq(SessionRec) /\ Len(sessions') = Len(sessions)
      BY <3>1 DEF MarksSame, Typed
    <3>4. QED
      BY <3>1, <3>2, <3>3, PlainKept
  <2>4. CASE SendReply(f) \/ AddSession(f) \/ Register(f)
    BY <2>4, MarkedSendReply, MarkedAddSession, MarkedRegister
  <2>5. CASE FindReact(f) \/ Post(f)
    BY <1>0, <2>5, MarkedFindReact, MarkedPost
  <2>6. CASE GetMembers(f)
    <3>1. UNCHANGED db /\ At(f, "get_members")
      BY <2>6 DEF GetMembers
    <3>2. CASE GoesDown
      BY <3>2, MarkedEmpty
    <3>3. CASE ~ GoesDown
      <4>1. Advances(f) /\ work'[f].pc = "push"
        BY <2>6, <3>1, <3>3, GetMembersAdvances, GetMembersQuiet DEF Quiet
      <4>2. QED
        BY <3>1, <4>1, MarkedWork DEF MarksSame, MarkSteps
    <3>4. QED
      BY <3>2, <3>3
  <2>7. CASE FindUser(f) \/ InsertUser(f) \/ MatchUser(f) \/ CountToken(f) \/ WriteToken(f)
    BY <2>7, PlainWork, MarkedWork, FindUserAdvances, InsertUserAdvances, MatchUserAdvances,
       CountTokenAdvances, WriteTokenAdvances
  <2>8. CASE (\E u \in Users : Push(f, u)) \/ PushDone(f)
    BY <2>8, PlainWork, MarkedWork, PushAdvances, PushDoneAdvances
  <2>9. CASE InsertRoom(f) \/ InsertMembers(f) \/ List(f)
    BY <2>9, PlainWork, MarkedWork, InsertRoomAdvances, InsertMembersAdvances, ListAdvances
  <2>10. QED
    BY <1>6, <2>1, <2>2, <2>3, <2>4, <2>5, <2>6, <2>7, <2>8, <2>9, Zenon DEF Work
<1>7. QED
  BY <1>2, <1>3, <1>4, <1>5, <1>6 DEF Next

(* As long as no call fails, nobody leaves, nobody searches for users and  *)
(* everybody has one client, and the messages the server was started with  *)
(* are numbered: before the members of a room are told of a change, the    *)
(* message, the chosen reaction or the deletion is in the tables for the   *)
(* user of the session, whatever the other workers do in between.          *)
THEOREM ChangesStored ==
  Quietly /\ OwnClient /\ ChatsNumbered(InitDb) => (Spec => []ChangeStored)
<1> SUFFICES ASSUME Quietly, OwnClient, ChatsNumbered(InitDb) PROVE Spec => []ChangeStored
  OBVIOUS
<1>1. Typed /\ Connected /\ Unfreed /\ Marked /\ [Next]_vars => Unfreed' /\ Marked'
  <2> SUFFICES ASSUME Typed, Connected, Unfreed, Marked, [Next]_vars PROVE Unfreed' /\ Marked'
    OBVIOUS
  <2>1. Marked'
    BY MarkedStep
  <2>2. Unfreed'
    <3>1. CASE UNCHANGED vars
      BY <3>1 DEF vars, Unfreed
    <3>2. QED
      BY <3>1, UnfreedStep DEF Quietly
  <2>3. QED
    BY <2>1, <2>2
<1>2. Init => Unfreed /\ Marked
  <2> SUFFICES ASSUME Init PROVE Unfreed /\ Marked
    OBVIOUS
  <2>1. sessions = <<>> /\ work = [f \in Fds |-> Closed] /\ db = InitDb
    BY DEF Init
  <2>2. Closed.req.type = "none" /\ Closed.ss = 0
    BY DEF Closed, Idle, NoReq
  <2>3. QED
    BY <2>1, <2>2 DEF Unfreed, Marked, SessionsHeld, LoginsHeld, OnItsSession, ChatKnown, Found
<1>3. Typed /\ Marked => ChangeStored
  <2> SUFFICES ASSUME Typed, Marked, NEW f \in Fds, At(f, "get_members")
               PROVE  Stored(work[f].req, sessions[work[f].ss].id)
    BY DEF ChangeStored
  <2>1. work[f].ss # 0
    BY DEF Typed, Fits, Suits, At, NeedsSession, Posts
  <2>2. StoredIn(work[f].req, HisId(f), db)
    BY <2>1 DEF Marked, Found, Knows, At
  <2>3. QED
    BY <2>2 DEF StoredIn, Stored, HisId
<1>4. QED
  BY <1>1, <1>2, <1>3, ConnectedAlways, PTL DEF Spec
=============================================================================
