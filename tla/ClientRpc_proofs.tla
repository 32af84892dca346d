-------------------------- MODULE ClientRpc_proofs --------------------------
(***************************************************************************)
(* The two threads on sock_fd, for any rooms and buffers and any number of *)
(* unread errors: replies and waiting threads stay in balance, and a call  *)
(* that no other overlapped gets its own reply.                            *)
(***************************************************************************)
EXTENDS ClientRpc, FiniteSetTheorems, FunctionTheorems, TLAPS

-----------------------------------------------------------------------------
(* Types.                                                                  *)

Places == {"out", "off", "connect", "idle", "send", "wait", "curr", "data", "draw"}
RoomOrNone == Rooms \cup {NoRoom}
CallRequests == [type : Calls \cup {"none"}, room : RoomOrNone]
PostRequests == [type : Posts, room : Rooms]
Queued == [type : Calls, room : RoomOrNone] \cup PostRequests
Replies == [type : Calls \cup Posts \cup {"none"}, ok : BOOLEAN, room : RoomOrNone]
ThreadStates == [pc : Places, req : CallRequests, got : Replies, alone : BOOLEAN]

Typed ==
    /\ th \in [Threads -> ThreadStates]
    /\ toServer \in Seq(Queued) /\ Len(toServer) <= QueueCap
    /\ toClient \in Seq(Replies)
    /\ pushes \in Seq(Rooms) /\ Len(pushes) <= PushCap
    /\ worker \in PostRequests \cup {Free}
    /\ curr \in RoomOrNone /\ shown \in RoomOrNone
    /\ scheduled \in BOOLEAN /\ surplus \in 0 .. MaxSurplus

(* What a thread may be at: the SSE thread runs after the login only, and  *)
(* calls for messages only; messages are always those of a room.           *)
RoleOf(f, t) ==
    /\ f[t].req.type = "UPDATE_CHAT_LIST" => f[t].req.room \in Rooms
    /\ f[t].pc \in {"send", "wait"} => f[t].req.type \in Calls
    /\ f[t].pc \in {"curr", "data"} => f[t].req.type = "UPDATE_CHAT_LIST"

SseRole(f) ==
    /\ f["sse"].pc \in {"send", "wait"} => f["sse"].req.type = "UPDATE_CHAT_LIST"
    /\ f["sse"].pc # "out"
    /\ f["sse"].pc = "draw" => f["sse"].req.room \in Rooms
    /\ f["gtk"].pc = "out" => f["sse"].pc = "off"
    /\ f["gtk"].pc \in {"send", "wait"} /\ f["gtk"].req.type = "LOGIN" => f["sse"].pc = "off"

(* A thread is alone in its call only if the other is in none. *)
Busy(f, t) == f[t].pc \in {"send", "wait", "curr", "data"}
AloneOf(f, t) == Busy(f, t) /\ f[t].alone => ~Busy(f, Other(t))

(* What the threads keep whatever is on the connection.                    *)
GoodThreads(f) ==
    /\ f \in [Threads -> ThreadStates]
    /\ \A t \in Threads : RoleOf(f, t) /\ AloneOf(f, t)
    /\ SseRole(f)

(* The reply to the call of a thread that is alone is its own.             *)
OwnReply(t) ==
    th[t].alone /\ surplus = 0 =>
        /\ th[t].pc = "wait" =>
              /\ \A i \in 1 .. Len(toClient) :
                    toClient[i].ok => toClient[i].room = th[t].req.room
              /\ \A i \in 1 .. Len(toServer) :
                    toServer[i].type \in Calls => toServer[i].room = th[t].req.room
        /\ th[t].pc \in {"curr", "data"} => th[t].got.room = th[t].req.room
        /\ th[t].pc = "data" => curr = th[t].req.room

OwnReplies == \A t \in Threads : OwnReply(t)

IInv == Typed /\ GoodThreads(th) /\ Balance /\ OwnReplies

(* Thread o goes on as it was, but may no longer be alone. *)
Undisturbed(f, o) ==
    /\ f[o].pc = th[o].pc /\ f[o].req = th[o].req /\ f[o].got = th[o].got
    /\ f[o].alone => th[o].alone

(* A thread at rest. *)
LEMMA RestingType ==
    ASSUME NEW p \in Places
    PROVE  /\ Resting(p) \in ThreadStates
           /\ Resting(p).pc = p /\ Resting(p).alone /\ Resting(p).req.type = "none"
  BY DEF Resting, ThreadStates, CallRequests, Replies, Request, NoReply, RoomOrNone, Places

(* The two threads. *)
LEMMA ThreadPair ==
    /\ Threads = {"gtk", "sse"} /\ Other("gtk") = "sse" /\ Other("sse") = "gtk"
    /\ \A t \in Threads : Other(t) \in Threads /\ Other(t) # t /\ Other(Other(t)) = t
  BY DEF Threads, Other

(* Entering a call: the other thread stays where it is, and neither is     *)
(* alone unless the other is out of a call.                                *)
LEMMA CallingThreads ==
    ASSUME th \in [Threads -> ThreadStates], NEW t \in Threads, NEW q \in CallRequests
    PROVE  LET n == Calling(t, q)
               o == Other(t)
           IN  /\ n \in [Threads -> ThreadStates]
               /\ n[t].pc = "send" /\ n[t].req = q
               /\ n[o].pc = th[o].pc /\ n[o].req = th[o].req /\ n[o].got = th[o].got
               /\ n[t].alone => ~InCall(o)
               /\ n[o].alone => th[o].alone /\ ~InCall(o)
  <1> DEFINE o == Other(t)
             n == Calling(t, q)
             a == [pc |-> "send", req |-> q, got |-> NoReply, alone |-> ~InCall(o)]
  <1>1. o \in Threads /\ o # t
    BY ThreadPair
  <1>2. a \in ThreadStates
    BY DEF ThreadStates, Places, Replies, NoReply, RoomOrNone, InCall
  <1>3. th[o] \in ThreadStates /\ th[t] \in ThreadStates
    BY <1>1
  <1>4. n = [th EXCEPT ![t] = a, ![o].alone = th[o].alone /\ ~InCall(o)]
    BY DEF Calling
  <1>5. n[t] = a /\ n[o] = [th[o] EXCEPT !.alone = th[o].alone /\ ~InCall(o)]
    BY <1>1, <1>4
  <1>6. n[o] \in ThreadStates
    BY <1>3, <1>5 DEF ThreadStates, InCall
  <1>7. n \in [Threads -> ThreadStates]
    BY <1>1, <1>2, <1>4, <1>5, <1>6, ThreadPair
  <1> QED
    BY <1>3, <1>5, <1>7 DEF ThreadStates

(* A call entered at a moment where its thread may make it.                *)
MayCall(t, q) ==
    /\ q \in CallRequests /\ q.type \in Calls
    /\ q.type = "UPDATE_CHAT_LIST" => q.room \in Rooms
    /\ t = "sse" => q.type = "UPDATE_CHAT_LIST" /\ th["sse"].pc # "off"
    /\ q.type = "LOGIN" => th["sse"].pc = "off"

LEMMA CallingKeeps ==
    ASSUME GoodThreads(th), NEW t \in Threads, NEW q, MayCall(t, q)
    PROVE  /\ GoodThreads(Calling(t, q))
           /\ Undisturbed(Calling(t, q), Other(t))
           /\ Calling(t, q)[t].pc = "send"
  <1> DEFINE n == Calling(t, q)
             o == Other(t)
  <1>1. q \in CallRequests /\ th \in [Threads -> ThreadStates]
    BY DEF MayCall, GoodThreads
  <1>2. /\ n \in [Threads -> ThreadStates]
        /\ n[t].pc = "send" /\ n[t].req = q
        /\ n[o].pc = th[o].pc /\ n[o].req = th[o].req /\ n[o].got = th[o].got
        /\ n[t].alone => ~InCall(o)
        /\ n[o].alone => th[o].alone /\ ~InCall(o)
    BY <1>1, CallingThreads
  <1> HIDE DEF n
  <1>3. \A x \in Threads : RoleOf(n, x)
    BY <1>2, ThreadPair DEF MayCall, GoodThreads, RoleOf
  <1>4. \A x \in Threads : AloneOf(n, x)
    BY <1>2, ThreadPair DEF AloneOf, Busy, InCall
  <1>5. SseRole(n)
    <2>1. CASE t = "gtk"
      BY <1>2, <2>1, ThreadPair DEF MayCall, GoodThreads, SseRole
    <2>2. CASE t = "sse"
      BY <1>2, <2>2, ThreadPair DEF MayCall, GoodThreads, SseRole
    <2> QED
      BY <2>1, <2>2, ThreadPair
  <1>6. GoodThreads(n) /\ Undisturbed(n, o) /\ n[t].pc = "send"
    BY <1>2, <1>3, <1>4, <1>5 DEF GoodThreads, Undisturbed
  <1> QED
    BY <1>6 DEF n

(* A thread that goes to rest after the login. *)
LEMMA RestKeeps ==
    ASSUME GoodThreads(th), NEW t \in Threads, NEW p \in {"out", "connect", "idle"},
           p = "out" => t = "gtk" /\ th["sse"].pc = "off",
           t = "sse" => th["sse"].pc # "off" /\ p # "out"
    PROVE  LET n == [th EXCEPT ![t] = Resting(p)] IN
           GoodThreads(n) /\ Undisturbed(n, Other(t)) /\ n[t].pc = p
  <1> DEFINE n == [th EXCEPT ![t] = Resting(p)]
             o == Other(t)
  <1>1. /\ Resting(p) \in ThreadStates
        /\ Resting(p).pc = p /\ Resting(p).alone /\ Resting(p).req.type = "none"
    BY RestingType DEF Places
  <1>2. n \in [Threads -> ThreadStates] /\ n[t] = Resting(p) /\ n[o] = th[o]
    BY <1>1, ThreadPair DEF GoodThreads
  <1> HIDE DEF n
  <1>3. \A x \in Threads : RoleOf(n, x)
    BY <1>1, <1>2, ThreadPair DEF GoodThreads, RoleOf
  <1>4. \A x \in Threads : AloneOf(n, x)
    BY <1>1, <1>2, ThreadPair DEF GoodThreads, AloneOf, Busy
  <1>5. SseRole(n)
    <2>1. CASE t = "gtk"
      BY <1>1, <1>2, <2>1, ThreadPair DEF GoodThreads, SseRole
    <2>2. CASE t = "sse"
      BY <1>1, <1>2, <2>2, ThreadPair DEF GoodThreads, SseRole
    <2> QED
      BY <2>1, <2>2, ThreadPair
  <1>6. GoodThreads(n) /\ Undisturbed(n, o) /\ n[t].pc = p
    BY <1>1, <1>2, <1>3, <1>4, <1>5 DEF GoodThreads, Undisturbed
  <1> QED
    BY <1>6 DEF n

(* A thread that goes from one place of its call to the next.              *)
Advance(t, p, g) == [th EXCEPT ![t].pc = p, ![t].got = g]

LEMMA AdvanceKeeps ==
    ASSUME GoodThreads(th), NEW t \in Threads, NEW p \in Places \ {"out", "off"}, NEW g \in Replies,
           Busy(th, t) /\ p \in {"send", "wait", "curr", "data"},
           p \in {"send", "wait"} => th[t].pc \in {"send", "wait"},
           p \in {"curr", "data"} => th[t].req.type = "UPDATE_CHAT_LIST",
           th[t].pc \notin {"send", "wait"} => p \notin {"send", "wait"}
    PROVE  LET n == Advance(t, p, g) IN
           /\ GoodThreads(n) /\ Undisturbed(n, Other(t))
           /\ n[t].pc = p /\ n[t].got = g
           /\ n[t].req = th[t].req /\ n[t].alone = th[t].alone
  <1> DEFINE n == Advance(t, p, g)
             o == Other(t)
  <1>1. th \in [Threads -> ThreadStates] /\ th[t] \in ThreadStates
    BY DEF GoodThreads
  <1>2. n[o] = th[o] /\ n[t] = [th[t] EXCEPT !.pc = p, !.got = g]
    BY <1>1, ThreadPair DEF Advance
  <1>3. /\ n[t].pc = p /\ n[t].got = g /\ n[t] \in ThreadStates
        /\ n[t].req = th[t].req /\ n[t].alone = th[t].alone
    BY <1>1, <1>2 DEF ThreadStates
  <1>4. n \in [Threads -> ThreadStates] /\ n[o] = th[o]
    BY <1>1, <1>2, <1>3 DEF Advance
  <1> HIDE DEF n
  <1>5. \A x \in Threads : RoleOf(n, x)
    BY <1>3, <1>4, ThreadPair DEF GoodThreads, RoleOf
  <1>6. \A x \in Threads : AloneOf(n, x)
    BY <1>3, <1>4, ThreadPair DEF GoodThreads, AloneOf, Busy
  <1>7. SseRole(n)
    <2>1. CASE t = "gtk"
      BY <1>3, <1>4, <2>1, ThreadPair DEF GoodThreads, SseRole, Busy
    <2>2. CASE t = "sse"
      BY <1>3, <1>4, <2>2, ThreadPair DEF GoodThreads, SseRole, Busy
    <2> QED
      BY <2>1, <2>2, ThreadPair
  <1>8. /\ GoodThreads(n) /\ Undisturbed(n, o)
        /\ n[t].pc = p /\ n[t].got = g
        /\ n[t].req = th[t].req /\ n[t].alone = th[t].alone
    BY <1>2, <1>3, <1>4, <1>5, <1>6, <1>7 DEF GoodThreads, Undisturbed
  <1> QED
    BY <1>8 DEF n

(* A login that was answered starts the SSE thread and loads the rooms.    *)
LEMMA LoginKeeps ==
    ASSUME NEW c \in [Threads -> ThreadStates],
           c["gtk"].pc = "send", c["gtk"].req.type = "UPDATE_ROOM_LIST"
    PROVE  LET n == [c EXCEPT !["sse"] = Resting("connect")] IN
           GoodThreads(n) /\ n["gtk"].pc = "send" /\ n["sse"] = Resting("connect")
  <1> DEFINE n == [c EXCEPT !["sse"] = Resting("connect")]
  <1>1. /\ Resting("connect") \in ThreadStates /\ Resting("connect").pc = "connect"
        /\ Resting("connect").req.type = "none"
    BY RestingType DEF Places
  <1>2. /\ n \in [Threads -> ThreadStates]
        /\ n["gtk"] = c["gtk"] /\ n["sse"] = Resting("connect")
    BY <1>1, ThreadPair
  <1> HIDE DEF n
  <1>3. \A x \in Threads : RoleOf(n, x)
    BY <1>1, <1>2, ThreadPair DEF RoleOf, Calls
  <1>4. \A x \in Threads : AloneOf(n, x)
    BY <1>1, <1>2, ThreadPair DEF AloneOf, Busy
  <1>5. SseRole(n)
    BY <1>1, <1>2 DEF SseRole
  <1>6. GoodThreads(n) /\ n["gtk"].pc = "send" /\ n["sse"] = Resting("connect")
    BY <1>2, <1>3, <1>4, <1>5 DEF GoodThreads
  <1> QED
    BY <1>6 DEF n

(* What a thread does with a good reply: it enters a call, rests, or goes  *)
(* on to the assignments with the reply in hand.                           *)
LEMMA AfterKeeps ==
    ASSUME GoodThreads(th), NEW t \in Threads, th[t].pc = "wait",
           NEW m \in Replies, NEW n \in After(t, m)
    PROVE  /\ GoodThreads(n)
           /\ n[t].pc \in {"send", "idle", "curr"}
           /\ \/ Undisturbed(n, Other(t))
              \/ Other(t) = "sse" /\ th["sse"].pc = "off" /\ n["sse"] = Resting("connect")
           /\ n[t].pc = "curr" =>
                 n[t].got = m /\ n[t].req = th[t].req /\ n[t].alone = th[t].alone
  <1> DEFINE type == th[t].req.type
  <1>1. type \in Calls /\ (t = "sse" => type = "UPDATE_CHAT_LIST" /\ th["sse"].pc # "off")
    BY ThreadPair DEF GoodThreads, RoleOf, SseRole
  <1>2. t # "sse" => t = "gtk"
    BY ThreadPair
  <1>3. CASE type = "LOGIN"
    <2>1. t = "gtk" /\ th["sse"].pc = "off"
      BY <1>1, <1>2, <1>3 DEF GoodThreads, SseRole
    <2> DEFINE q == Request("UPDATE_ROOM_LIST", NoRoom)
               c == Calling("gtk", q)
    <2>2. n = [c EXCEPT !["sse"] = Resting("connect")]
      BY <1>3 DEF After
    <2>3. q \in CallRequests /\ q.type = "UPDATE_ROOM_LIST"
      BY DEF Request, CallRequests, Calls, RoomOrNone
    <2>4. c \in [Threads -> ThreadStates] /\ c["gtk"].pc = "send" /\ c["gtk"].req = q
      BY <2>3, CallingThreads, ThreadPair DEF GoodThreads
    <2> HIDE DEF c
    <2>5. GoodThreads(n) /\ n["gtk"].pc = "send" /\ n["sse"] = Resting("connect")
      BY <2>2, <2>3, <2>4, LoginKeeps
    <2> QED
      BY <2>1, <2>5, ThreadPair
  <1>4. CASE type = "CREATE_ROOM"
    <2>1. t = "gtk"
      BY <1>1, <1>2, <1>4
    <2>2. n = Calling(t, Request("UPDATE_ROOM_LIST", NoRoom))
      BY <1>4, <2>1 DEF After
    <2>3. MayCall(t, Request("UPDATE_ROOM_LIST", NoRoom))
      BY <2>1 DEF MayCall, Request, CallRequests, Calls, RoomOrNone
    <2> QED
      BY <2>2, <2>3, CallingKeeps
  <1>5. CASE type = "UPDATE_ROOM_LIST"
    <2>1. t = "gtk"
      BY <1>1, <1>2, <1>5
    <2>2. PICK r \in Rooms : n = IF r > 0 THEN Calling(t, Request("UPDATE_CHAT_LIST", r))
                                 ELSE Rest(t)
      BY <1>5, <2>1 DEF After
    <2>3. MayCall(t, Request("UPDATE_CHAT_LIST", r))
      BY <2>1 DEF MayCall, Request, CallRequests, Calls, RoomOrNone
    <2>4. n = Calling(t, Request("UPDATE_CHAT_LIST", r)) \/ n = [th EXCEPT ![t] = Resting("idle")]
      BY <2>2 DEF Rest
    <2>5. CASE n = Calling(t, Request("UPDATE_CHAT_LIST", r))
      BY <2>3, <2>5, CallingKeeps
    <2>6. CASE n = [th EXCEPT ![t] = Resting("idle")]
      BY <2>1, <2>6, RestKeeps
    <2> QED
      BY <2>4, <2>5, <2>6
  <1>6. CASE type = "UPDATE_CHAT_LIST"
    <2>1. n = Advance(t, "curr", m)
      BY <1>6 DEF After, Advance
    <2>2. "curr" \in Places \ {"out", "off"} /\ Busy(th, t)
      BY DEF Places, Busy
    <2>3. /\ GoodThreads(n) /\ Undisturbed(n, Other(t))
          /\ n[t].pc = "curr" /\ n[t].got = m
          /\ n[t].req = th[t].req /\ n[t].alone = th[t].alone
      BY <1>6, <2>1, <2>2, AdvanceKeeps
    <2> QED
      BY <2>3
  <1>7. CASE type = "Search_User"
    <2>1. n = [th EXCEPT ![t] = Resting("idle")]
      BY <1>7 DEF After, Rest
    <2> QED
      BY <1>1, <1>7, <2>1, RestKeeps
  <1> QED
    BY <1>1, <1>3, <1>4, <1>5, <1>6, <1>7 DEF Calls

-----------------------------------------------------------------------------
(* The balance.                                                            *)

CallsIn(s) == {i \in 1 .. Len(s) : s[i].type \in Calls}
NumCalls(s) == Cardinality(CallsIn(s))
Waits(f, t) == IF f[t].pc = "wait" THEN 1 ELSE 0

LEMMA CallsFinite ==
    ASSUME NEW s \in Seq(Queued)
    PROVE  IsFiniteSet(CallsIn(s)) /\ NumCalls(s) \in Nat
  <1>1. IsFiniteSet(1 .. Len(s)) /\ CallsIn(s) \in SUBSET (1 .. Len(s))
    BY FS_Interval DEF CallsIn
  <1>2. IsFiniteSet(CallsIn(s))
    BY <1>1, FS_Subset
  <1> QED
    BY <1>2, FS_CardinalityType DEF NumCalls

(* A request sent adds a call if it is one. *)
LEMMA CallsAppend ==
    ASSUME NEW s \in Seq(Queued), NEW q \in Queued
    PROVE  NumCalls(Append(s, q)) = NumCalls(s) + (IF q.type \in Calls THEN 1 ELSE 0)
  <1> DEFINE a == Append(s, q)
  <1>1. /\ Len(s) \in Nat /\ Len(a) = Len(s) + 1 /\ a[Len(s) + 1] = q
        /\ \A i \in 1 .. Len(s) : a[i] = s[i]
    OBVIOUS
  <1> HIDE DEF a
  <1>2. 1 .. Len(a) = (1 .. Len(s)) \cup {Len(s) + 1}
    BY <1>1
  <1>3. Len(s) + 1 \notin CallsIn(s)
    BY <1>1 DEF CallsIn
  <1>4. CallsIn(a) = IF q.type \in Calls THEN CallsIn(s) \cup {Len(s) + 1} ELSE CallsIn(s)
    BY <1>1, <1>2 DEF CallsIn
  <1>5. NumCalls(a) = NumCalls(s) + (IF q.type \in Calls THEN 1 ELSE 0)
    <2>1. IsFiniteSet(CallsIn(s)) /\ Cardinality(CallsIn(s)) \in Nat
      BY CallsFinite DEF NumCalls
    <2>2. Cardinality(CallsIn(s) \cup {Len(s) + 1}) = Cardinality(CallsIn(s)) + 1
      BY <1>3, <2>1, FS_AddElement
    <2> QED
      BY <1>4, <2>1, <2>2 DEF NumCalls
  <1> QED
    BY <1>5 DEF a

(* A request taken up removes a call if it was one. *)
LEMMA CallsTail ==
    ASSUME NEW s \in Seq(Queued), s # <<>>
    PROVE  NumCalls(Tail(s)) = NumCalls(s) - (IF Head(s).type \in Calls THEN 1 ELSE 0)
  <1> DEFINE u == Tail(s)
             S == CallsIn(s) \ {1}
             T == CallsIn(u)
             F == [i \in T |-> i + 1]
  <1>1. /\ Len(s) \in Nat \ {0} /\ u \in Seq(Queued) /\ Len(u) = Len(s) - 1
        /\ \A i \in 1 .. Len(u) : u[i] = s[i + 1]
        /\ Head(s) = s[1]
    OBVIOUS
  <1> HIDE DEF u
  <1>2. \A i \in T : i \in Nat /\ i + 1 \in S
    BY <1>1 DEF CallsIn
  <1>3. \A j \in S : j - 1 \in T /\ j = (j - 1) + 1
    BY <1>1 DEF CallsIn
  <1>4. F \in [T -> S] /\ (\A a, b \in T : F[a] = F[b] => a = b)
    BY <1>2
  <1>5. \A j \in S : \E i \in T : F[i] = j
    BY <1>3
  <1>6. F \in Bijection(T, S)
    BY <1>4, <1>5, Fun_IsBij
  <1>7. Cardinality(S) = Cardinality(T)
    BY <1>1, <1>6, CallsFinite, FS_Bijection, Fun_ExistsBij
  <1>8. 1 \in CallsIn(s) <=> Head(s).type \in Calls
    BY <1>1 DEF CallsIn
  <1>9. NumCalls(u) = NumCalls(s) - (IF Head(s).type \in Calls THEN 1 ELSE 0)
    <2>1. IsFiniteSet(CallsIn(s)) /\ Cardinality(CallsIn(s)) \in Nat
      BY CallsFinite DEF NumCalls
    <2>2. Cardinality(S) = IF 1 \in CallsIn(s) THEN Cardinality(CallsIn(s)) - 1
                           ELSE Cardinality(CallsIn(s))
      BY <2>1, FS_RemoveElement
    <2> HIDE DEF S, T
    <2>3. Cardinality(T) = Cardinality(CallsIn(s)) - (IF Head(s).type \in Calls THEN 1 ELSE 0)
      BY <1>7, <1>8, <2>1, <2>2
    <2> QED
      BY <2>3 DEF T, NumCalls
  <1> QED
    BY <1>9 DEF u

(* The balance as a sum over the threads. *)
Even == Len(toClient) + NumCalls(toServer) = Waits(th, "gtk") + Waits(th, "sse") + surplus

LEMMA BalanceSum == (Balance <=> Even) /\ (Balance' <=> Even')
  BY ThreadPair
     DEF Balance, Even, NumCalls, CallsIn, Unanswered, NumWaiting, Waiting, Waits

-----------------------------------------------------------------------------
(* Replies that stay where they belong.                                    *)

(* While thread t is in a call, the other one has nothing to be sure of.   *)
LEMMA OtherUnsure ==
    ASSUME GoodThreads(th), NEW t \in Threads, Busy(th, t), Undisturbed(th', Other(t))
    PROVE  OwnReply(Other(t))'
  <1>1. ~(Busy(th, Other(t)) /\ th[Other(t)].alone)
    BY ThreadPair DEF GoodThreads, AloneOf
  <1> QED
    BY <1>1 DEF Undisturbed, OwnReply, Busy

(* A thread out of a call, or just entering one, waits for no reply.       *)
LEMMA NoReplyYet ==
    ASSUME NEW t \in Threads, th'[t].pc \notin {"wait", "curr", "data"}
    PROVE  OwnReply(t)'
  BY DEF OwnReply

(* A thread keeps its own when the connection and the page do. *)
LEMMA OwnKept ==
    ASSUME NEW t \in Threads, OwnReply(t), Undisturbed(th', t),
           UNCHANGED <<toServer, toClient, curr, surplus>>
    PROVE  OwnReply(t)'
  BY DEF OwnReply, Undisturbed

(* After an error nobody reads no call is sure of its reply. *)
LEMMA NothingSure ==
    ASSUME surplus' # 0
    PROVE  OwnReplies'
  BY DEF OwnReplies, OwnReply

LEMMA BothOwn ==
    ASSUME NEW t \in Threads, OwnReply(t)', OwnReply(Other(t))'
    PROVE  OwnReplies'
  BY ThreadPair DEF OwnReplies

-----------------------------------------------------------------------------
(* The steps of the threads.                                               *)

LEMMA InitInv == Init => IInv
  <1> SUFFICES ASSUME Init PROVE IInv
    OBVIOUS
  <1>1. /\ Resting("out") \in ThreadStates /\ Resting("out").pc = "out"
        /\ Resting("off") \in ThreadStates /\ Resting("off").pc = "off"
        /\ Resting("out").req.type = "none" /\ Resting("off").req.type = "none"
    BY RestingType DEF Places
  <1>2. th["gtk"] = Resting("out") /\ th["sse"] = Resting("off")
    BY DEF Init
  <1>3. th \in [Threads -> ThreadStates]
    BY <1>1, ThreadPair DEF Init
  <1>4. GoodThreads(th)
    BY <1>1, <1>2, <1>3, ThreadPair DEF GoodThreads, RoleOf, AloneOf, Busy, SseRole
  <1>5. Typed
    <2>1. toServer = <<>> /\ toClient = <<>> /\ pushes = <<>>
      BY DEF Init
    <2>2. /\ toServer \in Seq(Queued) /\ Len(toServer) <= QueueCap
          /\ toClient \in Seq(Replies)
          /\ pushes \in Seq(Rooms) /\ Len(pushes) <= PushCap
      BY <2>1, CapAssumption
    <2>3. surplus \in 0 .. MaxSurplus
      BY CapAssumption DEF Init
    <2> QED
      BY <1>3, <2>2, <2>3 DEF Init, Typed, RoomOrNone
  <1>6. OwnReplies
    BY <1>1, <1>2, ThreadPair DEF OwnReplies, OwnReply
  <1>7. toServer \in Seq(Queued) /\ CallsIn(toServer) = {} /\ NumCalls(toServer) = 0
    BY FS_EmptySet DEF Init, CallsIn, NumCalls
  <1>8. Balance
    BY <1>1, <1>2, <1>7, BalanceSum DEF Init, Waits, Even
  <1> QED
    BY <1>4, <1>5, <1>6, <1>8 DEF IInv

(* A step of one thread that leaves the connection alone and neither ends  *)
(* nor begins to wait.                                                     *)
LEMMA QuietKeeps ==
    ASSUME IInv, NEW t \in Threads, GoodThreads(th'), Undisturbed(th', Other(t)),
           th[t].pc # "wait", th'[t].pc # "wait",
           UNCHANGED <<toServer, toClient, worker, surplus>>
    PROVE  Balance'
  <1>1. Waits(th', "gtk") = Waits(th, "gtk") /\ Waits(th', "sse") = Waits(th, "sse")
    BY ThreadPair DEF Waits, Undisturbed
  <1> QED
    BY <1>1, BalanceSum DEF IInv, Even

LEMMA CallbackInv == IInv /\ Callback => IInv'
  <1> SUFFICES ASSUME IInv, Callback PROVE IInv'
    OBVIOUS
  <1>1. UNCHANGED <<toServer, toClient, pushes, worker, curr, shown, scheduled, surplus>>
    BY DEF Callback
  <1>2. PICK q : th' = Calling("gtk", q) /\ MayCall("gtk", q)
    <2>1. CASE th["gtk"].pc = "out" /\ th' = Calling("gtk", Request("LOGIN", NoRoom))
      <3>1. MayCall("gtk", Request("LOGIN", NoRoom))
        BY <2>1 DEF IInv, GoodThreads, SseRole, MayCall, Request, CallRequests, Calls, RoomOrNone
      <3> QED
        BY <2>1, <3>1
    <2>2. CASE \E q \in {Request("Search_User", NoRoom), Request("CREATE_ROOM", NoRoom)}
                        \cup {Request("UPDATE_CHAT_LIST", r) : r \in Rooms} :
                  th' = Calling("gtk", q)
      <3>1. PICK q \in {Request("Search_User", NoRoom), Request("CREATE_ROOM", NoRoom)}
                        \cup {Request("UPDATE_CHAT_LIST", r) : r \in Rooms} :
                  th' = Calling("gtk", q)
        BY <2>2
      <3>2. MayCall("gtk", q)
        BY DEF MayCall, Request, CallRequests, Calls, RoomOrNone
      <3> QED
        BY <3>1, <3>2
    <2> QED
      BY <2>1, <2>2 DEF Callback
  <1>3. /\ GoodThreads(th') /\ Undisturbed(th', Other("gtk")) /\ th'["gtk"].pc = "send"
    BY <1>2, CallingKeeps, ThreadPair DEF IInv
  <1>4. Balance'
    BY <1>1, <1>3, QuietKeeps, ThreadPair DEF IInv, Callback
  <1>5. OwnReplies'
    BY <1>1, <1>3, NoReplyYet, OwnKept, BothOwn, ThreadPair DEF IInv, OwnReplies
  <1> QED
    BY <1>1, <1>3, <1>4, <1>5 DEF IInv, Typed, GoodThreads

LEMMA PostInv == IInv /\ Post => IInv'
  <1> SUFFICES ASSUME IInv, Post PROVE IInv'
    OBVIOUS
  <1>1. PICK type \in Posts : toServer' = Append(toServer, Request(type, curr))
    BY DEF Post
  <1>2. /\ UNCHANGED <<th, toClient, pushes, worker, curr, shown, scheduled, surplus>>
        /\ curr # NoRoom /\ Len(toServer) < QueueCap
    BY DEF Post, client
  <1> DEFINE q == Request(type, curr)
  <1>3. q \in Queued /\ q.type \notin Calls
    BY <1>2 DEF IInv, Typed, RoomOrNone, Queued, PostRequests, Request, Posts, Calls
  <1> HIDE DEF q
  <1>4. /\ toServer \in Seq(Queued) /\ toServer' = Append(toServer, q)
        /\ toServer' \in Seq(Queued) /\ Len(toServer') <= QueueCap
    BY <1>1, <1>2, <1>3, CapAssumption DEF IInv, Typed, q
  <1>5. Balance'
    BY <1>2, <1>3, <1>4, CallsAppend, CallsFinite, BalanceSum DEF IInv, Even, Waits
  <1>6. \A i \in 1 .. Len(toServer') :
           toServer'[i].type \in Calls => i \in 1 .. Len(toServer) /\ toServer'[i] = toServer[i]
    BY <1>3, <1>4
  <1>7. OwnReplies'
    BY <1>2, <1>6 DEF IInv, OwnReplies, OwnReply
  <1> QED
    BY <1>2, <1>4, <1>5, <1>7 DEF IInv, Typed

(* A thread alone that sends finds the connection empty, by the balance.   *)
LEMMA SendInv ==
    ASSUME IInv, NEW t \in Threads, Send(t)
    PROVE  IInv'
  <1> DEFINE q == th[t].req
  <1>1. /\ th[t].pc = "send" /\ Len(toServer) < QueueCap
        /\ toServer' = Append(toServer, q)
        /\ th' = [th EXCEPT ![t].pc = "wait"]
        /\ UNCHANGED <<toClient, pushes, worker, curr, shown, scheduled, surplus>>
    BY DEF Send
  <1>2. th' = Advance(t, "wait", th[t].got) /\ th[t].got \in Replies
    BY <1>1 DEF Advance, IInv, Typed, ThreadStates
  <1>3. /\ GoodThreads(th') /\ Undisturbed(th', Other(t))
        /\ th'[t].pc = "wait" /\ th'[t].req = q /\ th'[t].alone = th[t].alone
    <2>1. Busy(th, t) /\ "wait" \in Places \ {"out", "off"} /\ GoodThreads(th)
      BY <1>1 DEF IInv, Busy, Places
    <2> DEFINE n == Advance(t, "wait", th[t].got)
    <2>2. /\ GoodThreads(n) /\ Undisturbed(n, Other(t))
          /\ n[t].pc = "wait" /\ n[t].req = q /\ n[t].alone = th[t].alone
      BY <1>1, <1>2, <2>1, AdvanceKeeps
    <2> QED
      BY <1>2, <2>2
  <1>4. q \in Queued /\ q.type \in Calls
    BY <1>1 DEF IInv, GoodThreads, RoleOf, ThreadStates, CallRequests, Queued
  <1> HIDE DEF q
  <1>5. /\ toServer \in Seq(Queued) /\ toServer' \in Seq(Queued)
        /\ Len(toServer') = Len(toServer) + 1 /\ Len(toServer') <= QueueCap
        /\ toServer'[Len(toServer) + 1] = q
        /\ \A i \in 1 .. Len(toServer) : toServer'[i] = toServer[i]
    BY <1>1, <1>4, CapAssumption DEF IInv, Typed
  <1>6. NumCalls(toServer') = NumCalls(toServer) + 1
    BY <1>1, <1>4, <1>5, CallsAppend
  <1>7. /\ Waits(th, t) = 0 /\ Waits(th', t) = 1
        /\ Waits(th', Other(t)) = Waits(th, Other(t))
    BY <1>1, <1>3 DEF Waits, Undisturbed
  <1>8. Balance'
    BY <1>1, <1>5, <1>6, <1>7, CallsFinite, BalanceSum, ThreadPair DEF IInv, Typed, Even, Waits
  <1>9. ASSUME th[t].alone, surplus = 0
        PROVE  toClient = <<>> /\ \A i \in 1 .. Len(toServer) : toServer[i].type \notin Calls
    <2>1. ~Busy(th, Other(t)) /\ Waits(th, Other(t)) = 0
      BY <1>1, <1>9, ThreadPair DEF IInv, GoodThreads, AloneOf, Busy, Waits
    <2>2. Len(toClient) \in Nat /\ NumCalls(toServer) \in Nat /\ IsFiniteSet(CallsIn(toServer))
      BY <1>5, CallsFinite DEF IInv, Typed
    <2>3. Len(toClient) = 0 /\ NumCalls(toServer) = 0
      BY <1>7, <1>9, <2>1, <2>2, BalanceSum, ThreadPair DEF IInv, Even, Waits
    <2>4. CallsIn(toServer) = {}
      BY <2>2, <2>3, FS_EmptySet DEF NumCalls
    <2> QED
      BY <2>3, <2>4 DEF IInv, Typed, CallsIn
  <1>10. OwnReply(t)'
    BY <1>1, <1>3, <1>5, <1>9 DEF OwnReply
  <1>11. OwnReply(Other(t))'
    BY <1>1, <1>3, OtherUnsure DEF IInv, Busy
  <1> QED
    BY <1>1, <1>3, <1>5, <1>8, <1>10, <1>11, BothOwn DEF IInv, Typed, GoodThreads

LEMMA TakeInv ==
    ASSUME IInv, NEW t \in Threads, Take(t)
    PROVE  IInv'
  <1> DEFINE m == Head(toClient)
             o == Other(t)
  <1>1. /\ th[t].pc = "wait" /\ toClient # <<>> /\ toClient' = Tail(toClient)
        /\ UNCHANGED <<toServer, pushes, worker, curr, shown, surplus>>
    BY DEF Take
  <1>2. /\ m \in Replies /\ m = toClient[1] /\ 1 \in 1 .. Len(toClient)
        /\ toClient' \in Seq(Replies) /\ Len(toClient') = Len(toClient) - 1
        /\ Len(toClient) \in Nat
        /\ \A i \in 1 .. Len(toClient') : i + 1 \in 1 .. Len(toClient) /\ toClient'[i] = toClient[i + 1]
    BY <1>1 DEF IInv, Typed
  <1> HIDE DEF m
  <1>3. /\ GoodThreads(th')
        /\ th'[t].pc \in {"send", "idle", "curr", "out"}
        /\ \/ Undisturbed(th', o)
           \/ o = "sse" /\ th["sse"].pc = "off" /\ th'["sse"] = Resting("connect")
        /\ th'[t].pc = "curr" =>
              /\ th'[t].got = m /\ th'[t].req = th[t].req /\ th'[t].alone = th[t].alone
              /\ m.ok
    <2>1. CASE Matches(t, m)
      <3>1. th' \in After(t, m)
        BY <2>1 DEF Take, m
      <3> QED
        BY <1>1, <1>2, <2>1, <3>1, AfterKeeps DEF IInv, Matches
    <2>2. CASE ~Matches(t, m) /\ th[t].req.type = "LOGIN"
      <3>1. th' = [th EXCEPT ![t] = Resting("out")]
        BY <2>2 DEF Take, m
      <3>2. t = "gtk" /\ th["sse"].pc = "off"
        BY <1>1, <2>2, ThreadPair DEF IInv, GoodThreads, SseRole
      <3>3. GoodThreads(th') /\ Undisturbed(th', o) /\ th'[t].pc = "out"
        BY <3>1, <3>2, RestKeeps DEF IInv
      <3> QED
        BY <3>3
    <2>3. CASE ~Matches(t, m) /\ th[t].req.type # "LOGIN"
      <3>1. th' = [th EXCEPT ![t] = Resting("idle")]
        BY <2>3 DEF Take, Rest, m
      <3>2. t = "sse" => th["sse"].pc # "off"
        BY <1>1
      <3>3. GoodThreads(th') /\ Undisturbed(th', o) /\ th'[t].pc = "idle"
        BY <3>1, <3>2, RestKeeps DEF IInv
      <3> QED
        BY <3>3
    <2> QED
      BY <2>1, <2>2, <2>3
  <1>4. Resting("connect").pc = "connect"
    BY DEF Resting
  <1>5. /\ Waits(th, t) = 1 /\ Waits(th', t) = 0
        /\ Waits(th', o) = Waits(th, o)
    BY <1>1, <1>3, <1>4 DEF Waits, Undisturbed
  <1>6. Balance'
    <2>1. /\ Len(toClient') = Len(toClient) - 1 /\ Len(toClient) \in Nat
          /\ NumCalls(toServer') = NumCalls(toServer) /\ NumCalls(toServer) \in Nat
          /\ surplus' = surplus /\ surplus \in Nat
      BY <1>1, <1>2, CallsFinite DEF IInv, Typed
    <2>2. Waits(th, o) \in Nat
      BY DEF Waits
    <2>3. Waits(th', "gtk") + Waits(th', "sse") = Waits(th, "gtk") + Waits(th, "sse") - 1
      BY <1>1, <1>5, <2>2, ThreadPair
    <2>4. Even
      BY BalanceSum DEF IInv
    <2>5. Waits(th, "gtk") \in Nat /\ Waits(th, "sse") \in Nat
      BY DEF Waits
    <2>6. Even'
      BY <2>1, <2>3, <2>4, <2>5 DEF Even
    <2> QED
      BY <2>6, BalanceSum
  <1>7. OwnReply(t)'
    BY <1>1, <1>2, <1>3 DEF IInv, OwnReplies, OwnReply
  <1>8. OwnReply(o)'
    <2>1. CASE Undisturbed(th', o)
      BY <1>1, <2>1, OtherUnsure DEF IInv, Busy
    <2>2. CASE o = "sse" /\ th'["sse"] = Resting("connect")
      BY <1>4, <2>2, NoReplyYet, ThreadPair
    <2> QED
      BY <1>3, <2>1, <2>2
  <1>9. scheduled' \in BOOLEAN
    BY DEF Take, IInv, Typed
  <1> QED
    BY <1>1, <1>2, <1>3, <1>6, <1>7, <1>8, <1>9, BothOwn DEF IInv, Typed, GoodThreads

LEMMA SetCurrInv ==
    ASSUME IInv, NEW t \in Threads, SetCurr(t)
    PROVE  IInv'
  <1>1. /\ th[t].pc = "curr" /\ curr' = th[t].req.room
        /\ th' = [th EXCEPT ![t].pc = "data"]
        /\ UNCHANGED <<toServer, toClient, pushes, worker, shown, scheduled, surplus>>
    BY DEF SetCurr
  <1>2. /\ th' = Advance(t, "data", th[t].got) /\ th[t].got \in Replies
        /\ th[t].req.type = "UPDATE_CHAT_LIST"
    BY <1>1 DEF Advance, IInv, Typed, ThreadStates, GoodThreads, RoleOf
  <1>3. /\ GoodThreads(th') /\ Undisturbed(th', Other(t))
        /\ th'[t].pc = "data" /\ th'[t].got = th[t].got
        /\ th'[t].req = th[t].req /\ th'[t].alone = th[t].alone
    <2>1. Busy(th, t) /\ "data" \in Places \ {"out", "off"} /\ GoodThreads(th)
      BY <1>1 DEF IInv, Busy, Places
    <2> DEFINE n == Advance(t, "data", th[t].got)
    <2>2. /\ GoodThreads(n) /\ Undisturbed(n, Other(t))
          /\ n[t].pc = "data" /\ n[t].got = th[t].got
          /\ n[t].req = th[t].req /\ n[t].alone = th[t].alone
      BY <1>1, <1>2, <2>1, AdvanceKeeps
    <2> QED
      BY <1>2, <2>2
  <1>4. Balance'
    BY <1>1, <1>3, QuietKeeps
  <1>5. OwnReply(t)'
    BY <1>1, <1>3 DEF IInv, OwnReplies, OwnReply
  <1>6. OwnReply(Other(t))'
    BY <1>1, <1>3, OtherUnsure DEF IInv, Busy
  <1>7. curr' \in RoomOrNone
    BY <1>1 DEF IInv, Typed, ThreadStates, CallRequests
  <1> QED
    BY <1>1, <1>3, <1>4, <1>5, <1>6, <1>7, BothOwn DEF IInv, Typed, GoodThreads

LEMMA SetDataInv ==
    ASSUME IInv, NEW t \in Threads, SetData(t)
    PROVE  IInv'
  <1>1. /\ th[t].pc = "data" /\ th' = [th EXCEPT ![t] = Resting("idle")]
        /\ UNCHANGED <<toServer, toClient, pushes, worker, curr, surplus>>
        /\ \/ shown' = th[t].got.room /\ scheduled' = TRUE
           \/ UNCHANGED <<shown, scheduled>>
    BY DEF SetData, Rest
  <1>2. GoodThreads(th') /\ Undisturbed(th', Other(t)) /\ th'[t].pc = "idle"
    BY <1>1, RestKeeps DEF IInv
  <1>3. Balance'
    BY <1>1, <1>2, QuietKeeps
  <1>4. OwnReply(t)' /\ OwnReply(Other(t))'
    BY <1>1, <1>2, NoReplyYet, OtherUnsure DEF IInv, Busy
  <1>5. shown' \in RoomOrNone /\ scheduled' \in BOOLEAN
    <2>1. th[t].got.room \in RoomOrNone
      BY DEF IInv, Typed, ThreadStates, Replies
    <2> QED
      BY <1>1, <2>1 DEF IInv, Typed
  <1> QED
    BY <1>1, <1>2, <1>3, <1>4, <1>5, BothOwn DEF IInv, Typed, GoodThreads

(* Drawing, by either thread, and the end of it.                           *)
LEMMA DrawingKeeps ==
    ASSUME GoodThreads(th), NEW t \in Threads, NEW n \in [Threads -> ThreadStates],
           n[Other(t)] = th[Other(t)], n[t].pc = "draw",
           n[t].req.type = "UPDATE_CHAT_LIST" => n[t].req.room \in Rooms,
           th[t].pc \notin {"out", "off"},
           t = "sse" => n[t].req.room \in Rooms
    PROVE  GoodThreads(n) /\ Undisturbed(n, Other(t))
  <1>1. \A x \in Threads : RoleOf(n, x)
    BY ThreadPair DEF GoodThreads, RoleOf
  <1>2. \A x \in Threads : AloneOf(n, x)
    BY ThreadPair DEF GoodThreads, AloneOf, Busy
  <1>3. SseRole(n)
    <2>1. CASE t = "gtk"
      BY <2>1, ThreadPair DEF GoodThreads, SseRole
    <2>2. CASE t = "sse"
      BY <2>2, ThreadPair DEF GoodThreads, SseRole
    <2> QED
      BY <2>1, <2>2, ThreadPair
  <1> QED
    BY <1>1, <1>2, <1>3 DEF GoodThreads, Undisturbed

(* A step of one thread that has nothing to do with a call.                *)
LEMMA AsideInv ==
    ASSUME IInv, NEW t \in Threads, GoodThreads(th'), Undisturbed(th', Other(t)),
           th[t].pc # "wait", th'[t].pc \notin {"wait", "curr", "data"},
           scheduled' \in BOOLEAN, pushes' \in Seq(Rooms), Len(pushes') <= PushCap,
           UNCHANGED <<toServer, toClient, worker, curr, shown, surplus>>
    PROVE  IInv'
  <1>1. Balance'
    BY QuietKeeps
  <1>2. OwnReply(t)' /\ OwnReply(Other(t))'
    BY NoReplyYet, OwnKept, ThreadPair DEF IInv, OwnReplies
  <1> QED
    BY <1>1, <1>2, BothOwn DEF IInv, Typed, GoodThreads

LEMMA DrawInv == IInv /\ Draw => IInv'
  <1> SUFFICES ASSUME IInv, Draw PROVE IInv'
    OBVIOUS
  <1>1. /\ UNCHANGED <<toServer, toClient, pushes, worker, curr, shown, surplus>>
        /\ pushes \in Seq(Rooms) /\ Len(pushes) <= PushCap /\ scheduled \in BOOLEAN
    BY DEF Draw, IInv, Typed
  <1>2. CASE /\ th["gtk"].pc = "idle" /\ th' = [th EXCEPT !["gtk"].pc = "draw"]
             /\ scheduled' = FALSE
    <2>1. th["gtk"] \in ThreadStates /\ th["sse"] \in ThreadStates /\ "draw" \in Places
      BY ThreadPair DEF IInv, Typed, Places
    <2>2. /\ th' \in [Threads -> ThreadStates] /\ th'["sse"] = th["sse"]
          /\ th'["gtk"].pc = "draw" /\ th'["gtk"].req = th["gtk"].req
      BY <1>2, <2>1, ThreadPair DEF IInv, Typed, ThreadStates
    <2>3. th["gtk"].req.type = "UPDATE_CHAT_LIST" => th["gtk"].req.room \in Rooms
      BY ThreadPair DEF IInv, GoodThreads, RoleOf
    <2>4. GoodThreads(th') /\ Undisturbed(th', Other("gtk"))
      BY <1>2, <2>2, <2>3, DrawingKeeps, ThreadPair DEF IInv
    <2> QED
      BY <1>1, <1>2, <2>2, <2>4, AsideInv, ThreadPair
  <1>3. CASE /\ th["gtk"].pc = "draw" /\ th' = [th EXCEPT !["gtk"] = Resting("idle")]
             /\ UNCHANGED scheduled
    <2>1. GoodThreads(th') /\ Undisturbed(th', Other("gtk")) /\ th'["gtk"].pc = "idle"
      BY <1>3, RestKeeps, ThreadPair DEF IInv
    <2> QED
      BY <1>1, <1>3, <2>1, AsideInv, ThreadPair
  <1> QED
    BY <1>2, <1>3 DEF Draw, Rest

LEMMA ConnectInv == IInv /\ Connect => IInv'
  <1> SUFFICES ASSUME IInv, Connect PROVE IInv'
    OBVIOUS
  <1>1. /\ UNCHANGED <<toServer, toClient, pushes, worker, curr, shown, scheduled, surplus>>
        /\ pushes \in Seq(Rooms) /\ Len(pushes) <= PushCap /\ scheduled \in BOOLEAN
        /\ th["sse"].pc = "connect" /\ th' = [th EXCEPT !["sse"] = Resting("idle")]
    BY DEF Connect, Rest, IInv, Typed
  <1>2. GoodThreads(th') /\ Undisturbed(th', Other("sse")) /\ th'["sse"].pc = "idle"
    BY <1>1, RestKeeps, ThreadPair DEF IInv
  <1> QED
    BY <1>1, <1>2, AsideInv, ThreadPair

LEMMA ReceivePushInv == IInv /\ ReceivePush => IInv'
  <1> SUFFICES ASSUME IInv, ReceivePush PROVE IInv'
    OBVIOUS
  <1> DEFINE r == Head(pushes)
  <1>1. /\ UNCHANGED <<toServer, toClient, worker, curr, shown, scheduled, surplus>>
        /\ scheduled \in BOOLEAN /\ th["sse"].pc = "idle" /\ pushes # <<>>
        /\ th' = [th EXCEPT !["sse"].pc = "draw", !["sse"].req.room = r]
        /\ pushes' = Tail(pushes)
    BY DEF ReceivePush, IInv, Typed
  <1>2. r \in Rooms /\ pushes' \in Seq(Rooms) /\ Len(pushes') <= PushCap
    BY <1>1, CapAssumption DEF IInv, Typed
  <1> HIDE DEF r
  <1>3. th["gtk"] \in ThreadStates /\ th["sse"] \in ThreadStates /\ "draw" \in Places
    BY ThreadPair DEF IInv, Typed, Places
  <1>4. th["sse"].req \in CallRequests
    BY <1>3 DEF ThreadStates
  <1>5. /\ th'["gtk"] = th["gtk"]
        /\ th'["sse"] = [th["sse"] EXCEPT !.pc = "draw", !.req = [th["sse"].req EXCEPT !.room = r]]
    BY <1>1, ThreadPair DEF IInv, Typed
  <1>6. /\ [th["sse"].req EXCEPT !.room = r] \in CallRequests
        /\ [th["sse"].req EXCEPT !.room = r].room = r
    BY <1>2, <1>4 DEF CallRequests, RoomOrNone
  <1>7. th'["sse"] \in ThreadStates /\ th'["sse"].pc = "draw" /\ th'["sse"].req.room = r
    BY <1>3, <1>5, <1>6 DEF ThreadStates
  <1>8. th' \in [Threads -> ThreadStates]
    BY <1>1, <1>3, <1>5, <1>7, ThreadPair DEF IInv, Typed
  <1>9. GoodThreads(th') /\ Undisturbed(th', Other("sse"))
    <2>1. /\ th["sse"].pc \notin {"out", "off"} /\ th'["gtk"] = th["gtk"]
          /\ th'["sse"].req.room \in Rooms /\ th'["sse"].pc = "draw"
      BY <1>1, <1>2, <1>5, <1>7
    <2> QED
      BY <1>8, <2>1, DrawingKeeps, ThreadPair DEF IInv
  <1> QED
    BY <1>1, <1>2, <1>7, <1>9, AsideInv, ThreadPair

LEMMA RoomsDrawnInv == IInv /\ RoomsDrawn => IInv'
  <1> SUFFICES ASSUME IInv, RoomsDrawn PROVE IInv'
    OBVIOUS
  <1> DEFINE r == th["sse"].req.room
             q == Request("UPDATE_CHAT_LIST", r)
  <1>1. /\ UNCHANGED <<toServer, toClient, pushes, worker, curr, shown, scheduled, surplus>>
        /\ pushes \in Seq(Rooms) /\ Len(pushes) <= PushCap /\ scheduled \in BOOLEAN
        /\ th["sse"].pc = "draw"
        /\ th' = IF r = curr THEN Calling("sse", q) ELSE Rest("sse")
    BY DEF RoomsDrawn, IInv, Typed
  <1>2. CASE r = curr
    <2>1. MayCall("sse", q)
      BY <1>1 DEF IInv, GoodThreads, SseRole, MayCall, Request, CallRequests, Calls, RoomOrNone
    <2>2. GoodThreads(th') /\ Undisturbed(th', Other("sse")) /\ th'["sse"].pc = "send"
      BY <1>1, <1>2, <2>1, CallingKeeps, ThreadPair DEF IInv
    <2> QED
      BY <1>1, <2>2, AsideInv, ThreadPair
  <1>3. CASE r # curr
    <2>1. th' = [th EXCEPT !["sse"] = Resting("idle")]
      BY <1>1, <1>3 DEF Rest
    <2>2. GoodThreads(th') /\ Undisturbed(th', Other("sse")) /\ th'["sse"].pc = "idle"
      BY <1>1, <2>1, RestKeeps, ThreadPair DEF IInv
    <2> QED
      BY <1>1, <2>2, AsideInv, ThreadPair
  <1> QED
    BY <1>2, <1>3

-----------------------------------------------------------------------------
(* The steps of the server.                                                *)

(* A request is taken up: what remains is as it was. *)
LEMMA TakenUp ==
    ASSUME Typed, toServer # <<>>
    PROVE  /\ Head(toServer) \in Queued /\ Head(toServer) = toServer[1]
           /\ 1 \in 1 .. Len(toServer)
           /\ Tail(toServer) \in Seq(Queued) /\ Len(Tail(toServer)) <= QueueCap
           /\ \A i \in 1 .. Len(Tail(toServer)) :
                 i + 1 \in 1 .. Len(toServer) /\ Tail(toServer)[i] = toServer[i + 1]
  <1>1. toServer \in Seq(Queued) /\ Len(toServer) <= QueueCap /\ Len(toServer) \in Nat
    BY DEF Typed
  <1>2. Len(Tail(toServer)) = Len(toServer) - 1 /\ Len(toServer) > 0
    BY <1>1
  <1> QED
    BY <1>1, <1>2, CapAssumption

LEMMA AnswerInv == IInv /\ Answer => IInv'
  <1> SUFFICES ASSUME IInv, Answer PROVE IInv'
    OBVIOUS
  <1> DEFINE q == Head(toServer)
  <1>1. PICK ok \in {TRUE, ~Failing} :
           toClient' = Append(toClient, [type |-> q.type, ok |-> ok, room |-> q.room])
    BY DEF Answer
  <1> DEFINE m == [type |-> q.type, ok |-> ok, room |-> q.room]
  <1>2. /\ toServer # <<>> /\ q.type \in Calls /\ toServer' = Tail(toServer)
        /\ UNCHANGED <<th, pushes, worker, curr, shown, scheduled, surplus>>
    BY DEF Answer, client
  <1>3. /\ q \in Queued /\ q = toServer[1] /\ 1 \in 1 .. Len(toServer)
        /\ toServer' \in Seq(Queued) /\ Len(toServer') <= QueueCap
        /\ \A i \in 1 .. Len(toServer') :
              i + 1 \in 1 .. Len(toServer) /\ toServer'[i] = toServer[i + 1]
    BY <1>2, TakenUp DEF IInv
  <1>4. NumCalls(toServer') = NumCalls(toServer) - 1
    BY <1>2, CallsTail DEF IInv, Typed
  <1> HIDE DEF q
  <1>5. m \in Replies /\ m.room = q.room
    <2>1. q.room \in RoomOrNone
      BY <1>3 DEF Queued, PostRequests, RoomOrNone
    <2> QED
      BY <1>1, <1>2, <2>1, FailingAssumption DEF Replies
  <1> HIDE DEF m
  <1>6. /\ toClient' = Append(toClient, m) /\ toClient' \in Seq(Replies)
        /\ Len(toClient') = Len(toClient) + 1 /\ Len(toClient) \in Nat
        /\ toClient'[Len(toClient) + 1] = m
        /\ \A i \in 1 .. Len(toClient) : toClient'[i] = toClient[i]
    <2>1. toClient' = Append(toClient, m) /\ toClient \in Seq(Replies)
      BY <1>1 DEF m, IInv, Typed
    <2> QED
      BY <1>5, <2>1
  <1>7. Balance'
    BY <1>2, <1>4, <1>6, CallsFinite, BalanceSum DEF IInv, Typed, Even, Waits
  <1>8. OwnReplies'
    BY <1>2, <1>3, <1>5, <1>6 DEF IInv, OwnReplies, OwnReply
  <1> QED
    BY <1>2, <1>3, <1>6, <1>7, <1>8 DEF IInv, Typed

(* An error nobody will read.                                              *)
LEMMA ErrorKeeps ==
    ASSUME IInv, NEW q, q.type \in Posts, ErrorReply(q),
           th' = th, NumCalls(toServer') = NumCalls(toServer)
    PROVE  /\ toClient' \in Seq(Replies) /\ surplus' \in 0 .. MaxSurplus
           /\ Balance' /\ OwnReplies'
  <1> DEFINE m == [type |-> q.type, ok |-> FALSE, room |-> NoRoom]
  <1>1. /\ surplus < MaxSurplus /\ surplus' = surplus + 1 /\ toClient' = Append(toClient, m)
        /\ surplus \in 0 .. MaxSurplus /\ toClient \in Seq(Replies)
    BY DEF ErrorReply, IInv, Typed
  <1>2. m \in Replies
    BY DEF Replies, RoomOrNone
  <1> HIDE DEF m
  <1>3. toClient' \in Seq(Replies) /\ Len(toClient') = Len(toClient) + 1 /\ Len(toClient) \in Nat
    BY <1>1, <1>2
  <1>4. surplus' \in 0 .. MaxSurplus /\ surplus' # 0
    BY <1>1, CapAssumption
  <1>5. Balance'
    BY <1>1, <1>3, CallsFinite, BalanceSum DEF IInv, Typed, Even, Waits
  <1> QED
    BY <1>3, <1>4, <1>5, NothingSure

LEMMA ServePostInv == IInv /\ ServePost => IInv'
  <1> SUFFICES ASSUME IInv, ServePost PROVE IInv'
    OBVIOUS
  <1> DEFINE q == Head(toServer)
  <1>1. /\ toServer # <<>> /\ q.type \in Posts /\ toServer' = Tail(toServer)
        /\ UNCHANGED <<th, pushes, curr, shown, scheduled>>
        /\ \/ ErrorReply(q) /\ UNCHANGED worker
           \/ worker' = q /\ UNCHANGED <<surplus, toClient>>
    BY DEF ServePost, client
  <1>2. /\ q \in Queued
        /\ toServer' \in Seq(Queued) /\ Len(toServer') <= QueueCap
        /\ \A i \in 1 .. Len(toServer') :
              i + 1 \in 1 .. Len(toServer) /\ toServer'[i] = toServer[i + 1]
    BY <1>1, TakenUp DEF IInv
  <1>3. q.type \notin Calls
    BY <1>1 DEF Posts, Calls
  <1>4. NumCalls(toServer') = NumCalls(toServer)
    BY <1>1, <1>3, CallsTail, CallsFinite DEF IInv, Typed
  <1>5. q \in PostRequests
    BY <1>2, <1>3 DEF Queued
  <1> HIDE DEF q
  <1>6. CASE ErrorReply(q) /\ UNCHANGED worker
    BY <1>1, <1>2, <1>4, <1>6, ErrorKeeps DEF IInv, Typed
  <1>7. CASE worker' = q /\ UNCHANGED <<surplus, toClient>>
    <2>1. Balance'
      BY <1>1, <1>4, <1>7, BalanceSum DEF IInv, Even, Waits
    <2>2. OwnReplies'
      BY <1>1, <1>2, <1>7 DEF IInv, OwnReplies, OwnReply
    <2> QED
      BY <1>1, <1>2, <1>5, <1>7, <2>1, <2>2 DEF IInv, Typed
  <1> QED
    BY <1>1, <1>6, <1>7

(* A push to a full buffer waits, so that the bound holds. *)
LEMMA PushType ==
    ASSUME Typed, NEW r \in Rooms, Len(pushes) < PushCap
    PROVE  Append(pushes, r) \in Seq(Rooms) /\ Len(Append(pushes, r)) <= PushCap
  <1>1. pushes \in Seq(Rooms) /\ Len(pushes) \in Nat
    BY DEF Typed
  <1> QED
    BY <1>1, CapAssumption

LEMMA PushInv == IInv /\ Push => IInv'
  <1> SUFFICES ASSUME IInv, Push PROVE IInv'
    OBVIOUS
  <1>1. /\ worker # Free /\ worker' = Free
        /\ UNCHANGED <<th, toServer, curr, shown, scheduled>>
        /\ \/ Len(pushes) < PushCap /\ pushes' = Append(pushes, worker.room)
           \/ UNCHANGED pushes
        /\ \/ UNCHANGED <<surplus, toClient>>
           \/ ErrorReply(worker)
    BY DEF Push, client
  <1>2. worker.type \in Posts /\ worker.room \in Rooms
    BY <1>1 DEF IInv, Typed, PostRequests
  <1>3. pushes' \in Seq(Rooms) /\ Len(pushes') <= PushCap
    BY <1>1, <1>2, PushType DEF IInv, Typed
  <1>4. NumCalls(toServer') = NumCalls(toServer)
    BY <1>1
  <1>5. CASE UNCHANGED <<surplus, toClient>>
    <2>1. Balance'
      BY <1>1, <1>5, BalanceSum DEF IInv, Even, Waits
    <2>2. OwnReplies'
      BY <1>1, <1>5 DEF IInv, OwnReplies, OwnReply
    <2> QED
      BY <1>1, <1>3, <1>5, <2>1, <2>2 DEF IInv, Typed
  <1>6. CASE ErrorReply(worker)
    BY <1>1, <1>2, <1>3, <1>4, <1>6, ErrorKeeps DEF IInv, Typed
  <1> QED
    BY <1>1, <1>5, <1>6

LEMMA OtherPushInv == IInv /\ OtherPush => IInv'
  <1> SUFFICES ASSUME IInv, OtherPush PROVE IInv'
    OBVIOUS
  <1>1. /\ Len(pushes) < PushCap
        /\ UNCHANGED <<th, curr, shown, scheduled, toServer, toClient, worker, surplus>>
    BY DEF OtherPush, client
  <1>2. PICK r \in Rooms : pushes' = Append(pushes, r)
    BY DEF OtherPush
  <1>3. pushes' \in Seq(Rooms) /\ Len(pushes') <= PushCap
    BY <1>1, <1>2, PushType DEF IInv
  <1>4. Balance'
    BY <1>1, BalanceSum DEF IInv, Even, Waits
  <1>5. OwnReplies'
    BY <1>1 DEF IInv, OwnReplies, OwnReply
  <1> QED
    BY <1>1, <1>3, <1>4, <1>5 DEF IInv, Typed

-----------------------------------------------------------------------------
(* Together.                                                               *)

LEMMA StepInv == IInv /\ [Next]_vars => IInv'
  <1> SUFFICES ASSUME IInv, [Next]_vars PROVE IInv'
    OBVIOUS
  <1>1. CASE Callback \/ Post \/ Draw
    BY <1>1, CallbackInv, PostInv, DrawInv
  <1>2. ASSUME NEW t \in Threads, Step(t) PROVE IInv'
    BY <1>2, SendInv, TakeInv, SetCurrInv, SetDataInv DEF Step
  <1>3. CASE SseStep
    BY <1>3, ConnectInv, ReceivePushInv, RoomsDrawnInv DEF SseStep
  <1>4. CASE Serve \/ OtherPush
    BY <1>4, AnswerInv, ServePostInv, PushInv, OtherPushInv DEF Serve
  <1>5. CASE UNCHANGED vars
    <2>1. UNCHANGED <<th, toServer, toClient, pushes, worker, curr, shown, scheduled, surplus>>
      BY <1>5 DEF vars
    <2>2. Balance'
      BY <2>1, BalanceSum DEF IInv, Even, Waits
    <2>3. OwnReplies'
      BY <2>1 DEF IInv, OwnReplies, OwnReply
    <2> QED
      BY <2>1, <2>2, <2>3 DEF IInv, Typed
  <1> QED
    BY <1>1, <1>2, <1>3, <1>4, <1>5 DEF Next

(* The invariant holds in every state the client and the server reach.     *)
THEOREM Invariant == Spec => []IInv
  BY InitInv, StepInv, PTL DEF Spec

(* The threads, the two connections and the page keep their types, and the *)
(* buffers their bounds.                                                   *)
THEOREM TypeCorrect == Spec => []TypeOK
  <1>1. IInv => TypeOK
    <2> SUFFICES ASSUME IInv PROVE TypeOK
      OBVIOUS
    <2>1. ASSUME NEW t \in Threads
          PROVE  /\ th[t].pc \in Places
                 /\ th[t].req.type = "UPDATE_CHAT_LIST" => th[t].req.room \in Rooms
                 /\ th[t].alone \in BOOLEAN
      BY DEF IInv, GoodThreads, RoleOf, ThreadStates
    <2>2. worker = Free \/ worker.type \in Posts
      BY DEF IInv, Typed, PostRequests
    <2> QED
      BY <2>1, <2>2 DEF TypeOK, IInv, Typed, Places, RoomOrNone
  <1> QED
    BY <1>1, Invariant, PTL

(* Whichever thread takes whichever reply, none is lost and none is read   *)
(* twice: replies and open calls match the waiting threads and the errors  *)
(* left unread.                                                            *)
THEOREM BalanceKept == Spec => []Balance
  <1>1. IInv => Balance
    BY DEF IInv
  <1> QED
    BY <1>1, Invariant, PTL

(* A call that no other overlapped, with no error left unread, ends with   *)
(* its own reply and the page switched to its room.                        *)
THEOREM AloneServed == Spec => []AloneGetsOwn
  <1>1. IInv => AloneGetsOwn
    BY DEF IInv, OwnReplies, OwnReply, AloneGetsOwn
  <1> QED
    BY <1>1, Invariant, PTL
=============================================================================
