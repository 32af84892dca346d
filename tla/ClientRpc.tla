----------------------------- MODULE ClientRpc ------------------------------
(***************************************************************************)
(* The GTK client: the GTK thread runs callbacks, the SSE thread handles   *)
(* pushes, and both call send_and_receive on the one request connection    *)
(* sock_fd, without a lock: whichever thread is in recv first takes the    *)
(* next reply.  Messages are sent without reading an answer, so the reply  *)
(* to one that failed is left to the next call.                            *)
(*                                                                         *)
(* The server is its worker for sock_fd, which answers requests in order,  *)
(* and the pushes of other workers.  The send buffer of the push           *)
(* connection is finite, and a worker that finds it full waits.            *)
(*                                                                         *)
(* Left out: sign-up (a call like the login, before it), widgets other     *)
(* than the two lists, and the end of either program.                      *)
(***************************************************************************)
EXTENDS Integers, Sequences, FiniteSets

CONSTANTS
    Rooms,       \* rooms of the user
    Types,       \* calls and messages the user makes in this instance
    NoRoom,      \* no room shown yet
    QueueCap,    \* bound: requests on their way
    PushCap,     \* pushes the buffer of the push connection holds
    MaxSurplus,  \* bound: error replies to messages
    Failing      \* may the server answer a call with an error?

ASSUME RoomsAssumption == Rooms \subseteq Nat /\ NoRoom \in Int \ Nat
ASSUME CapAssumption == PushCap \in Nat \ {0} /\ QueueCap \in Nat \ {0} /\ MaxSurplus \in Nat
ASSUME FailingAssumption == Failing \in BOOLEAN

VARIABLES
    th,         \* per thread: where it is, its request, what it received
    toServer,   \* requests on sock_fd
    toClient,   \* replies on sock_fd
    pushes,     \* CHAT_UPDATED on sse_fd, by room
    worker,     \* the server's worker: Free, or the message it is pushing
    curr,       \* service_page->curr_room_id
    shown,      \* the room whose messages chat_list_data holds
    scheduled,  \* a draw function is queued with g_idle_add
    surplus     \* history: error replies to messages so far

vars == <<th, toServer, toClient, pushes, worker, curr, shown, scheduled, surplus>>
client == <<th, curr, shown, scheduled>>

Threads == {"gtk", "sse"}
Calls == {"LOGIN", "CREATE_ROOM", "UPDATE_ROOM_LIST", "Search_User", "UPDATE_CHAT_LIST"}
Posts == {"SEND_CHAT", "SEND_CHAT_REACT", "DELETE_CHAT"}
Request(type, room) == [type |-> type, room |-> room]
Free == Request("recv", NoRoom)
NoReply == [type |-> "none", ok |-> FALSE, room |-> NoRoom]

(* alone: the other thread has not been in a call since this one started.  *)
Resting(pc) == [pc |-> pc, req |-> Request("none", NoRoom), got |-> NoReply, alone |-> TRUE]

Init ==
    /\ th = [gtk |-> Resting("out"), sse |-> Resting("off")]
    /\ toServer = <<>> /\ toClient = <<>> /\ pushes = <<>>
    /\ worker = Free
    /\ curr = NoRoom /\ shown = NoRoom
    /\ scheduled = FALSE
    /\ surplus = 0

Other(t) == IF t = "gtk" THEN "sse" ELSE "gtk"
InCall(t) == th[t].pc \in {"send", "wait", "curr", "data"}
Listening == th["sse"].pc \notin {"off", "connect"}

(* Thread t enters send_and_receive with request q. *)
Calling(t, q) ==
    [th EXCEPT ![t] = [pc |-> "send", req |-> q, got |-> NoReply, alone |-> ~InCall(Other(t))],
               ![Other(t)].alone = @ /\ ~InCall(Other(t))]
-----------------------------------------------------------------------------
(* Callbacks of the GTK thread: login, select_room, search, add_room.      *)
Callback ==
    /\ \/ th["gtk"].pc = "out" /\ th' = Calling("gtk", Request("LOGIN", NoRoom))
       \/ /\ th["gtk"].pc = "idle"
          /\ \E q \in {Request("Search_User", NoRoom), Request("CREATE_ROOM", NoRoom)}
                      \cup {Request("UPDATE_CHAT_LIST", r) : r \in Rooms} :
                q.type \in Types /\ th' = Calling("gtk", q)
    /\ UNCHANGED <<toServer, toClient, pushes, worker, curr, shown, scheduled, surplus>>

(* send_chat, select_emoji, select_react, delete_all, delete_self, once a  *)
(* room is shown (before, curr_room_id is not initialised).                *)
Post ==
    /\ th["gtk"].pc = "idle" /\ curr # NoRoom /\ Len(toServer) < QueueCap
    /\ \E type \in Posts \cap Types : toServer' = Append(toServer, Request(type, curr))
    /\ UNCHANGED <<client, toClient, pushes, worker, surplus>>

Send(t) ==
    /\ th[t].pc = "send" /\ Len(toServer) < QueueCap
    /\ toServer' = Append(toServer, th[t].req)
    /\ th' = [th EXCEPT ![t].pc = "wait"]
    /\ UNCHANGED <<toClient, pushes, worker, curr, shown, scheduled, surplus>>

(* What a thread does with the reply to its call.                          *)
Matches(t, m) == m.ok /\ m.type = th[t].req.type
Rest(t) == [th EXCEPT ![t] = Resting("idle")]

(* Slip: the room list is not looked at before its first room is loaded.   *)
AfterUnchecked(t, m) ==
    CASE th[t].req.type = "LOGIN" ->
           {[Calling("gtk", Request("UPDATE_ROOM_LIST", NoRoom))
               EXCEPT !["sse"] = Resting("connect")]}
      [] th[t].req.type = "CREATE_ROOM" -> {Calling("gtk", Request("UPDATE_ROOM_LIST", NoRoom))}
      [] th[t].req.type = "UPDATE_ROOM_LIST" ->
           {Calling("gtk", Request("UPDATE_CHAT_LIST", NoRoom))}
      [] th[t].req.type = "UPDATE_CHAT_LIST" ->
           {[th EXCEPT ![t].pc = "curr", ![t].got = m]}
      [] OTHER -> {Rest(t)}

(* A login starts the SSE thread and loads the service page; so does a new *)
(* room.  The messages of the first room are loaded if its id is above 0.  *)
After(t, m) ==
    CASE th[t].req.type = "LOGIN" ->
           {[Calling("gtk", Request("UPDATE_ROOM_LIST", NoRoom))
               EXCEPT !["sse"] = Resting("connect")]}
      [] th[t].req.type = "CREATE_ROOM" -> {Calling("gtk", Request("UPDATE_ROOM_LIST", NoRoom))}
      [] th[t].req.type = "UPDATE_ROOM_LIST" ->
           {IF r > 0 THEN Calling("gtk", Request("UPDATE_CHAT_LIST", r)) ELSE Rest("gtk")
              : r \in Rooms}
      [] th[t].req.type = "UPDATE_CHAT_LIST" ->
           {[th EXCEPT ![t].pc = "curr", ![t].got = m]}
      [] OTHER -> {Rest(t)}

(* Slip: recv gives up after a while and the reply stays.                  *)
TakeOrTimeout(t) ==
    /\ th[t].pc = "wait"
    /\ \/ /\ toClient # <<>> /\ Matches(t, Head(toClient))
          /\ th' \in After(t, Head(toClient))
          /\ toClient' = Tail(toClient)
       \/ th[t].req.type # "LOGIN" /\ th' = Rest(t) /\ UNCHANGED toClient
    /\ UNCHANGED <<toServer, pushes, worker, curr, shown, scheduled, surplus>>

(* recv in send_and_receive: the next reply, whoever it was meant for.     *)
Take(t) ==
    /\ th[t].pc = "wait" /\ toClient # <<>>
    /\ toClient' = Tail(toClient)
    /\ IF Matches(t, Head(toClient))
       THEN /\ th' \in After(t, Head(toClient))
            /\ scheduled' = (scheduled \/ th[t].req.type = "UPDATE_ROOM_LIST")
       ELSE /\ th' = IF th[t].req.type = "LOGIN"
                     THEN [th EXCEPT ![t] = Resting("out")] ELSE Rest(t)
            /\ UNCHANGED scheduled
    /\ UNCHANGED <<toServer, pushes, worker, curr, shown, surplus>>

(* reload_chat_list after its answer: first the room, then the messages.   *)
SetCurr(t) ==
    /\ th[t].pc = "curr"
    /\ curr' = th[t].req.room
    /\ th' = [th EXCEPT ![t].pc = "data"]
    /\ UNCHANGED <<toServer, toClient, pushes, worker, shown, scheduled, surplus>>

(* Without a list of rooms, which a failed query leaves, it gives up here. *)
SetData(t) ==
    /\ th[t].pc = "data"
    /\ \/ shown' = th[t].got.room /\ scheduled' = TRUE
       \/ Failing /\ UNCHANGED <<shown, scheduled>>
    /\ th' = Rest(t)
    /\ UNCHANGED <<toServer, toClient, pushes, worker, curr, surplus>>

(* The GTK thread runs a queued draw function when it is idle. *)
Draw ==
    /\ \/ th["gtk"].pc = "idle" /\ scheduled
          /\ th' = [th EXCEPT !["gtk"].pc = "draw"] /\ scheduled' = FALSE
       \/ th["gtk"].pc = "draw" /\ th' = Rest("gtk") /\ UNCHANGED scheduled
    /\ UNCHANGED <<toServer, toClient, pushes, worker, curr, shown, surplus>>

(* The SSE thread: registered, a push received (the room list is drawn at  *)
(* once), and the messages loaded if the push is for the current room.     *)
Connect ==
    /\ th["sse"].pc = "connect"
    /\ th' = Rest("sse")
    /\ UNCHANGED <<toServer, toClient, pushes, worker, curr, shown, scheduled, surplus>>

ReceivePush ==
    /\ th["sse"].pc = "idle" /\ pushes # <<>>
    /\ th' = [th EXCEPT !["sse"].pc = "draw", !["sse"].req.room = Head(pushes)]
    /\ pushes' = Tail(pushes)
    /\ UNCHANGED <<toServer, toClient, worker, curr, shown, scheduled, surplus>>

RoomsDrawn ==
    LET r == th["sse"].req.room IN
    /\ th["sse"].pc = "draw"
    /\ th' = IF r = curr THEN Calling("sse", Request("UPDATE_CHAT_LIST", r)) ELSE Rest("sse")
    /\ UNCHANGED <<toServer, toClient, pushes, worker, curr, shown, scheduled, surplus>>
-----------------------------------------------------------------------------
(* The server.  A call is answered once. *)
(* Slip: a call that fails is not answered. *)
AnswerSilent ==
    LET q == Head(toServer) IN
    /\ worker = Free /\ toServer # <<>> /\ q.type \in Calls
    /\ \E ok \in {TRUE, ~Failing} :
          toClient' = IF ok THEN Append(toClient, [type |-> q.type, ok |-> ok, room |-> q.room])
                      ELSE toClient
    /\ toServer' = Tail(toServer)
    /\ UNCHANGED <<client, pushes, worker, surplus>>

Answer ==
    LET q == Head(toServer) IN
    /\ worker = Free /\ toServer # <<>> /\ q.type \in Calls
    /\ \E ok \in {TRUE, ~Failing} :
          toClient' = Append(toClient, [type |-> q.type, ok |-> ok, room |-> q.room])
    /\ toServer' = Tail(toServer)
    /\ UNCHANGED <<client, pushes, worker, surplus>>

ErrorReply(q) ==
    /\ surplus < MaxSurplus
    /\ surplus' = surplus + 1
    /\ toClient' = Append(toClient, [type |-> q.type, ok |-> FALSE, room |-> NoRoom])

(* A message: refused for want of a session, or stored and then pushed. *)
ServePost ==
    LET q == Head(toServer) IN
    /\ worker = Free /\ toServer # <<>> /\ q.type \in Posts
    /\ \/ ErrorReply(q) /\ UNCHANGED worker
       \/ worker' = q /\ UNCHANGED <<surplus, toClient>>
    /\ toServer' = Tail(toServer)
    /\ UNCHANGED <<client, pushes>>

(* Slip: a message is answered when it has been pushed. *)
PushAnswered ==
    /\ worker # Free
    /\ Listening => Len(pushes) < PushCap
    /\ pushes' = IF Listening THEN Append(pushes, worker.room) ELSE pushes
    /\ toClient' = Append(toClient, [type |-> worker.type, ok |-> TRUE, room |-> NoRoom])
    /\ worker' = Free
    /\ UNCHANGED <<client, toServer, surplus>>

(* send_chat_in_room: this client is pushed to, before the loop is given   *)
(* up at another member's dead connection, after it, or without.  The      *)
(* failure is reported unless the message is a reaction.                   *)
Push ==
    /\ worker # Free
    /\ \/ Listening /\ Len(pushes) < PushCap /\ pushes' = Append(pushes, worker.room)
       \/ ~Listening /\ UNCHANGED pushes
       \/ surplus < MaxSurplus /\ UNCHANGED pushes
    /\ \/ UNCHANGED <<surplus, toClient>>
       \/ worker.type # "SEND_CHAT_REACT" /\ ErrorReply(worker)
    /\ worker' = Free
    /\ UNCHANGED <<client, toServer>>

(* Another member's worker pushes. *)
OtherPush ==
    /\ Listening /\ Len(pushes) < PushCap
    /\ \E r \in Rooms : pushes' = Append(pushes, r)
    /\ UNCHANGED <<client, toServer, toClient, worker, surplus>>

Step(t) == Send(t) \/ Take(t) \/ SetCurr(t) \/ SetData(t)
SseStep == Connect \/ ReceivePush \/ RoomsDrawn
Serve == Answer \/ ServePost \/ Push

Next ==
    \/ Callback \/ Post \/ Draw
    \/ \E t \in Threads : Step(t)
    \/ SseStep \/ Serve \/ OtherPush

(* Threads and the worker run; the user and other members need not act. *)
Fairness ==
    /\ \A t \in Threads : WF_vars(Step(t))
    /\ WF_vars(SseStep) /\ WF_vars(Serve) /\ WF_vars(Draw)

Spec == Init /\ [][Next]_vars /\ Fairness
-----------------------------------------------------------------------------
TypeOK ==
    /\ \A t \in Threads :
          /\ th[t].pc \in {"out", "off", "connect", "idle", "send", "wait", "curr", "data", "draw"}
          /\ th[t].req.type = "UPDATE_CHAT_LIST" => th[t].req.room \in Rooms
          /\ th[t].alone \in BOOLEAN
    /\ Len(toServer) <= QueueCap /\ Len(pushes) <= PushCap
    /\ worker = Free \/ worker.type \in Posts
    /\ {curr, shown} \subseteq Rooms \cup {NoRoom}
    /\ scheduled \in BOOLEAN /\ surplus \in 0 .. MaxSurplus

(* Whichever thread takes whichever reply, none is lost: the replies and   *)
(* unanswered calls on sock_fd are as many as the waiting threads and the  *)
(* errors nobody reads.  So no call waits in vain, and after an unread     *)
(* error every later call gets the reply to an earlier request, for good.  *)
Waiting == {t \in Threads : th[t].pc = "wait"}
NumWaiting == IF Waiting = {} THEN 0 ELSE IF Waiting = Threads THEN 2 ELSE 1
Unanswered == {i \in 1 .. Len(toServer) : toServer[i].type \in Calls}
Balance == Len(toClient) + Cardinality(Unanswered) = NumWaiting + surplus

(* A reload of the messages that no other call overlapped, with no error   *)
(* left unread, has the messages of the room the page is switched to.      *)
AloneGetsOwn ==
    \A t \in Threads :
        th[t].pc \in {"curr", "data"} /\ th[t].alone /\ surplus = 0 =>
            /\ th[t].got.room = th[t].req.room
            /\ th[t].pc = "data" => curr = th[t].req.room

(* Two threads that wait on sock_fd at once do not do so for ever, unless  *)
(* the worker that should answer is itself stuck at a full push buffer.    *)
OneGetsThrough ==
    []<>(Len(pushes) < PushCap) => ((Waiting = Threads) ~> (Waiting # Threads))

(* "update both the room list and the chat list": a push for the current   *)
(* room ends with the messages of that room reloaded.                      *)
CurrentRoomUpdated ==
    [][InCall("sse") /\ th'["sse"].pc = "idle"
       => th["sse"].pc = "data" /\ shown' = th["sse"].req.room]_vars
=============================================================================
