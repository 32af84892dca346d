----------------------------- MODULE MysqlConn ------------------------------
(***************************************************************************)
(* mysql_common.c: the one MySQL connection `conn` of the server process   *)
(* and the mutex mysql_mutex that every worker thread takes around a call. *)
(* A thread locks, checks or repairs the connection, runs the statements   *)
(* of its call one by one, and unlocks on every path.                      *)
(*                                                                         *)
(* mysql_query_execute pings and reconnects before its statement;          *)
(* mysql_multi_query_execute only looks whether conn is NULL, ignores the  *)
(* outcome of its reconnection and then dereferences conn.                 *)
(*                                                                         *)
(* The environment may drop the connection at any time (Drop), end and     *)
(* restart the process (Restart) and refuse a connection (in Reconnect).   *)
(***************************************************************************)
EXTENDS MysqlQuery

CONSTANTS
    Threads,    \* worker threads (client_thread_func)
    NoThread,   \* value of owner when mysql_mutex is free
    CallNames,  \* the calls this instance issues
    MaxChats,   \* bound: messages inserted in one room
    MaxRooms,   \* bound: rooms created
    Faulty      \* may the connection drop and the process end?

ASSUME NoThreadAssumption == NoThread \notin Threads
ASSUME FaultyAssumption == Faulty \in BOOLEAN

VARIABLES
    owner,   \* holder of mysql_mutex
    conn,    \* the global conn: "up", "down" (dropped by the server), "null"
    var,     \* user variables of the connection
    db,      \* the tables, kept by the MySQL server
    pc,      \* where each thread is in its call
    call,    \* the call of each thread
    k,       \* the statement of its call each thread is at
    result   \* what the call returned

vars == <<owner, conn, var, db, pc, call, k, result>>

NoCall == [name |-> "none"]
Holding == {"begin", "exec", "unlock"}

Init ==
    /\ owner = NoThread
    /\ conn = "up"
    /\ var = NoVars
    /\ db = EmptyDb
    /\ pc = [t \in Threads |-> "idle"]
    /\ call = [t \in Threads |-> NoCall]
    /\ k = [t \in Threads |-> 1]
    /\ result = [t \in Threads |-> NullResult]

IssuedCalls == {c \in Calls : c.name \in CallNames}

(* Bound: a call that inserts is issued only while it fits the bounds. *)
Issued(name) == Cardinality({t \in Threads : call[t].name = name})
WithinBounds(c) ==
    /\ c.name = "insert_chat" =>
           NextChatId(c.room, db) + Issued("insert_chat") < MaxChats
    /\ c.name = "insert_room" => NextRoomId(db) + Issued("insert_room") < MaxRooms

(* Clients name only rooms that exist. *)
KnownRoom(c) == "room" \in DOMAIN c => c.room \in db.room

Call(t, c) ==
    /\ pc[t] = "idle"
    /\ KnownRoom(c) /\ WithinBounds(c)
    /\ pc' = [pc EXCEPT ![t] = "wait"]
    /\ call' = [call EXCEPT ![t] = c]
    /\ UNCHANGED <<owner, conn, var, db, k, result>>

(* Slip: the mutex is taken without waiting for it. *)
LockUnguarded(t) ==
    /\ pc[t] = "wait"
    /\ owner' = t
    /\ pc' = [pc EXCEPT ![t] = "begin"]
    /\ UNCHANGED <<conn, var, db, call, k, result>>

Lock(t) ==
    /\ pc[t] = "wait"
    /\ owner = NoThread
    /\ owner' = t
    /\ pc' = [pc EXCEPT ![t] = "begin"]
    /\ UNCHANGED <<conn, var, db, call, k, result>>

(* mysql_connect: a new connection, whose user variables are unset, or a   *)
(* refusal that leaves conn NULL.                                          *)
Reconnect ==
    \/ conn' = "up" /\ var' = NoVars
    \/ Faulty /\ conn' = "null" /\ UNCHANGED var

Fail(t) ==
    /\ pc' = [pc EXCEPT ![t] = "unlock"]
    /\ result' = [result EXCEPT ![t] = NullResult]

(* mysql_query_execute: conn NULL or ping failed, so reconnect or give up. *)
CheckSingle(t) ==
    /\ pc[t] = "begin" /\ ~Multi(call[t])
    /\ IF conn = "up" THEN UNCHANGED <<conn, var>> ELSE Reconnect
    /\ IF conn' = "up"
       THEN pc' = [pc EXCEPT ![t] = "exec"] /\ UNCHANGED result
       ELSE Fail(t)
    /\ UNCHANGED <<owner, db, call, k>>

(* mysql_multi_query_execute: only NULL is looked for, the outcome ignored. *)
CheckMulti(t) ==
    /\ pc[t] = "begin" /\ Multi(call[t])
    /\ IF conn = "null" THEN Reconnect ELSE UNCHANGED <<conn, var>>
    /\ pc' = [pc EXCEPT ![t] = "exec"]
    /\ UNCHANGED <<owner, db, call, k, result>>

Statement(t) == Statements(call[t])[k[t]]
IsLast(t) == k[t] = Len(Statements(call[t]))

(* The statement runs; the last one leaves the result of the call. *)
Execute(t) ==
    /\ pc[t] = "exec" /\ conn = "up"
    /\ ~Rejected(Statement(t), call[t], db, var)
    /\ db' = Write(Statement(t), call[t], db, var)
    /\ var' = Assign(Statement(t), call[t], db, var)
    /\ IF IsLast(t)
       THEN /\ pc' = [pc EXCEPT ![t] = "unlock"]
            /\ result' = [result EXCEPT ![t] = Select(Statement(t), call[t], db, var)]
            /\ UNCHANGED k
       ELSE k' = [k EXCEPT ![t] = @ + 1] /\ UNCHANGED <<pc, result>>
    /\ UNCHANGED <<owner, conn, call>>

(* The statement breaks a constraint: mysql_stmt_execute fails. *)
Reject(t) ==
    /\ pc[t] = "exec" /\ conn = "up"
    /\ Rejected(Statement(t), call[t], db, var)
    /\ Fail(t)
    /\ UNCHANGED <<owner, conn, var, db, call, k>>

(* Slip: an error path that returns without pthread_mutex_unlock. *)
PrepareFailsLocked(t) ==
    /\ pc[t] = "exec" /\ conn = "down"
    /\ pc' = [pc EXCEPT ![t] = "done"]
    /\ result' = [result EXCEPT ![t] = NullResult]
    /\ UNCHANGED <<owner, conn, var, db, call, k>>

(* The connection is gone when the statement is prepared. *)
PrepareFails(t) ==
    /\ pc[t] = "exec" /\ conn = "down"
    /\ Fail(t)
    /\ UNCHANGED <<owner, conn, var, db, call, k>>

(* The connection is lost while the statement runs: the MySQL server has   *)
(* carried it out, the thread only sees the failure.                       *)
LoseAnswer(t) ==
    /\ Faulty
    /\ pc[t] = "exec" /\ conn = "up"
    /\ ~Rejected(Statement(t), call[t], db, var)
    /\ db' = Write(Statement(t), call[t], db, var)
    /\ conn' = "down"
    /\ Fail(t)
    /\ UNCHANGED <<owner, var, call, k>>

(* Slip: the mutex is given back by whoever is done, held or not. *)
UnlockTwice(t) ==
    /\ pc[t] \in {"unlock", "done"}
    /\ owner' = NoThread
    /\ pc' = [pc EXCEPT ![t] = "done"]
    /\ k' = [k EXCEPT ![t] = 1]
    /\ UNCHANGED <<conn, var, db, call, result>>

(* Slip: the next call starts before its first statement. *)
UnlockFromZero(t) ==
    /\ pc[t] = "unlock"
    /\ owner' = NoThread
    /\ pc' = [pc EXCEPT ![t] = "done"]
    /\ k' = [k EXCEPT ![t] = 0]
    /\ UNCHANGED <<conn, var, db, call, result>>

Unlock(t) ==
    /\ pc[t] = "unlock"
    /\ owner' = NoThread
    /\ pc' = [pc EXCEPT ![t] = "done"]
    /\ k' = [k EXCEPT ![t] = 1]
    /\ UNCHANGED <<conn, var, db, call, result>>

Return(t) ==
    /\ pc[t] = "done"
    /\ pc' = [pc EXCEPT ![t] = "idle"]
    /\ call' = [call EXCEPT ![t] = NoCall]
    /\ result' = [result EXCEPT ![t] = NullResult]
    /\ UNCHANGED <<owner, conn, var, db, k>>

Drop ==
    /\ Faulty
    /\ conn = "up"
    /\ conn' = "down"
    /\ UNCHANGED <<owner, var, db, pc, call, k, result>>

(* The process ends and is started again: main connects before it serves.  *)
Reboot ==
    /\ owner' = NoThread
    /\ conn' = "up"
    /\ var' = NoVars
    /\ pc' = [t \in Threads |-> "idle"]
    /\ call' = [t \in Threads |-> NoCall]
    /\ k' = [t \in Threads |-> 1]
    /\ result' = [t \in Threads |-> NullResult]
    /\ UNCHANGED db

Restart == Faulty /\ Reboot

(* The loop head of mysql_multi_query_execute tries a second connection;   *)
(* when that is refused too, mysql_stmt_init(NULL) takes the process down. *)
Retry(t) ==
    /\ pc[t] = "exec" /\ conn = "null"
    /\ \/ Reconnect /\ conn' = "up"
          /\ UNCHANGED <<owner, db, pc, call, k, result>>
       \/ Faulty /\ Reboot

Work(t) ==
    \/ Lock(t) \/ CheckSingle(t) \/ CheckMulti(t) \/ Retry(t) \/ Execute(t)
    \/ Reject(t) \/ PrepareFails(t) \/ LoseAnswer(t) \/ Unlock(t) \/ Return(t)

Next ==
    \/ \E t \in Threads : (\E c \in IssuedCalls : Call(t, c)) \/ Work(t)
    \/ Drop
    \/ Restart

(* A thread that can go on in its call does: the handlers contain no other *)
(* waiting.  The mutex itself is not assumed fair.                         *)
Fairness == \A t \in Threads : WF_vars(Work(t))

Spec == Init /\ [][Next]_vars /\ Fairness
-----------------------------------------------------------------------------
CallState == {"idle", "wait", "begin", "exec", "unlock", "done"}
Vars == [Variables -> Nat \cup {Null}]

TypeOK ==
    /\ owner \in Threads \cup {NoThread}
    /\ conn \in {"up", "down", "null"}
    /\ var \in Vars
    /\ db \in Db
    /\ pc \in [Threads -> CallState]
    /\ call \in [Threads -> Calls \cup {NoCall}]
    /\ k \in [Threads -> Nat \ {0}]
    /\ DOMAIN result = Threads /\ \A t \in Threads : result[t].null \in BOOLEAN

(* Threads that are inside a call hold mysql_mutex, and only they do. *)
OwnerInside == \A t \in Threads : (pc[t] \in Holding) <=> (owner = t)

(* Between the statement that computes @max_id and the one that inserts    *)
(* with it, neither the variable nor the rows it was computed from have    *)
(* changed, whatever other threads do on the shared connection.            *)
MaxIdIsMine ==
    \A t \in Threads : pc[t] = "exec" /\ k[t] = 2 /\ conn = "up" =>
        /\ call[t].name = "insert_chat" =>
               var["max_id"] = NextChatId(call[t].room, db)
        /\ call[t].name = "insert_room" => var["max_id"] = NextRoomId(db)
        /\ call[t].name = "get_members" =>
               var["max_chat_id"] = LastChatId(call[t].room, db)

(* Messages of a room are numbered 0, 1, 2, ... without a gap and no two   *)
(* share a number, although the primary key would let two users do so.     *)
ChatIdsDense == IdsDense(db)

(* No member has read past the end of the room: unread counts computed as  *)
(* differences with last_read never count a message that does not exist.   *)
LastReadInRange == ReadInRange(db)

(* Two threads that create a room at the same time are told different ids. *)
RoomIdsPrivate ==
    \A t1, t2 \in Threads :
        /\ t1 # t2
        /\ \A t \in {t1, t2} : pc[t] = "done" /\ call[t].name = "insert_room"
        => result[t1].rows \cap result[t2].rows = {}

(* "number of unread messages": what the client shows beside a room of its *)
(* user is the number of messages at or after the user's read position.    *)
BadgeCountsUnread ==
    \A r \in Rooms : \A u \in Members(r, db) :
        Badge(RoomItem(r, u, db)) =
            Cardinality({x \in RoomChats(r, db) : x.id >= db.lastRead[r][u]})

(* A message keeps its number and author for ever, restarts included, is   *)
(* at most marked deleted, and nobody's read position moves backwards.     *)
HistoryGrows == [][Grows(db, db')]_vars

(* However two threads interleave their insertions of the same id, the     *)
(* first password stays.                                                   *)
PasswordKept ==
    [][\A u \in Users : db.account[u] # NoAccount => db'.account[u] = db.account[u]]_vars

(* However two threads interleave their insertions, a user has at most one *)
(* reaction to a message, and it can change but not vanish.                *)
ReactionKept ==
    [][\A x \in db.react :
           Cardinality(Reactions(x.user, x.room, x.chat, db')) = 1]_vars

(* Every path of a call gives the mutex back. *)
LockReleased == \A t \in Threads : (owner = t) ~> (owner # t)
(***************************************************************************)
(* The calls implement ChatStore.  A call has taken effect there once the  *)
(* statement below has run here; its answer is fixed from then on, because *)
(* the mutex is held until the rows are fetched.                           *)
(***************************************************************************)
EffectAt(c) == IF c.name \in {"insert_chat", "insert_room", "get_members"} THEN 2 ELSE 1

Phase(t) ==
    CASE pc[t] = "idle" -> "idle"
      [] pc[t] = "done" -> "done"
      [] pc[t] = "unlock" \/ (pc[t] = "exec" /\ k[t] > EffectAt(call[t])) -> "applied"
      [] OTHER -> "pending"

(* The answer fixed by then: a creation has still to read its id back, and *)
(* the list of messages to be read.                                        *)
Outcome(t) ==
    IF pc[t] = "exec" /\ k[t] > EffectAt(call[t])
    THEN IF call[t].name = "insert_room" THEN Result({var["max_id"]})
         ELSE Select("select_chats", call[t], db, var)
    ELSE result[t]

Store == INSTANCE ChatStore WITH
    phase  <- [t \in Threads |-> Phase(t)],
    result <- [t \in Threads |-> Outcome(t)]

(* Every call of mysql_common.c is one atomic call of ChatStore. *)
ImplementsStore == Store!Spec
=============================================================================
