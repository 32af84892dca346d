----------------------------- MODULE ChatStore ------------------------------
(***************************************************************************)
(* What the database layer promises to the command handlers: every call    *)
(* takes effect in one step, or not at all, and its answer is computed     *)
(* from the tables of that very step.  There is no connection, no mutex    *)
(* and no user variable here: a new message gets the number of messages    *)
(* the room already has, a new room the number of rooms.                   *)
(*                                                                         *)
(* A call that fails answers NULL, and the caller cannot tell whether it   *)
(* took effect.  MysqlConn is shown to implement this module.              *)
(***************************************************************************)
EXTENDS MysqlQuery

CONSTANTS Threads, CallNames

VARIABLES
    db,      \* the tables
    phase,   \* "idle", "pending", "applied" or "done"
    call,
    result

vars == <<db, phase, call, result>>

NoCall == [name |-> "none"]

Init ==
    /\ db = EmptyDb
    /\ phase = [t \in Threads |-> "idle"]
    /\ call = [t \in Threads |-> NoCall]
    /\ result = [t \in Threads |-> NullResult]

IssuedCalls == {c \in Calls : c.name \in CallNames}

Call(t, c) ==
    /\ phase[t] = "idle"
    /\ phase' = [phase EXCEPT ![t] = "pending"]
    /\ call' = [call EXCEPT ![t] = c]
    /\ UNCHANGED <<db, result>>

(* The call takes effect; its answer may still be lost. *)
Apply(t) ==
    /\ phase[t] = "pending"
    /\ phase' = [phase EXCEPT ![t] = "applied"]
    /\ db' = Effect(call[t], db)
    /\ \E a \in {Answer(call[t], db'), NullResult} : result' = [result EXCEPT ![t] = a]
    /\ UNCHANGED call

(* The call fails, before or after it took effect. *)
Fail(t) ==
    /\ phase[t] \in {"pending", "applied"}
    /\ phase' = [phase EXCEPT ![t] = "applied"]
    /\ result' = [result EXCEPT ![t] = NullResult]
    /\ UNCHANGED <<db, call>>

Finish(t) ==
    /\ phase[t] = "applied"
    /\ phase' = [phase EXCEPT ![t] = "done"]
    /\ UNCHANGED <<db, call, result>>

Return(t) ==
    /\ phase[t] = "done"
    /\ phase' = [phase EXCEPT ![t] = "idle"]
    /\ call' = [call EXCEPT ![t] = NoCall]
    /\ result' = [result EXCEPT ![t] = NullResult]
    /\ UNCHANGED db

(* A restart of the server forgets the calls and keeps the tables. *)
Restart ==
    /\ phase' = [t \in Threads |-> "idle"]
    /\ call' = [t \in Threads |-> NoCall]
    /\ result' = [t \in Threads |-> NullResult]
    /\ UNCHANGED db

Next ==
    \/ \E t \in Threads :
           \/ \E c \in IssuedCalls : Call(t, c)
           \/ Apply(t) \/ Fail(t) \/ Finish(t) \/ Return(t)
    \/ Restart

Spec == Init /\ [][Next]_vars
=============================================================================
