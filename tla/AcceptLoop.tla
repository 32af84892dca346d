----------------------------- MODULE AcceptLoop -----------------------------
(***************************************************************************)
(* main of server.c: one thread polls the listening socket, the console    *)
(* and the descriptors of all clients, accepts connections and starts a    *)
(* worker for each.  When poll returns for anything but a new connection,  *)
(* main reads a line from the console, and waits there for it.             *)
(*                                                                         *)
(* Left out: failures of poll, accept and pthread_create; the length of    *)
(* client_sock_fds, which MAX_CLIENT exceeds.  Stdin stays open.           *)
(***************************************************************************)
EXTENDS Integers, FiniteSets

CONSTANTS
    Conns,      \* connections clients open
    None,       \* no connection
    MaxClient   \* MAX_CLIENT of common.h

ASSUME NoneAssumption == None \notin Conns
ASSUME LimitAssumption == MaxClient \in Nat \ {0}

VARIABLES
    stage,    \* "out", "queued" in the backlog, "slot", "over" the limit, "closed"
    slots,    \* client_fds_num
    cliSock,  \* the global cli_sock: the connection accepted last
    thread,   \* the connection each worker serves, None before it has started
    unread,   \* connections with something to read
    console,  \* a line is waiting on stdin
    main      \* where main is: "poll", "accept" or "fgets"

vars == <<stage, slots, cliSock, thread, unread, console, main>>

Init ==
    /\ stage = [c \in Conns |-> "out"]
    /\ slots = 2
    /\ cliSock = None
    /\ thread = [c \in Conns |-> None]
    /\ unread = {}
    /\ console = FALSE
    /\ main = "poll"

Queued == {c \in Conns : stage[c] = "queued"}
Polled == {c \in Conns : stage[c] \in {"slot", "closed"}}

(* A closed descriptor stays in the array and makes poll return at once.   *)
Ready ==
    \/ Queued # {}
    \/ console
    \/ Polled \cap unread # {}
    \/ \E c \in Polled : stage[c] = "closed"

(* Slip: the console is looked at before the listening socket.             *)
PollConsoleFirst ==
    /\ main = "poll" /\ Ready
    /\ main' = IF Queued = {} \/ Polled # {} THEN "fgets" ELSE "accept"
    /\ UNCHANGED <<stage, slots, cliSock, thread, unread, console>>

Poll ==
    /\ main = "poll" /\ Ready
    /\ main' = IF Queued # {} THEN "accept" ELSE "fgets"
    /\ UNCHANGED <<stage, slots, cliSock, thread, unread, console>>

(* Slip: the limit is not looked at. *)
AcceptUnlimited ==
    /\ main = "accept"
    /\ \E c \in Queued :
          /\ cliSock' = c
          /\ stage' = [stage EXCEPT ![c] = "slot"]
    /\ slots' = slots + 1
    /\ main' = "poll"
    /\ UNCHANGED <<thread, unread, console>>

(* A connection beyond the limit is accepted and then left alone. *)
Accept ==
    /\ main = "accept"
    /\ \E c \in Queued :
          /\ cliSock' = c
          /\ IF slots < MaxClient + 1
             THEN stage' = [stage EXCEPT ![c] = "slot"] /\ slots' = slots + 1
             ELSE stage' = [stage EXCEPT ![c] = "over"] /\ UNCHANGED slots
    /\ main' = "poll"
    /\ UNCHANGED <<thread, unread, console>>

(* fgets returns when there is a line. *)
ReadLine ==
    /\ main = "fgets" /\ console
    /\ console' = FALSE
    /\ main' = "poll"
    /\ UNCHANGED <<stage, slots, cliSock, thread, unread>>

(* Slip: the worker is handed &cli_sock.                                   *)
StartShared(c) ==
    /\ stage[c] = "slot" /\ thread[c] = None
    /\ thread' = [thread EXCEPT ![c] = cliSock]
    /\ UNCHANGED <<stage, slots, cliSock, unread, console, main>>

(* client_thread_func reads its descriptor from the cell main allocated.   *)
Start(c) ==
    /\ stage[c] = "slot" /\ thread[c] = None
    /\ thread' = [thread EXCEPT ![c] = c]
    /\ UNCHANGED <<stage, slots, cliSock, unread, console, main>>

(* Slip: a connection that ends gives its slot back. *)
ReceiveFrees(c) ==
    /\ thread[c] \in unread
    /\ unread' = unread \ {thread[c]}
    /\ stage' = [stage EXCEPT ![thread[c]] = "closed"]
    /\ slots' = slots - 1
    /\ UNCHANGED <<cliSock, thread, console, main>>

(* A worker receives a request, or the end of the connection. *)
Receive(c) ==
    /\ thread[c] \in unread
    /\ unread' = unread \ {thread[c]}
    /\ \/ UNCHANGED stage
       \/ stage' = [stage EXCEPT ![thread[c]] = "closed"]
    /\ UNCHANGED <<slots, cliSock, thread, console, main>>

(* The clients and the operator at the console. *)
Connect(c) ==
    /\ stage[c] = "out"
    /\ stage' = [stage EXCEPT ![c] = "queued"]
    /\ UNCHANGED <<slots, cliSock, thread, unread, console, main>>

Send(c) ==
    /\ stage[c] \in {"queued", "slot", "over"} /\ c \notin unread
    /\ unread' = unread \cup {c}
    /\ UNCHANGED <<stage, slots, cliSock, thread, console, main>>

Type ==
    /\ ~console
    /\ console' = TRUE
    /\ UNCHANGED <<stage, slots, cliSock, thread, unread, main>>

MainStep == Poll \/ Accept \/ ReadLine

Next ==
    \/ MainStep
    \/ \E c \in Conns : Start(c) \/ Receive(c) \/ Connect(c) \/ Send(c)
    \/ Type

(* main and the workers run; nobody promises to type. *)
Fairness == WF_vars(MainStep) /\ \A c \in Conns : WF_vars(Start(c))

Spec == Init /\ [][Next]_vars /\ Fairness
-----------------------------------------------------------------------------
TypeOK ==
    /\ stage \in [Conns -> {"out", "queued", "slot", "over", "closed"}]
    /\ slots \in 2 .. MaxClient + 1
    /\ cliSock \in Conns \cup {None}
    /\ thread \in [Conns -> Conns \cup {None}]
    /\ unread \subseteq Conns
    /\ console \in BOOLEAN
    /\ main \in {"poll", "accept", "fgets"}

(* However many connections are accepted before a worker gets to run, each *)
(* worker serves the connection it was started for.                        *)
ServesItsOwn == \A c \in Conns : thread[c] \in {c, None}

(* A slot is never given back, and the two descriptors that are no clients *)
(* count: however clients come and go, fewer than MAX_CLIENT workers are   *)
(* started in a whole run of the server.                                   *)
WorkersLimited == Cardinality({c \in Conns : thread[c] # None}) < MaxClient

(* As long as main does not stay at the console, every connection is taken *)
(* off the backlog.                                                        *)
ConnectionsAccepted ==
    []<>(main # "fgets") =>
        \A c \in Conns : (stage[c] = "queued") ~> (stage[c] # "queued")
=============================================================================
