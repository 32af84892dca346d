---------------------------- MODULE SessionList -----------------------------
(***************************************************************************)
(* The list of sessions of server_sock.c: a singly linked list that the    *)
(* workers of all logins append to and search without a lock.              *)
(*                                                                         *)
(* A login appends one session, then its worker looks the session up again *)
(* (find_session_by_fd) for every request.  A step is one read or one      *)
(* write of a pointer that another worker may write.  The fields of a      *)
(* session are set before it is linked, and sessions are never removed.    *)
(*                                                                         *)
(* Memory is sequentially consistent here; the program has no barrier.     *)
(***************************************************************************)
EXTENDS Integers

CONSTANTS
    Logins,   \* logins, and the sessions they append
    NULL

ASSUME NullAssumption == NULL \notin Logins

VARIABLES
    head,    \* session_list
    next,    \* next[s]: the next field of session s
    pc,      \* where the worker of each login is
    curr,    \* its local pointer curr
    stamp,   \* history: when session s was linked, 0 before
    clock,   \* history: number of sessions linked so far
    shared   \* history: logins whose append overlapped another one

vars == <<head, next, pc, curr, stamp, clock, shared>>

(* Slip: the next field of a new session is not set.                       *)
InitUnset ==
    /\ head = NULL
    /\ next = [s \in Logins |-> "unset"]
    /\ pc = [s \in Logins |-> "login"]
    /\ curr = [s \in Logins |-> NULL]
    /\ stamp = [s \in Logins |-> 0]
    /\ clock = 0
    /\ shared = {}

Init ==
    /\ head = NULL
    /\ next = [s \in Logins |-> NULL]
    /\ pc = [s \in Logins |-> "login"]
    /\ curr = [s \in Logins |-> NULL]
    /\ stamp = [s \in Logins |-> 0]
    /\ clock = 0
    /\ shared = {}

Appending == {s \in Logins : pc[s] \in {"first", "walk", "link"}}

(* add_session: is the list empty? *)
Begin(s) ==
    /\ pc[s] = "login"
    /\ pc' = [pc EXCEPT ![s] = IF head = NULL THEN "first" ELSE "walk"]
    /\ curr' = [curr EXCEPT ![s] = head]
    /\ shared' = IF Appending = {} THEN shared ELSE shared \cup Appending \cup {s}
    /\ UNCHANGED <<head, next, stamp, clock>>

Linked(s) ==
    /\ clock' = clock + 1
    /\ stamp' = [stamp EXCEPT ![s] = clock + 1]
    /\ pc' = [pc EXCEPT ![s] = "served"]

(* session_list = new_session. *)
LinkFirst(s) ==
    /\ pc[s] = "first"
    /\ head' = s
    /\ Linked(s)
    /\ UNCHANGED <<next, curr, shared>>

(* Slip: the walk to the end of the list is missing.                       *)
WalkPast(s) ==
    /\ pc[s] = "walk"
    /\ pc' = [pc EXCEPT ![s] = "link"]
    /\ UNCHANGED <<head, next, curr, stamp, clock, shared>>

(* One turn of while(curr->next != NULL). *)
Walk(s) ==
    /\ pc[s] = "walk"
    /\ IF next[curr[s]] # NULL
       THEN curr' = [curr EXCEPT ![s] = next[curr[s]]] /\ UNCHANGED pc
       ELSE pc' = [pc EXCEPT ![s] = "link"] /\ UNCHANGED curr
    /\ UNCHANGED <<head, next, stamp, clock, shared>>

(* Slip: the new session is put before curr instead of behind it.          *)
LinkBefore(s) ==
    /\ pc[s] = "link"
    /\ next' = [next EXCEPT ![s] = curr[s]]
    /\ Linked(s)
    /\ UNCHANGED <<head, curr, shared>>

(* Slip: the end of the list points back to its head.                      *)
LinkRound(s) ==
    /\ pc[s] = "link"
    /\ next' = [next EXCEPT ![curr[s]] = s, ![s] = head]
    /\ Linked(s)
    /\ UNCHANGED <<head, curr, shared>>

(* curr->next = new_session, although it may be the end no longer. *)
Link(s) ==
    /\ pc[s] = "link"
    /\ next' = [next EXCEPT ![curr[s]] = s]
    /\ Linked(s)
    /\ UNCHANGED <<head, curr, shared>>

(* find_session_by_fd for the next request of this login. *)
Search(s) ==
    /\ pc[s] = "served"
    /\ pc' = [pc EXCEPT ![s] = "search"]
    /\ curr' = [curr EXCEPT ![s] = head]
    /\ UNCHANGED <<head, next, stamp, clock, shared>>

(* Slip: the last session of the list is never compared.                   *)
SeekShort(s) ==
    /\ pc[s] = "search"
    /\ \/ /\ curr[s] = NULL \/ next[curr[s]] = NULL
          /\ pc' = [pc EXCEPT ![s] = "lost"] /\ UNCHANGED curr
       \/ /\ curr[s] = s /\ next[s] # NULL
          /\ pc' = [pc EXCEPT ![s] = "served"] /\ UNCHANGED curr
       \/ /\ curr[s] \notin {NULL, s} /\ next[curr[s]] # NULL
          /\ curr' = [curr EXCEPT ![s] = next[curr[s]]] /\ UNCHANGED pc
    /\ UNCHANGED <<head, next, stamp, clock, shared>>

(* One turn of its loop.  "lost": Session_Not_Found for this login. *)
Seek(s) ==
    /\ pc[s] = "search"
    /\ \/ curr[s] = NULL /\ pc' = [pc EXCEPT ![s] = "lost"] /\ UNCHANGED curr
       \/ curr[s] = s /\ pc' = [pc EXCEPT ![s] = "served"] /\ UNCHANGED curr
       \/ /\ curr[s] \notin {NULL, s}
          /\ curr' = [curr EXCEPT ![s] = next[curr[s]]] /\ UNCHANGED pc
    /\ UNCHANGED <<head, next, stamp, clock, shared>>

Work(s) == LinkFirst(s) \/ Walk(s) \/ Link(s) \/ Seek(s)

Next == \E s \in Logins : Begin(s) \/ Search(s) \/ Work(s)

(* A worker goes on with the append or the search it has begun. *)
Fairness == \A s \in Logins : WF_vars(Work(s))

Spec == Init /\ [][Next]_vars /\ Fairness
-----------------------------------------------------------------------------
TypeOK ==
    /\ head \in Logins \cup {NULL}
    /\ next \in [Logins -> Logins \cup {NULL}]
    /\ pc \in [Logins -> {"login", "first", "walk", "link", "served", "search", "lost"}]
    /\ curr \in [Logins -> Logins \cup {NULL}]
    /\ stamp \in [Logins -> Nat]
    /\ clock \in Nat
    /\ shared \subseteq Logins

(* The next field of a session names one that was linked later, whatever   *)
(* appends overlap: the list has no cycle, so no lookup runs for ever.     *)
NextIsYounger ==
    \A s \in Logins : next[s] # NULL => /\ 0 < stamp[s]
                                       /\ stamp[s] < stamp[next[s]]

(* The way from x along the pointers n comes by s: a set that holds x, and *)
(* with each session but s the one after it, holds s.                      *)
Leads(n, x, s) ==
    \A S \in SUBSET (Logins \cup {NULL}) :
        x \in S /\ (\A y \in S \ {s, NULL} : n[y] \in S) => s \in S

(* Appends that overlap lose sessions; one that overlapped no other is in  *)
(* the list for good, and its worker finds it whenever it searches.        *)
SoloStays == \A s \in Logins \ shared :
    /\ stamp[s] > 0 => Leads(next, head, s)
    /\ pc[s] # "lost"

(* Every append and every search comes to an end. *)
LoopsEnd ==
    \A s \in Logins : (pc[s] \in {"walk", "search"}) ~> (pc[s] \notin {"walk", "search"})
=============================================================================
