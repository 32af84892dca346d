------------------------- MODULE AcceptLoop_proofs -------------------------
(***************************************************************************)
(* The accept loop for any number of connections and any limit: what each  *)
(* worker serves, and how many workers a run of the server ever starts.    *)
(***************************************************************************)
EXTENDS AcceptLoop, FiniteSetTheorems, TLAPS

(* client_fds_num counts the two descriptors that are no clients and the   *)
(* connections that ever got a slot, closed ones included.                 *)
SlotsCounted ==
    /\ IsFiniteSet(Polled)
    /\ Cardinality(Polled) = slots - 2

(* Only a connection with a slot has a worker. *)
ServedHasSlot == \A c \in Conns : thread[c] # None => c \in Polled

IInv == TypeOK /\ ServesItsOwn /\ SlotsCounted /\ ServedHasSlot

(* Before main has accepted anything there are two slots and no worker. *)
LEMMA InitInv == Init => IInv
  <1> SUFFICES ASSUME Init PROVE IInv
    OBVIOUS
  <1>1. TypeOK
    <2>1. slots \in 2 .. MaxClient + 1
      BY LimitAssumption DEF Init
    <2>2. /\ stage \in [Conns -> {"out", "queued", "slot", "over", "closed"}]
          /\ thread \in [Conns -> Conns \cup {None}]
      BY DEF Init
    <2> QED
      BY <2>1, <2>2 DEF Init, TypeOK
  <1>2. Polled = {}
    BY DEF Init, Polled
  <1>3. SlotsCounted
    BY <1>2, FS_EmptySet DEF Init, SlotsCounted
  <1> QED
    BY <1>1, <1>3 DEF Init, IInv, ServesItsOwn, ServedHasSlot

(* A step that leaves the counter and every slot where they are keeps the  *)
(* count, and the workers' slots if it starts none.                        *)
LEMMA SameSlots ==
    ASSUME SlotsCounted, Polled' = Polled, slots' = slots
    PROVE  SlotsCounted'
  BY DEF SlotsCounted

(* Accepting counts the connection that gets a slot, and only that one. *)
LEMMA AcceptInv ==
    ASSUME IInv, Accept
    PROVE  IInv'
  <1>1. PICK c \in Queued :
            /\ cliSock' = c
            /\ IF slots < MaxClient + 1
               THEN stage' = [stage EXCEPT ![c] = "slot"] /\ slots' = slots + 1
               ELSE stage' = [stage EXCEPT ![c] = "over"] /\ UNCHANGED slots
    BY DEF Accept
  <1>2. c \in Conns /\ stage[c] = "queued" /\ c \notin Polled
    BY DEF Queued, Polled
  <1>3. thread' = thread /\ unread' = unread /\ console' = console /\ main' = "poll"
    BY DEF Accept
  <1>4. TypeOK'
    BY <1>1, <1>2, <1>3, LimitAssumption DEF IInv, TypeOK
  <1>5. CASE slots < MaxClient + 1
    <2>1. stage' = [stage EXCEPT ![c] = "slot"] /\ slots' = slots + 1
      BY <1>1, <1>5
    <2>2. Polled' = Polled \cup {c}
      BY <2>1, <1>2 DEF Polled, IInv, TypeOK
    <2>3. IsFiniteSet(Polled') /\ Cardinality(Polled') = Cardinality(Polled) + 1
      BY <2>2, <1>2, FS_AddElement DEF IInv, SlotsCounted
    <2>4. SlotsCounted'
      BY <2>1, <2>3 DEF IInv, SlotsCounted, TypeOK
    <2> QED
      BY <1>3, <1>4, <2>2, <2>4 DEF IInv, ServesItsOwn, ServedHasSlot
  <1>6. CASE ~(slots < MaxClient + 1)
    <2>1. stage' = [stage EXCEPT ![c] = "over"] /\ slots' = slots
      BY <1>1, <1>6
    <2>2. Polled' = Polled
      BY <2>1, <1>2 DEF Polled, IInv, TypeOK
    <2> QED
      BY <1>3, <1>4, <2>1, <2>2, SameSlots DEF IInv, ServesItsOwn, ServedHasSlot
  <1> QED
    BY <1>5, <1>6

(* A worker starts with the descriptor of its own connection. *)
LEMMA StartInv ==
    ASSUME IInv, NEW c \in Conns, Start(c)
    PROVE  IInv'
  <1>1. /\ stage[c] = "slot" /\ thread' = [thread EXCEPT ![c] = c]
        /\ UNCHANGED <<stage, slots, cliSock, unread, console, main>>
    BY DEF Start
  <1>2. Polled' = Polled /\ c \in Polled
    BY <1>1 DEF Polled
  <1>3. TypeOK'
    BY <1>1 DEF IInv, TypeOK
  <1>4. ServesItsOwn' /\ ServedHasSlot'
    BY <1>1, <1>2 DEF IInv, TypeOK, ServesItsOwn, ServedHasSlot
  <1> QED
    BY <1>1, <1>2, <1>3, <1>4, SameSlots DEF IInv

(* A worker that sees the end of its connection leaves the slot in place. *)
LEMMA ReceiveInv ==
    ASSUME IInv, NEW c \in Conns, Receive(c)
    PROVE  IInv'
  <1>1. /\ thread[c] \in unread /\ unread' = unread \ {thread[c]}
        /\ \/ stage' = stage
           \/ stage' = [stage EXCEPT ![thread[c]] = "closed"]
        /\ UNCHANGED <<slots, cliSock, thread, console, main>>
    BY DEF Receive
  <1>2. thread[c] = c /\ c \in Polled
    BY <1>1, NoneAssumption DEF IInv, TypeOK, ServesItsOwn, ServedHasSlot
  <1>3. Polled' = Polled
    BY <1>1, <1>2 DEF Polled, IInv, TypeOK
  <1>4. TypeOK'
    BY <1>1, <1>2 DEF IInv, TypeOK
  <1> QED
    BY <1>1, <1>3, <1>4, SameSlots DEF IInv, ServesItsOwn, ServedHasSlot

(* The clients and the operator touch no slot. *)
LEMMA OutsideInv ==
    ASSUME IInv, NEW c \in Conns, Connect(c) \/ Send(c) \/ Type
    PROVE  IInv'
  <1>1. CASE Connect(c)
    <2>1. Polled' = Polled
      BY <1>1 DEF Connect, Polled, IInv, TypeOK
    <2>2. TypeOK'
      BY <1>1 DEF Connect, IInv, TypeOK
    <2> QED
      BY <1>1, <2>1, <2>2, SameSlots DEF Connect, IInv, ServesItsOwn, ServedHasSlot
  <1>2. CASE Send(c) \/ Type
    <2>1. Polled' = Polled
      BY <1>2 DEF Send, Type, Polled
    <2>2. TypeOK'
      BY <1>2 DEF Send, Type, IInv, TypeOK
    <2> QED
      BY <1>2, <2>1, <2>2, SameSlots DEF Send, Type, IInv, ServesItsOwn, ServedHasSlot
  <1> QED
    BY <1>1, <1>2

(* Every step keeps the invariant. *)
LEMMA StepInv == IInv /\ [Next]_vars => IInv'
  <1> SUFFICES ASSUME IInv, [Next]_vars PROVE IInv'
    OBVIOUS
  <1>1. CASE Poll \/ ReadLine
    <2>1. Polled' = Polled
      BY <1>1 DEF Poll, ReadLine, Polled
    <2>2. TypeOK'
      BY <1>1 DEF Poll, ReadLine, IInv, TypeOK
    <2> QED
      BY <1>1, <2>1, <2>2, SameSlots DEF Poll, ReadLine, IInv, ServesItsOwn, ServedHasSlot
  <1>2. CASE Accept
    BY <1>2, AcceptInv
  <1>3. ASSUME NEW c \in Conns, Start(c) PROVE IInv'
    BY <1>3, StartInv
  <1>4. ASSUME NEW c \in Conns, Receive(c) PROVE IInv'
    BY <1>4, ReceiveInv
  <1>5. ASSUME NEW c \in Conns, Connect(c) \/ Send(c) PROVE IInv'
    BY <1>5, OutsideInv
  <1>6. CASE Type
    <2>1. Polled' = Polled
      BY <1>6 DEF Type, Polled
    <2>2. TypeOK'
      BY <1>6 DEF Type, IInv, TypeOK
    <2> QED
      BY <1>6, <2>1, <2>2, SameSlots DEF Type, IInv, ServesItsOwn, ServedHasSlot
  <1>7. CASE UNCHANGED vars
    <2>1. Polled' = Polled
      BY <1>7 DEF vars, Polled
    <2>2. TypeOK'
      BY <1>7 DEF vars, IInv, TypeOK
    <2> QED
      BY <1>7, <2>1, <2>2, SameSlots DEF vars, IInv, ServesItsOwn, ServedHasSlot
  <1> QED
    BY <1>1, <1>2, <1>3, <1>4, <1>5, <1>6, <1>7 DEF Next, MainStep

(* The workers are among the connections that hold a slot, and those are   *)
(* fewer than MAX_CLIENT.                                                  *)
LEMMA InvLimits == IInv => WorkersLimited
  <1> SUFFICES ASSUME IInv PROVE WorkersLimited
    OBVIOUS
  <1> DEFINE Served == {c \in Conns : thread[c] # None}
  <1>1. Served \subseteq Polled
    BY DEF IInv, ServedHasSlot
  <1>2. IsFiniteSet(Polled) /\ Cardinality(Polled) = slots - 2
    BY DEF IInv, SlotsCounted
  <1>3. IsFiniteSet(Served) /\ Cardinality(Served) <= Cardinality(Polled)
    BY <1>1, <1>2, FS_Subset
  <1>4. Cardinality(Served) \in Nat
    BY <1>3, FS_CardinalityType
  <1>5. Cardinality(Served) < MaxClient
    <2> HIDE DEF Served
    <2> QED
      BY <1>2, <1>3, <1>4, LimitAssumption DEF IInv, TypeOK
  <1> QED
    BY <1>5 DEF WorkersLimited

(* The invariant holds in every state the server reaches. *)
THEOREM Invariant == Spec => []IInv
  BY InitInv, StepInv, PTL DEF Spec

(* The state of the accept loop keeps its type; client_fds_num stays       *)
(* between 2 and MAX_CLIENT + 1.                                           *)
THEOREM TypeCorrect == Spec => []TypeOK
  <1>1. IInv => TypeOK
    BY DEF IInv
  <1> QED
    BY <1>1, Invariant, PTL

(* main hands each worker its descriptor in a cell of its own, so that it  *)
(* serves the connection it was started for, however late it runs.         *)
THEOREM OwnConnection == Spec => []ServesItsOwn
  <1>1. IInv => ServesItsOwn
    BY DEF IInv
  <1> QED
    BY <1>1, Invariant, PTL

(* Fewer than MAX_CLIENT workers are started in a run of the server,       *)
(* however many clients come and go: client_fds_num is never decremented.  *)
THEOREM FewWorkers == Spec => []WorkersLimited
  BY InvLimits, Invariant, PTL
=============================================================================
