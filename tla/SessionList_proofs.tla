------------------------- MODULE SessionList_proofs -------------------------
(***************************************************************************)
(* NextIsYounger and SoloStays for any number of logins.  NextIsYounger is *)
(* not inductive on its own: a step of an append follows pointers, so its  *)
(* invariant also says that whatever a worker walks on was linked before,  *)
(* and that a session that is still to be linked is in nobody's reach.     *)
(* What SoloStays needs besides is in the second half.                     *)
(***************************************************************************)
EXTENDS SessionList, TLAPS

(* Only linked sessions are reachable, and only they have a successor. *)
Reach ==
    /\ head # NULL => stamp[head] > 0
    /\ \A s \in Logins : curr[s] # NULL => stamp[curr[s]] > 0
    /\ \A s \in Logins : next[s] # NULL => stamp[next[s]] > 0

(* A login that has not linked its session has no stamp; one that walks    *)
(* stands on a session.                                                    *)
Progress ==
    /\ \A s \in Logins : pc[s] \in {"login", "first", "walk", "link"} => stamp[s] = 0
    /\ \A s \in Logins : pc[s] \in {"walk", "link"} => curr[s] # NULL

Clock == \A s \in Logins : stamp[s] <= clock

IInv == TypeOK /\ Reach /\ Progress /\ Clock /\ NextIsYounger

(* The empty list satisfies the invariant. *)
THEOREM InitInv == Init => IInv
  BY NullAssumption DEF Init, IInv, TypeOK, Reach, Progress, Clock, NextIsYounger

(* Every step of every login keeps the invariant. *)
THEOREM NextInv == IInv /\ [Next]_vars => IInv'
<1> SUFFICES ASSUME IInv, [Next]_vars PROVE IInv'
  OBVIOUS
<1> USE NullAssumption DEF IInv, TypeOK, Reach, Progress, Clock, NextIsYounger
<1>1. ASSUME NEW s \in Logins, Begin(s) PROVE IInv'
  BY <1>1 DEF Begin, Appending
<1>2. ASSUME NEW s \in Logins, Search(s) PROVE IInv'
  BY <1>2 DEF Search
<1>3. ASSUME NEW s \in Logins, LinkFirst(s) PROVE IInv'
  BY <1>3 DEF LinkFirst, Linked
<1>4. ASSUME NEW s \in Logins, Walk(s) PROVE IInv'
  BY <1>4 DEF Walk
<1>5. ASSUME NEW s \in Logins, Link(s) PROVE IInv'
  BY <1>5 DEF Link, Linked
<1>6. ASSUME NEW s \in Logins, Seek(s) PROVE IInv'
  BY <1>6 DEF Seek
<1>7. CASE UNCHANGED vars
  BY <1>7 DEF vars
<1>8. QED
  BY <1>1, <1>2, <1>3, <1>4, <1>5, <1>6, <1>7 DEF Next, Work

(* Everything the invariant says holds in every reachable state. *)
THEOREM Invariance == Spec => []IInv
  BY InitInv, NextInv, PTL DEF Spec

(* However appends and searches of any number of logins interleave, next   *)
(* pointers lead from older to younger sessions: session_list never has a  *)
(* cycle, and a worker that searches it gets to its end.                   *)
THEOREM NoCycle == Spec => []NextIsYounger
<1>1. IInv => NextIsYounger
  BY DEF IInv
<1>2. QED
  BY <1>1, Invariance, PTL

(* The pointers of the list and of its walkers are sessions or NULL. *)
THEOREM Typing == Spec => []TypeOK
<1>1. IInv => TypeOK
  BY DEF IInv
<1>2. QED
  BY <1>1, Invariance, PTL
-----------------------------------------------------------------------------
(***************************************************************************)
(* SoloStays.  A later append may overwrite the next field of a session    *)
(* that has a successor and cut off what is behind it.  It never cuts off  *)
(* a solo session s, one whose append overlapped no other: an append that  *)
(* begins after s is linked passes s before it links, so that it changes   *)
(* the next field of s or of a session younger than s.                     *)
(***************************************************************************)

Solo == Logins \ shared

(* A worker that has searched has linked its session, and only one whose   *)
(* append overlapped another ever searches in vain.                        *)
Searching == \A s \in Logins :
    /\ pc[s] \in {"served", "search", "lost"} => stamp[s] > 0
    /\ pc[s] = "lost" => s \in shared
    /\ pc[s] = "search" /\ s \in Solo => Leads(next, curr[s], s)

(* While a solo login appends nobody else does: it walks on the list that  *)
(* head leads to, and its end stays the end until it links.                *)
Alone == \A s \in Solo :
    /\ s \in Appending => Appending = {s}
    /\ pc[s] \in {"walk", "link"} => Leads(next, head, curr[s])
    /\ pc[s] = "link" => next[curr[s]] = NULL

(* A linked solo session is in the list, and before every other append:    *)
(* it is ahead of one that walks until it is passed, and one that links    *)
(* has passed it.                                                          *)
Kept == \A s \in Solo : stamp[s] > 0 =>
    /\ Leads(next, head, s)
    /\ \A u \in Logins :
        /\ pc[u] # "first"
        /\ pc[u] = "walk" => stamp[s] <= stamp[curr[u]] \/ Leads(next, curr[u], s)
        /\ pc[u] = "link" => stamp[s] <= stamp[curr[u]]

SInv == Searching /\ Alone /\ Kept

(* Every session is on its own way.                                        *)
LEMMA LeadsStart ==
  ASSUME NEW n, NEW x PROVE Leads(n, x, x)
  BY DEF Leads

(* No way from the end of the list comes by a session.                     *)
LEMMA LeadsNowhere ==
  ASSUME NEW n, NEW s \in Logins PROVE ~ Leads(n, NULL, s)
<1>1. {NULL} \in SUBSET (Logins \cup {NULL}) /\ s \notin {NULL}
  BY NullAssumption
<1>2. QED
  BY <1>1 DEF Leads

(* A way that comes by s and has not reached it goes on from the next      *)
(* session.                                                                *)
LEMMA LeadsOn ==
  ASSUME NEW n, NEW x \in Logins, NEW s \in Logins, x # s, Leads(n, x, s)
  PROVE  Leads(n, n[x], s)
<1> SUFFICES ASSUME NEW S \in SUBSET (Logins \cup {NULL}), n[x] \in S,
                    \A y \in S \ {s, NULL} : n[y] \in S
             PROVE  s \in S
  BY DEF Leads
<1> DEFINE T == S \cup {x}
<1>1. T \in SUBSET (Logins \cup {NULL}) /\ x \in T
  OBVIOUS
<1>2. \A y \in T \ {s, NULL} : n[y] \in T
  OBVIOUS
<1>3. s \in T
  BY <1>1, <1>2 DEF Leads
<1>4. QED
  BY <1>3

(* A way that comes by a session comes by the one after it.                *)
LEMMA LeadsFurther ==
  ASSUME NEW n, NEW x, NEW c \in Logins, n[c] # c, Leads(n, x, c)
  PROVE  Leads(n, x, n[c])
<1> SUFFICES ASSUME NEW S \in SUBSET (Logins \cup {NULL}), x \in S,
                    \A y \in S \ {n[c], NULL} : n[y] \in S,
                    n[c] \notin S
             PROVE  FALSE
  BY DEF Leads
<1>1. \A y \in S \ {c, NULL} : n[y] \in S
  OBVIOUS
<1>2. c \in S
  BY <1>1 DEF Leads
<1>3. QED
  BY <1>2, NullAssumption

(* Changing the next field of s or of a younger session leaves the way to  *)
(* s as it is, for what comes after those is younger than s.               *)
LEMMA LinkKeepsLeads ==
  ASSUME NEW n \in [Logins -> Logins \cup {NULL}], NEW m \in [Logins -> Nat],
         \A y \in Logins : n[y] # NULL => m[y] < m[n[y]],
         NEW x, NEW s \in Logins, NEW c \in Logins, m[s] <= m[c], NEW k,
         \A y \in Logins \ {c} : k[y] = n[y],
         Leads(n, x, s)
  PROVE  Leads(k, x, s)
<1> SUFFICES ASSUME NEW S \in SUBSET (Logins \cup {NULL}), x \in S,
                    \A y \in S \ {s, NULL} : k[y] \in S,
                    s \notin S
             PROVE  FALSE
  BY DEF Leads
<1> DEFINE Younger == {y \in Logins : m[y] > m[s]}
<1> DEFINE T == S \cup {NULL} \cup Younger
<1>1. T \in SUBSET (Logins \cup {NULL}) /\ x \in T
  OBVIOUS
<1>2. ASSUME NEW y \in T \ {s, NULL} PROVE n[y] \in T
  <2>1. CASE y \in Younger \/ y = c
    <3>1. y \in Logins /\ m[y] >= m[s] /\ m[y] \in Nat /\ m[s] \in Nat
      BY <2>1
    <3>2. CASE n[y] = NULL
      BY <3>2
    <3>3. CASE n[y] # NULL
      <4>1. n[y] \in Logins /\ m[y] < m[n[y]] /\ m[n[y]] \in Nat
        BY <3>1, <3>3
      <4>2. n[y] \in Younger
        BY <3>1, <4>1
      <4>3. QED
        BY <4>2
    <3>4. QED
      BY <3>2, <3>3
  <2>2. CASE y \notin Younger /\ y # c
    BY <2>2
  <2>3. QED
    BY <2>1, <2>2
<1>3. s \in T
  <2> HIDE DEF T
  <2>1. QED
    BY <1>1, <1>2 DEF Leads
<1>4. s \in Younger
  BY <1>3, NullAssumption
<1>5. QED
  BY <1>4

(* No session is linked and nobody appends in the empty list.              *)
THEOREM InitSolo == Init => SInv
  BY DEF Init, SInv, Searching, Alone, Kept, Solo, Appending

(* An append that begins stands at the head of the list, before every      *)
(* linked session that is kept.                                            *)
LEMMA BeginKeeps ==
  ASSUME IInv, SInv, NEW u \in Logins, Begin(u)
  PROVE  SInv'
<1> USE DEF IInv, TypeOK, Solo
<1>1. pc[u] = "login" /\ UNCHANGED <<head, next, stamp>>
  BY DEF Begin
<1>2. \A w \in Logins \ {u} : pc'[w] = pc[w] /\ curr'[w] = curr[w]
  BY DEF Begin
<1>3. /\ pc'[u] \in {"first", "walk"}
      /\ pc'[u] = "first" => head = NULL
      /\ pc'[u] = "walk" => curr'[u] = head /\ head # NULL
  BY DEF Begin
<1>4. Appending' = Appending \cup {u}
  BY <1>1, <1>2, <1>3 DEF Appending
<1>5. /\ shared \subseteq shared'
      /\ Appending = {} \/ (Appending \cup {u} \subseteq shared')
  BY DEF Begin
<1>6. Searching'
  BY <1>1, <1>2, <1>3, <1>5 DEF SInv, Searching
<1>7. Alone'
  <2> SUFFICES ASSUME NEW s \in Logins, s \notin shared'
               PROVE  /\ s \in Appending' => Appending' = {s}
                      /\ pc'[s] \in {"walk", "link"} => Leads(next', head', curr'[s])
                      /\ pc'[s] = "link" => next'[curr'[s]] = NULL
    BY DEF Alone
  <2>1. CASE s = u
    <3>1. Appending' = {s}
      BY <2>1, <1>4, <1>5
    <3>2. pc'[s] = "walk" => Leads(next', head', curr'[s])
      BY <2>1, <1>1, <1>3, LeadsStart
    <3>3. QED
      BY <3>1, <3>2, <2>1, <1>3
  <2>2. CASE s # u
    BY <2>2, <1>1, <1>2, <1>4, <1>5 DEF SInv, Alone
  <2>3. QED
    BY <2>1, <2>2
<1>8. Kept'
  <2> SUFFICES ASSUME NEW s \in Logins, s \notin shared', stamp[s] > 0
               PROVE  /\ Leads(next, head, s)
                      /\ \A w \in Logins :
                            /\ pc'[w] # "first"
                            /\ pc'[w] = "walk" => stamp[s] <= stamp[curr'[w]]
                                                  \/ Leads(next, curr'[w], s)
                            /\ pc'[w] = "link" => stamp[s] <= stamp[curr'[w]]
    BY <1>1 DEF Kept
  <2>1. Leads(next, head, s)
    BY <1>5 DEF SInv, Kept
  <2>2. head # NULL
    BY <2>1, LeadsNowhere
  <2>3. QED
    BY <2>1, <2>2, <1>2, <1>3, <1>5 DEF SInv, Kept
<1>9. QED
  BY <1>6, <1>7, <1>8 DEF SInv

(* The head of the list leads to every kept session, so a search that      *)
(* begins there is going to meet it.                                       *)
LEMMA SearchKeeps ==
  ASSUME IInv, SInv, NEW u \in Logins, Search(u)
  PROVE  SInv'
<1> USE DEF IInv, TypeOK, Solo
<1>1. pc[u] = "served" /\ UNCHANGED <<head, next, stamp, shared>>
  BY DEF Search
<1>2. \A w \in Logins \ {u} : pc'[w] = pc[w] /\ curr'[w] = curr[w]
  BY DEF Search
<1>3. pc'[u] = "search" /\ curr'[u] = head
  BY DEF Search
<1>4. Appending' = Appending
  BY <1>1, <1>2, <1>3 DEF Appending
<1>5. Searching'
  BY <1>1, <1>2, <1>3 DEF SInv, Searching, Kept
<1>6. Alone' /\ Kept'
  BY <1>1, <1>2, <1>3, <1>4 DEF SInv, Alone, Kept
<1>7. QED
  BY <1>5, <1>6 DEF SInv

(* A search that stands before the session it looks for does not end       *)
(* without it.                                                             *)
LEMMA SeekKeeps ==
  ASSUME IInv, SInv, NEW u \in Logins, Seek(u)
  PROVE  SInv'
<1> USE DEF IInv, TypeOK, Solo
<1>1. pc[u] = "search" /\ UNCHANGED <<head, next, stamp, shared>>
  BY DEF Seek
<1>2. \A w \in Logins \ {u} : pc'[w] = pc[w] /\ curr'[w] = curr[w]
  BY DEF Seek
<1>3. \/ curr[u] = NULL /\ pc'[u] = "lost"
      \/ curr[u] = u /\ pc'[u] = "served"
      \/ curr[u] \notin {NULL, u} /\ pc'[u] = "search" /\ curr'[u] = next[curr[u]]
  BY DEF Seek
<1>4. Appending' = Appending
  BY <1>1, <1>2, <1>3 DEF Appending
<1>5. Searching'
  <2>1. stamp[u] > 0
    BY <1>1 DEF SInv, Searching
  <2>2. u \notin shared => Leads(next, curr[u], u)
    BY <1>1 DEF SInv, Searching
  <2>3. u \notin shared => pc'[u] # "lost"
    BY <2>2, <1>3, LeadsNowhere
  <2>4. u \notin shared /\ pc'[u] = "search" => Leads(next, curr'[u], u)
    BY <2>2, <1>3, LeadsOn
  <2>5. QED
    BY <2>1, <2>3, <2>4, <1>1, <1>2, <1>3 DEF SInv, Searching
<1>6. Alone' /\ Kept'
  BY <1>1, <1>2, <1>3, <1>4 DEF SInv, Alone, Kept
<1>7. QED
  BY <1>5, <1>6 DEF SInv

(* A step of a walk passes at most the session it stands on, and a walk    *)
(* that is at the end of the list has passed every kept one.               *)
LEMMA WalkKeeps ==
  ASSUME IInv, SInv, NEW u \in Logins, Walk(u)
  PROVE  SInv'
<1> USE DEF IInv, TypeOK, Solo
<1>1. pc[u] = "walk" /\ UNCHANGED <<head, next, stamp, shared>>
  BY DEF Walk
<1>2. \A w \in Logins \ {u} : pc'[w] = pc[w] /\ curr'[w] = curr[w]
  BY DEF Walk
<1>3. \/ /\ next[curr[u]] # NULL
         /\ pc'[u] = "walk" /\ curr'[u] = next[curr[u]]
      \/ /\ next[curr[u]] = NULL
         /\ pc'[u] = "link" /\ curr'[u] = curr[u]
  BY DEF Walk
<1>4. Appending' = Appending
  BY <1>1, <1>2, <1>3 DEF Appending
<1>5. curr[u] \in Logins
  BY <1>1 DEF Progress
<1>6. Searching'
  BY <1>1, <1>2, <1>3 DEF SInv, Searching
<1>7. Alone'
  <2>1. u \notin shared => Leads(next, head, curr[u])
    BY <1>1 DEF SInv, Alone
  <2>2. next[curr[u]] # curr[u]
    BY <1>5, NullAssumption DEF NextIsYounger
  <2>3. u \notin shared => Leads(next, head, next[curr[u]])
    BY <2>1, <2>2, <1>5, LeadsFurther
  <2>4. QED
    BY <2>1, <2>3, <1>1, <1>2, <1>3, <1>4 DEF SInv, Alone
<1>8. ASSUME NEW s \in Logins, s \notin shared, stamp[s] > 0
      PROVE  /\ pc'[u] = "walk" => stamp[s] <= stamp[curr'[u]] \/ Leads(next, curr'[u], s)
             /\ pc'[u] = "link" => stamp[s] <= stamp[curr'[u]]
  <2>1. stamp[s] <= stamp[curr[u]] \/ Leads(next, curr[u], s)
    BY <1>1, <1>8 DEF SInv, Kept
  <2>2. CASE stamp[s] <= stamp[curr[u]]
    BY <2>2, <1>3, <1>5 DEF NextIsYounger
  <2>3. CASE curr[u] # s /\ Leads(next, curr[u], s)
    <3>1. Leads(next, next[curr[u]], s)
      BY <2>3, <1>5, LeadsOn
    <3>2. next[curr[u]] # NULL
      BY <3>1, LeadsNowhere
    <3>3. QED
      BY <3>1, <3>2, <1>3
  <2>4. QED
    BY <2>1, <2>2, <2>3
<1>9. Kept'
  BY <1>1, <1>2, <1>3, <1>8 DEF SInv, Kept
<1>10. QED
  BY <1>6, <1>7, <1>9 DEF SInv

(* The first session is linked when no session is kept: it is the list.    *)
LEMMA LinkFirstKeeps ==
  ASSUME IInv, SInv, NEW u \in Logins, LinkFirst(u)
  PROVE  SInv'
<1> USE DEF IInv, TypeOK, Solo
<1>1. /\ pc[u] = "first" /\ head' = u
      /\ UNCHANGED <<next, curr, shared>>
  BY DEF LinkFirst
<1>2. pc'[u] = "served" /\ \A w \in Logins \ {u} : pc'[w] = pc[w]
  BY DEF LinkFirst, Linked
<1>3. stamp'[u] > 0 /\ \A w \in Logins \ {u} : stamp'[w] = stamp[w]
  BY DEF LinkFirst, Linked
<1>4. \A s \in Logins \ shared : stamp[s] = 0
  BY <1>1 DEF SInv, Kept
<1>5. u \in Appending /\ Appending' = Appending \ {u}
  BY <1>1, <1>2 DEF Appending
<1>6. u \notin shared => Appending' = {}
  BY <1>5 DEF SInv, Alone
<1>7. Searching'
  BY <1>1, <1>2, <1>3, <1>4 DEF SInv, Searching
<1>8. ASSUME NEW s \in Logins, s \notin shared PROVE s \notin Appending'
  BY <1>5, <1>8 DEF SInv, Alone
<1>9. Alone'
  BY <1>1, <1>8 DEF Alone, Appending
<1>10. Kept'
  <2> SUFFICES ASSUME NEW s \in Logins, s \notin shared, stamp'[s] > 0
               PROVE  /\ Leads(next, u, s)
                      /\ Appending' = {}
    BY <1>1 DEF Kept, Appending
  <2>1. s = u
    BY <1>3, <1>4
  <2>2. QED
    BY <2>1, <1>6, LeadsStart
<1>11. QED
  BY <1>7, <1>9, <1>10 DEF SInv

(* A link changes the next field of a session that is not older than any   *)
(* kept one; the new session is kept when the field was NULL.              *)
LEMMA LinkKeeps ==
  ASSUME IInv, SInv, NEW u \in Logins, Link(u)
  PROVE  SInv'
<1> USE DEF IInv, TypeOK, Solo
<1> DEFINE c == curr[u]
<1>1. /\ pc[u] = "link"
      /\ UNCHANGED <<head, curr, shared>>
  BY DEF Link
<1>2. pc'[u] = "served" /\ \A w \in Logins \ {u} : pc'[w] = pc[w]
  BY DEF Link, Linked
<1>3. stamp'[u] > 0 /\ \A w \in Logins \ {u} : stamp'[w] = stamp[w]
  BY DEF Link, Linked
<1>4. /\ c \in Logins /\ stamp[c] > 0
      /\ next'[c] = u /\ \A y \in Logins \ {c} : next'[y] = next[y]
  BY <1>1 DEF Link, Progress, Reach
<1>5. stamp[u] = 0 /\ c # u
  BY <1>1, <1>4 DEF Progress
<1>6. u \in Appending /\ Appending' = Appending \ {u}
  BY <1>1, <1>2 DEF Appending
<1>7. ASSUME NEW s \in Logins, s \notin shared PROVE s \notin Appending'
  BY <1>6, <1>7 DEF SInv, Alone
<1>8. ASSUME NEW s \in Logins, NEW x, stamp[s] <= stamp[c], Leads(next, x, s)
      PROVE  Leads(next', x, s)
  <2>1. /\ next \in [Logins -> Logins \cup {NULL}]
        /\ stamp \in [Logins -> Nat]
        /\ \A y \in Logins : next[y] # NULL => stamp[y] < stamp[next[y]]
    BY DEF NextIsYounger
  <2> HIDE DEF c
  <2>2. QED
    BY <2>1, <1>4, <1>8, LinkKeepsLeads
<1>9. ASSUME NEW s \in Logins, s \notin shared, stamp[s] > 0
      PROVE  stamp[s] <= stamp[c]
  BY <1>1, <1>9 DEF SInv, Kept
<1>10. Searching'
  <2>1. ASSUME NEW s \in Logins, s \notin shared, pc[s] = "search"
        PROVE  Leads(next', curr[s], s)
    <3>1. stamp[s] > 0 /\ Leads(next, curr[s], s)
      BY <2>1 DEF SInv, Searching
    <3>2. QED
      BY <3>1, <2>1, <1>8, <1>9
  <2>2. QED
    BY <2>1, <1>1, <1>2, <1>3 DEF SInv, Searching
<1>11. Alone'
  BY <1>1, <1>7 DEF Alone, Appending
<1>12. ASSUME u \notin shared PROVE Leads(next', head, u) /\ Appending' = {}
  <2>1. Leads(next, head, c) /\ Appending = {u}
    BY <1>1, <1>6, <1>12 DEF SInv, Alone
  <2>2. Leads(next', head, c)
    BY <2>1, <1>4, <1>8
  <2>3. Leads(next', head, next'[c])
    BY <2>2, <1>4, <1>5, LeadsFurther
  <2>4. QED
    BY <2>1, <2>3, <1>4, <1>6
<1>13. Kept'
  <2> SUFFICES ASSUME NEW s \in Logins, s \notin shared, stamp'[s] > 0
               PROVE  /\ Leads(next', head, s)
                      /\ \A w \in Logins :
                            /\ pc'[w] # "first"
                            /\ pc'[w] = "walk" => stamp'[s] <= stamp'[curr[w]]
                                                  \/ Leads(next', curr[w], s)
                            /\ pc'[w] = "link" => stamp'[s] <= stamp'[curr[w]]
    BY <1>1 DEF Kept
  <2>1. CASE s = u
    BY <2>1, <1>12 DEF Appending
  <2>2. CASE s # u
    <3>1. stamp'[s] = stamp[s] /\ stamp[s] > 0
      BY <2>2, <1>3
    <3>2. Leads(next, head, s) /\ Leads(next', head, s)
      BY <3>1, <1>8, <1>9 DEF SInv, Kept
    <3>3. ASSUME NEW w \in Logins, pc'[w] \in {"walk", "link"}
          PROVE  pc'[w] = pc[w] /\ w # u /\ curr[w] \in Logins /\ stamp'[curr[w]] = stamp[curr[w]]
      <4>1. w # u /\ pc'[w] = pc[w]
        BY <3>3, <1>2
      <4>2. curr[w] \in Logins /\ stamp[curr[w]] > 0
        BY <4>1, <3>3 DEF Progress, Reach
      <4>3. QED
        BY <4>1, <4>2, <1>3, <1>5
    <3>4. ASSUME NEW w \in Logins, pc'[w] = "walk"
          PROVE  stamp[s] <= stamp[curr[w]] \/ Leads(next', curr[w], s)
      <4>1. stamp[s] <= stamp[curr[w]] \/ Leads(next, curr[w], s)
        BY <3>1, <3>3, <3>4 DEF SInv, Kept
      <4>2. QED
        BY <4>1, <3>1, <1>8, <1>9
    <3>5. ASSUME NEW w \in Logins, pc'[w] = "link"
          PROVE  stamp[s] <= stamp[curr[w]]
      BY <3>1, <3>3, <3>5 DEF SInv, Kept
    <3>6. ASSUME NEW w \in Logins PROVE pc'[w] # "first"
      BY <3>1, <1>2 DEF SInv, Kept
    <3>7. QED
      BY <3>1, <3>2, <3>3, <3>4, <3>5, <3>6
  <2>3. QED
    BY <2>1, <2>2
<1>14. QED
  BY <1>10, <1>11, <1>13 DEF SInv

(* Every step of every login keeps the invariant of solo sessions.         *)
THEOREM NextSolo == IInv /\ SInv /\ [Next]_vars => SInv'
<1> SUFFICES ASSUME IInv, SInv, [Next]_vars PROVE SInv'
  OBVIOUS
<1>1. CASE UNCHANGED vars
  BY <1>1 DEF vars, SInv, Searching, Alone, Kept, Solo, Appending
<1>2. CASE Next
  BY <1>2, BeginKeeps, SearchKeeps, LinkFirstKeeps, WalkKeeps, LinkKeeps, SeekKeeps
  DEF Next, Work
<1>3. QED
  BY <1>1, <1>2

(* However appends and searches of any number of logins interleave, the    *)
(* session of a login whose append overlapped no other stays in            *)
(* session_list, and find_session_by_fd always finds it: only appends that *)
(* overlap lose sessions.                                                  *)
THEOREM SoloFound == Spec => []SoloStays
<1>1. Spec => [](IInv /\ SInv)
  <2>1. Init => IInv /\ SInv
    BY InitInv, InitSolo
  <2>2. IInv /\ SInv /\ [Next]_vars => (IInv /\ SInv)'
    BY NextInv, NextSolo
  <2>3. QED
    BY <2>1, <2>2, PTL DEF Spec
<1>2. SInv => SoloStays
  BY DEF SInv, Kept, Searching, SoloStays, Solo
<1>3. QED
  BY <1>1, <1>2, PTL
=============================================================================
