------------------------- MODULE ServicePage_proofs -------------------------
(***************************************************************************)
(* The page of the client, for any rooms, messages and pushes: what the    *)
(* two threads leave of the lists and the widgets they share without a     *)
(* lock.  The proof is by what each list is like while a thread fills,     *)
(* drops or draws it, as long as the history says nothing of a meeting.    *)
(***************************************************************************)
EXTENDS ServicePage, TLAPS

-----------------------------------------------------------------------------
(* Where a thread is.                                                      *)

Asks == {"asked", "answer", "failed", "alloc", "copy"}
Drops == {"null", "zero"}
Draws == Drops \cup {"item"}
Stages == {"idle", "create", "drawn"} \cup Asks \cup Draws

In(t, k, S) == th[t].kind = k /\ th[t].pc \in S
Fills(t, k) == In(t, k, {"alloc", "copy"})

Thread == [pc : Stages, kind : Lists, room : Rooms \cup {None}, got : Seq(Items),
           i : Nat, len : Nat]
Data == [ptr : {"wild", "null", "heap"}, items : Seq(Items)]
Chats == {None} \cup 0 .. MaxChats - 1

(* The types of everything. *)
Typed ==
    /\ th \in [Threads -> Thread]
    /\ list \in [Lists -> [size : Nat, data : Data]]
    /\ box \in [Lists -> Seq(Items)]
    /\ queued \subseteq Lists
    /\ curr \in Rooms \cup {None}
    /\ menu \in [open : {"none", "chat", "mark"}, chat : Chats, named : Chats]
    /\ joined \in Seq(Rooms)
    /\ count \in [Rooms -> 0 .. MaxChats]
    /\ pushes \in Seq(Rooms)
    /\ crashed \in Threads \cup {"no"}
    /\ clicked \in [item : Items, stale : BOOLEAN]
    /\ spoiled \in {"no", "yes", "reloading"}
    /\ tangled \in BOOLEAN

(* Which thread can be where. *)
Shape ==
    /\ th["gtk"].pc # "drawn" /\ th["sse"].pc # "create"
    /\ th["sse"].pc \in Draws => th["sse"].kind = "rooms"
    /\ th["sse"].pc \in Asks => th["sse"].kind = "chats"
    /\ th["sse"].pc \in Draws \cup {"drawn"} => th["sse"].room \in Rooms
    /\ \A t \in Threads :
          /\ In(t, "chats", Asks) => th[t].room \in Rooms
          /\ th[t].pc = "item" => th[t].i \in 1 .. th[t].len
          /\ th[t].pc = "asked" => th[t].got = <<>>
          /\ In(t, "rooms", {"answer", "alloc", "copy"}) =>
                \A i \in DOMAIN th[t].got : \E r \in Rooms : th[t].got[i] = RoomItem(r)
          /\ Fills(t, "rooms") => th[t].got # <<>>

(* Before the first load of messages there are none. *)
Unopened == curr = None =>
    /\ list["chats"].size = 0 /\ box["chats"] = <<>>
    /\ ~In("gtk", "chats", {"item"})
    /\ \A t \in Threads : ~Fills(t, "chats")
    /\ menu.open = "none"

(* No more messages than there may be. *)
Bounded ==
    /\ list["chats"].size <= MaxChats
    /\ Len(box["chats"]) <= MaxChats
    /\ \A t \in Threads :
          In(t, "chats", {"answer", "alloc", "copy"}) => Len(th[t].got) <= MaxChats
    /\ In("gtk", "chats", {"item"}) =>
          th["gtk"].len <= MaxChats /\ Len(box["chats"]) < th["gtk"].i

-----------------------------------------------------------------------------
(* The list of rooms.                                                      *)

(* No thread is between two assignments to the list of rooms. *)
Settled ==
    /\ ~Fills("gtk", "rooms") /\ ~In("sse", "rooms", Drops)
    /\ ~In("gtk", "rooms", {"zero"})

Rows == list["rooms"].data.items

(* However the threads meet, the size and the array agree in the end. *)
RoomsMemory ==
    /\ Settled /\ list["rooms"].size > 0 =>
          /\ list["rooms"].data.ptr = "heap"
          /\ Len(Rows) = list["rooms"].size
          /\ \A i \in DOMAIN Rows : \E r \in Rooms : Rows[i] = RoomItem(r)
    /\ Fills("gtk", "rooms") => list["rooms"].size \in {0, Len(th["gtk"].got)}
    /\ In("gtk", "rooms", {"copy"}) /\ ~In("sse", "rooms", Drops) =>
          list["rooms"].size = 0 \/ list["rooms"].data = Malloc(Len(th["gtk"].got))

(* Room r is shown, listed, open, or about to be. *)
Wanted(r) ==
    \/ r = curr
    \/ \E i \in DOMAIN box["rooms"] : box["rooms"][i][1] = r
    \/ \E i \in DOMAIN Rows : Rows[i][1] = r
    \/ \E t \in Threads : In(t, "chats", Asks) /\ th[t].room = r

(* A room that was once shown stays listed, if any is. *)
RoomKept(r) ==
    /\ \E i \in DOMAIN joined : joined[i] = r
    /\ list["rooms"].data.ptr # "wild"
    /\ In("gtk", "rooms", {"answer", "alloc", "copy"}) /\ th["gtk"].got # <<>> =>
          \E i \in DOMAIN th["gtk"].got : th["gtk"].got[i] = RoomItem(r)
    /\ Settled /\ list["rooms"].size > 0 => \E i \in DOMAIN Rows : Rows[i] = RoomItem(r)

RoomsKept ==
    /\ \A r \in Rooms : Wanted(r) => RoomKept(r)
    /\ In("gtk", "rooms", {"answer", "alloc", "copy"}) =>
          \A i \in DOMAIN th["gtk"].got :
             \E j \in DOMAIN joined : th["gtk"].got[i] = RoomItem(joined[j])

(* The widgets are the first n items of a list. *)
Shows(widgets, items, n) == Len(widgets) = n /\ \A i \in 1 .. n : widgets[i] = items[i]

(* Thread t is between two assignments to the list of rooms, or draws it.  *)
AtRooms(t) == In(t, "rooms", {"alloc", "copy", "null", "zero", "item"})

CalmRooms ==
    /\ Fills("gtk", "rooms") => list["rooms"].size = Len(th["gtk"].got)
    /\ In("gtk", "rooms", {"copy"}) => list["rooms"].data = Malloc(Len(th["gtk"].got))
    /\ In("sse", "rooms", Drops) => list["rooms"].size = 0
    /\ \A t \in Threads : In(t, "rooms", {"zero"}) => list["rooms"].data = Pointer("null")
    /\ ~Fills("gtk", "rooms") /\ list["rooms"].size = 0 =>
          list["rooms"].data.ptr # "heap" /\ Rows = <<>>
    /\ \A t \in Threads : In(t, "rooms", {"item"}) =>
          th[t].len = list["rooms"].size /\ Shows(box["rooms"], Rows, th[t].i - 1)
    /\ \A t \in Threads : In(t, "rooms", Drops) => box["rooms"] = <<>>
    /\ \/ "rooms" \in queued \/ \E t \in Threads : AtRooms(t)
       \/ Shows(box["rooms"], Rows, list["rooms"].size)

(* The list of rooms and its widgets, as long as no two threads met there. *)
RoomsCalm == ~tangled => ~Tangle /\ CalmRooms

-----------------------------------------------------------------------------
(* The messages.                                                           *)

(* The first n messages of room r. *)
Messages(items, r, n) == Len(items) = n /\ \A i \in 1 .. n : items[i] = <<r, i - 1>>
Pushed(r) == \E i \in DOMAIN pushes : pushes[i] = r
Lines == list["chats"].data.items
OfRoom(item) == item = Junk \/ item[1] = curr

(* A load that meets nobody takes what the server has. *)
LoadAlone ==
    /\ Meet => spoiled = "yes"
    /\ spoiled # "yes" => \A t \in Threads :
          /\ In(t, "chats", {"answer", "alloc", "copy"}) =>
                /\ Messages(th[t].got, th[t].room, Len(th[t].got))
                /\ Len(th[t].got) <= count[th[t].room]
                /\ Len(th[t].got) = count[th[t].room] \/ Pushed(th[t].room)
          /\ Fills(t, "chats") =>
                th[t].room = curr /\ list["chats"].size = Len(th[t].got)
          /\ In(t, "chats", {"copy"}) => list["chats"].data = Malloc(Len(th[t].got))
    /\ spoiled = "reloading" => "chats" \notin queued /\ ~In("gtk", "chats", Draws)

(* The SSE thread is busy with room r. *)
BusyWith(r) == ~At("sse", "idle") /\ th["sse"].room = r

(* The list of messages. *)
CalmChats ==
    /\ th["sse"].pc \in Asks => th["sse"].room = curr
    /\ At("sse", "answer") => list["chats"].size <= Len(th["sse"].got)
    /\ In("gtk", "chats", Drops) => list["chats"].size = 0
    /\ (\A t \in Threads : ~Fills(t, "chats")) =>
          /\ Messages(Lines, curr, list["chats"].size)
          /\ list["chats"].size > 0 => list["chats"].data.ptr = "heap"
          /\ curr # None =>
                /\ list["chats"].size <= count[curr]
                /\ list["chats"].size = count[curr] \/ Pushed(curr) \/ BusyWith(curr)
    /\ ~Fills("gtk", "chats") => \A i \in DOMAIN Lines : OfRoom(Lines[i])

(* The widgets of the messages. *)
ShownChats ==
    /\ In("gtk", "chats", {"item"}) =>
          /\ th["gtk"].len <= list["chats"].size
          /\ Fills("sse", "chats") \/ "chats" \in queued
             \/ /\ th["gtk"].len = list["chats"].size
                /\ Messages(box["chats"], curr, th["gtk"].i - 1)
    /\ \/ "chats" \in queued \/ In("gtk", "chats", {"item"})
       \/ \E t \in Threads : Fills(t, "chats")
       \/ Messages(box["chats"], curr, list["chats"].size)
    /\ \/ "chats" \in queued \/ Fills("gtk", "chats")
       \/ \A i \in DOMAIN box["chats"] : OfRoom(box["chats"][i])

(* Both, as long as no two threads met at the messages. *)
ChatsCalm == spoiled = "no" => CalmChats
ChatsShown == spoiled = "no" => ShownChats

(* The menus are for the widget that was clicked. *)
MenuClicked ==
    /\ menu.open = "chat" => menu.chat = clicked.item[2]
    /\ menu.open = "mark" => menu.named = clicked.item[2]
    /\ menu.open # "none" =>
          /\ th["gtk"].pc \in {"idle"} \cup Draws
          /\ spoiled = "reloading" => clicked.stale
          /\ spoiled = "no" => clicked.stale \/ clicked.item[1] = curr

(* The inductive invariant. *)
PageInv ==
    /\ Typed /\ Shape /\ Unopened /\ Bounded
    /\ RoomsMemory /\ RoomsKept /\ RoomsCalm
    /\ LoadAlone /\ ChatsCalm /\ ChatsShown
    /\ MenuClicked /\ CrashWasRaced

-----------------------------------------------------------------------------
(* What the actions do, field by field.                                    *)

(* Only thread t moves. *)
Alone(t) == th' \in [Threads -> Thread] /\ \A u \in Threads : u # t => th'[u] = th[u]

(* Thread t goes to stage p with the same locals. *)
Goes(t, p) ==
    /\ Alone(t)
    /\ th'[t].pc = p
    /\ th'[t].kind = th[t].kind /\ th'[t].room = th[t].room /\ th'[t].got = th[t].got
    /\ th'[t].i = th[t].i /\ th'[t].len = th[t].len

(* Only the list, or the box, of kind k is changed. *)
ListOnly(k) == list' \in [Lists -> [size : Nat, data : Data]] /\ \A j \in Lists : j # k => list'[j] = list[j]
BoxOnly(k) == box' \in [Lists -> Seq(Items)] /\ \A j \in Lists : j # k => box'[j] = box[j]

(* The items there are. *)
LEMMA ItemFacts ==
  /\ Junk \in Items /\ None \notin Nat /\ None \in Chats
  /\ \A r \in Rooms : /\ RoomItem(r) \in Items /\ RoomItem(r) # Junk /\ r # None
                      /\ RoomItem(r)[1] = r
                      /\ \A n \in 0 .. MaxChats - 1 : <<r, n>> \in Items
  /\ \A m \in Items : /\ m[1] \in Rooms \cup {None} /\ m[2] \in Chats
                      /\ m # Junk => m[1] \in Rooms
                      /\ m[1] = None => m = Junk
BY RoomsAssumption, BoundsAssumption DEF Items, Junk, None, RoomItem, Chats

(* An assignment to the state of a thread. *)
LEMMA ThreadSet ==
  ASSUME Typed, NEW t \in Threads, NEW x \in Thread, th' = [th EXCEPT ![t] = x]
  PROVE  Alone(t) /\ th'[t] = x
BY DEF Typed, Alone

(* Goto changes where the thread is, and nothing else of it. *)
LEMMA GotoGoes ==
  ASSUME Typed, NEW t \in Threads, NEW p \in Stages, Goto(t, p)
  PROVE  Goes(t, p)
<1>1. th[t] \in Thread
  BY DEF Typed
<1> DEFINE x == [th[t] EXCEPT !.pc = p]
<1>2. x \in Thread /\ th' = [th EXCEPT ![t] = x]
  BY <1>1 DEF Goto, Thread
<1>3. /\ x.pc = p /\ x.kind = th[t].kind /\ x.room = th[t].room /\ x.got = th[t].got
      /\ x.i = th[t].i /\ x.len = th[t].len
  BY <1>1 DEF Thread
<1> HIDE DEF x
<1>4. QED
  BY <1>2, <1>3, ThreadSet DEF Goes

(* A thread with nothing to do. *)
LEMMA IdleFields ==
  /\ Idle \in Thread
  /\ Idle.pc = "idle" /\ Idle.kind = "chats" /\ Idle.room = None /\ Idle.got = <<>>
BY DEF Idle, Thread, Stages, Lists, None

(* A thread that has just sent its request. *)
LEMMA AskingFields ==
  ASSUME NEW k \in Lists, NEW r \in Rooms \cup {None}
  PROVE  /\ Asking(k, r) \in Thread
         /\ Asking(k, r).pc = "asked" /\ Asking(k, r).kind = k
         /\ Asking(k, r).room = r /\ Asking(k, r).got = <<>>
BY IdleFields DEF Asking, Thread, Stages, Asks

(* Rest ends what the thread was doing. *)
LEMMA RestIdle ==
  ASSUME Typed, NEW t \in Threads, Rest(t)
  PROVE  Alone(t) /\ th'[t] = Idle
BY IdleFields, ThreadSet DEF Rest

(* Where a thread goes after drawing. *)
LEMMA AfterDrawFields ==
  ASSUME Typed, NEW t \in Threads
  PROVE  /\ AfterDraw(t) \in Thread
         /\ AfterDraw(t).pc = IF t = "sse" THEN "drawn" ELSE "idle"
         /\ AfterDraw(t).kind = "chats" /\ AfterDraw(t).room = th[t].room
         /\ AfterDraw(t).got = <<>>
<1>1. th[t].room \in Rooms \cup {None}
  BY DEF Typed, Thread
<1>2. QED
  BY <1>1, IdleFields DEF AfterDraw, Thread, Stages

(* A thread begins to draw list k. *)
LEMMA BeginDoes ==
  ASSUME Typed, NEW t \in Threads, NEW k \in Lists, NEW r \in Rooms \cup {None}, Begin(t, k, r)
  PROVE  /\ Alone(t)
         /\ th'[t].pc = IF list[k].size = 0 THEN "null" ELSE "item"
         /\ th'[t].kind = k /\ th'[t].room = r /\ th'[t].i = 1 /\ th'[t].len = list[k].size
         /\ th'[t].got = th[t].got
         /\ BoxOnly(k) /\ box'[k] = <<>>
         /\ UNCHANGED <<list, curr, menu, joined, count, crashed>>
<1>1. th[t] \in Thread /\ list[k].size \in Nat
  BY DEF Typed
<1> DEFINE x == [th[t] EXCEPT !.pc = IF list[k].size = 0 THEN "null" ELSE "item",
                              !.kind = k, !.room = r, !.i = 1, !.len = list[k].size]
<1>2. x \in Thread
  BY <1>1 DEF Thread, Stages, Draws, Drops
<1>3. th' = [th EXCEPT ![t] = x]
  BY DEF Begin
<1>4. /\ x.pc = IF list[k].size = 0 THEN "null" ELSE "item"
      /\ x.kind = k /\ x.room = r /\ x.i = 1 /\ x.len = list[k].size /\ x.got = th[t].got
  BY <1>1 DEF Thread
<1>5. BoxOnly(k) /\ box'[k] = <<>>
  BY DEF Begin, Typed, BoxOnly
<1> HIDE DEF x
<1>6. QED
  BY <1>2, <1>3, <1>4, <1>5, ThreadSet DEF Begin

(* What the server answers. *)
LEMMA SnapshotFacts ==
  ASSUME Typed, NEW r \in Rooms \cup {None}
  PROVE  /\ Snapshot("rooms", r) \in Seq(Items)
         /\ Len(Snapshot("rooms", r)) = Len(joined)
         /\ \A i \in DOMAIN joined :
               joined[i] \in Rooms /\ Snapshot("rooms", r)[i] = RoomItem(joined[i])
         /\ r \in Rooms =>
               /\ Snapshot("chats", r) \in Seq(Items)
               /\ Messages(Snapshot("chats", r), r, count[r])
<1>1. joined \in Seq(Rooms)
  BY DEF Typed
<1>2. \A i \in DOMAIN joined : joined[i] \in Rooms /\ RoomItem(joined[i]) \in Items
  BY <1>1, ItemFacts
<1>3. Snapshot("rooms", r) = [i \in DOMAIN joined |-> RoomItem(joined[i])]
  BY DEF Snapshot
<1>4. /\ Snapshot("rooms", r) \in Seq(Items) /\ Len(Snapshot("rooms", r)) = Len(joined)
  BY <1>1, <1>2, <1>3
<1>5. ASSUME r \in Rooms
      PROVE  /\ Snapshot("chats", r) \in Seq(Items)
             /\ Messages(Snapshot("chats", r), r, count[r])
  <2>1. count[r] \in Nat /\ count[r] <= MaxChats /\ MaxChats \in Nat
    BY <1>5, BoundsAssumption DEF Typed
  <2>2. Snapshot("chats", r) = [i \in 1 .. count[r] |-> <<r, i - 1>>]
    BY DEF Snapshot
  <2>3. \A i \in 1 .. count[r] : <<r, i - 1>> \in Items
    <3>1. \A i \in 1 .. count[r] : i - 1 \in 0 .. MaxChats - 1
      BY <2>1
    <3>2. QED
      BY <1>5, <3>1, ItemFacts
  <2>4. QED
    BY <2>1, <2>2, <2>3 DEF Messages
<1>6. QED
  BY <1>2, <1>3, <1>4, <1>5

(* The server answers with what it has, or with an empty list, or *)
(* refuses. *)
LEMMA ServeDoes ==
  ASSUME Typed, Shape, NEW t \in Threads, Serve(t)
  PROVE  /\ At(t, "asked") /\ Alone(t) /\ th'[t].pc \in {"answer", "failed"}
         /\ th'[t].kind = th[t].kind /\ th'[t].room = th[t].room
         /\ \/ th'[t].got = Snapshot(th[t].kind, th[t].room)
            \/ th'[t].got = <<>>
         /\ th'[t].got \in Seq(Items)
         /\ UNCHANGED <<list, box, queued, curr, menu, server, crashed>>
<1>1. th[t] \in Thread /\ th[t].got = <<>> /\ th[t].room \in Rooms \cup {None}
      /\ th[t].kind \in Lists
  BY DEF Serve, Typed, Thread, Shape, At
<1>2. At(t, "asked") /\ UNCHANGED <<list, box, queued, curr, menu, server, crashed>>
  BY DEF Serve
<1>3. Snapshot(th[t].kind, th[t].room) \in Seq(Items)
  BY <1>1, <1>2, SnapshotFacts DEF Shape, In, At, Asks, Lists
<1>4. CASE th' = [th EXCEPT ![t].pc = "answer", ![t].got = Snapshot(th[t].kind, th[t].room)]
  <2> DEFINE x == [th[t] EXCEPT !.pc = "answer", !.got = Snapshot(th[t].kind, th[t].room)]
  <2>1. th' = [th EXCEPT ![t] = x]
    BY <1>4
  <2>2. x \in Thread /\ x.pc = "answer" /\ x.kind = th[t].kind /\ x.room = th[t].room
        /\ x.got = Snapshot(th[t].kind, th[t].room)
    BY <1>1, <1>3 DEF Thread, Stages, Asks
  <2> HIDE DEF x
  <2>3. QED
    BY <1>2, <1>3, <2>1, <2>2, ThreadSet
<1>5. CASE Goto(t, "answer") \/ Goto(t, "failed")
  <2>1. Goes(t, "answer") \/ Goes(t, "failed")
    BY <1>5, GotoGoes DEF Stages, Asks
  <2>2. th'[t].got = <<>> /\ <<>> \in Seq(Items)
    BY <1>1, <2>1 DEF Goes
  <2>3. QED
    BY <1>2, <2>1, <2>2 DEF Goes
<1>6. QED
  BY <1>4, <1>5 DEF Serve

(* A reload with no answer: the request ends, and the messages are off *)
(* the page. *)
LEMMA FailDoes ==
  ASSUME Typed, NEW t \in Threads, Fail(t)
  PROVE  /\ At(t, "failed") /\ Alone(t) /\ th'[t] = Idle
         /\ box' \in [Lists -> Seq(Items)]
         /\ box'["chats"] = <<>>
         /\ box'["rooms"] \in {<<>>, box["rooms"]}
         /\ UNCHANGED <<list, queued, curr, menu, server, crashed>>
<1>1. \A k \in Lists : (IF k \in {"chats", th[t].kind} THEN <<>> ELSE box[k]) \in Seq(Items)
  BY DEF Typed
<1>2. QED
  BY <1>1, RestIdle DEF Fail, Lists

(* The answer with the rooms: the old widgets go, and the list is dropped *)
(* or gets its new size. *)
LEMMA TakeRoomsDoes ==
  ASSUME Typed, Shape, NEW t \in Threads, TakeRooms(t)
  PROVE  /\ t = "gtk" /\ At(t, "answer") /\ th[t].kind = "rooms"
         /\ BoxOnly("rooms") /\ box'["rooms"] = <<>>
         /\ \/ th[t].got = <<>> /\ Goes(t, "null") /\ UNCHANGED list
            \/ /\ th[t].got # <<>> /\ Goes(t, "alloc") /\ ListOnly("rooms")
               /\ list'["rooms"].size = Len(th[t].got)
               /\ list'["rooms"].data = list["rooms"].data
         /\ UNCHANGED <<queued, curr, menu, server, crashed>>
<1>1. t = "gtk" /\ At(t, "answer") /\ th[t].kind = "rooms" /\ th[t].got \in Seq(Items)
  BY DEF TakeRooms, Shape, At, Threads, Asks, Typed, Thread
<1>2. BoxOnly("rooms") /\ box'["rooms"] = <<>>
  BY DEF TakeRooms, Typed, BoxOnly, Lists
<1>3. CASE th[t].got = <<>>
  BY <1>1, <1>2, <1>3, GotoGoes DEF TakeRooms, Stages, Draws, Drops
<1>4. CASE th[t].got # <<>>
  <2>1. Goes(t, "alloc")
    BY <1>4, GotoGoes DEF TakeRooms, Stages, Asks
  <2>2. list' = [list EXCEPT !["rooms"].size = Len(th[t].got)]
    BY <1>1, <1>4 DEF TakeRooms, SetSize
  <2>3. /\ ListOnly("rooms") /\ list'["rooms"].size = Len(th[t].got)
        /\ list'["rooms"].data = list["rooms"].data
    <3>1. "rooms" \in Lists /\ Len(th[t].got) \in Nat
      BY <1>1 DEF Lists
    <3>2. QED
      BY <2>2, <3>1 DEF Typed, ListOnly
  <2>4. QED
    BY <1>1, <1>2, <1>4, <2>1, <2>3 DEF TakeRooms
<1>5. QED
  BY <1>3, <1>4

(* The answer with the messages: the room is switched, and the list gets *)
(* its new size unless there are no rooms. *)
LEMMA TakeChatsDoes ==
  ASSUME Typed, NEW t \in Threads, TakeChats(t)
  PROVE  /\ At(t, "answer") /\ th[t].kind = "chats" /\ UNCHANGED <<menu, server>>
         /\ \/ /\ list["rooms"].data.ptr = "null"
               /\ curr' = th[t].room
               /\ BoxOnly("chats") /\ box'["chats"] = <<>>
               /\ Alone(t) /\ th'[t] = Idle
               /\ UNCHANGED <<list, queued, crashed>>
            \/ /\ list["rooms"].data.ptr # "null"
               /\ curr' = th[t].room
               /\ ListOnly("chats") /\ list'["chats"].size = Len(th[t].got)
               /\ list'["chats"].data = list["chats"].data
               /\ Goes(t, "alloc")
               /\ UNCHANGED <<box, queued, crashed>>
            \/ /\ list["rooms"].data.ptr # "null" /\ ~Listed(th[t].room)
               /\ Crash(t)
<1>1. At(t, "answer") /\ th[t].kind = "chats" /\ UNCHANGED <<menu, server>>
      /\ th[t].got \in Seq(Items)
  BY DEF TakeChats, Typed, Thread
<1>2. CASE /\ list["rooms"].data.ptr = "null"
           /\ curr' = th[t].room
           /\ box' = [box EXCEPT !["chats"] = <<>>]
           /\ Rest(t)
           /\ UNCHANGED <<list, queued, crashed>>
  <2>1. BoxOnly("chats") /\ box'["chats"] = <<>>
    BY <1>2 DEF Typed, BoxOnly, Lists
  <2>2. QED
    BY <1>1, <1>2, <2>1, RestIdle
<1>3. CASE /\ list["rooms"].data.ptr # "null" /\ ~Unreadable("rooms")
           /\ curr' = th[t].room
           /\ SetSize(t)
           /\ Goto(t, "alloc")
           /\ UNCHANGED <<box, queued, crashed>>
  <2>1. Goes(t, "alloc")
    BY <1>3, GotoGoes DEF Stages, Asks
  <2>2. list' = [list EXCEPT !["chats"].size = Len(th[t].got)]
    BY <1>1, <1>3 DEF SetSize
  <2>3. /\ ListOnly("chats") /\ list'["chats"].size = Len(th[t].got)
        /\ list'["chats"].data = list["chats"].data
    <3>1. "chats" \in Lists /\ Len(th[t].got) \in Nat
      BY <1>1 DEF Lists
    <3>2. QED
      BY <2>2, <3>1 DEF Typed, ListOnly
  <2>4. QED
    BY <1>1, <1>3, <2>1, <2>3
<1>4. QED
  BY <1>1, <1>2, <1>3 DEF TakeChats

(* The memory malloc returns. *)
LEMMA MallocFacts ==
  ASSUME NEW n \in Nat
  PROVE  /\ Malloc(n) \in Data /\ Malloc(n).ptr = "heap" /\ Malloc(n).items \in Seq(Items)
         /\ Len(Malloc(n).items) = n
         /\ DOMAIN Malloc(n).items = 1 .. n
         /\ \A i \in 1 .. n : Malloc(n).items[i] = Junk
<1>1. [i \in 1 .. n |-> Junk] \in Seq(Items) /\ Len([i \in 1 .. n |-> Junk]) = n
  BY ItemFacts
<1>2. QED
  BY <1>1 DEF Malloc, Data

(* A pointer with no memory behind it. *)
LEMMA PointerFacts ==
  ASSUME NEW p \in {"wild", "null"}
  PROVE  Pointer(p) \in Data /\ Pointer(p).ptr = p /\ Pointer(p).items = <<>>
BY DEF Pointer, Data

(* malloc gives as many junk items as were answered. *)
LEMMA SetDataDoes ==
  ASSUME Typed, NEW t \in Threads, SetData(t)
  PROVE  LET k == th[t].kind IN
         /\ At(t, "alloc") /\ Goes(t, "copy") /\ ListOnly(k)
         /\ list'[k].size = list[k].size /\ list'[k].data = Malloc(Len(th[t].got))
         /\ UNCHANGED <<box, queued, curr, menu, server, crashed>>
<1> DEFINE k == th[t].kind
           m == Malloc(Len(th[t].got))
<1>1. k \in Lists /\ m \in Data
  <2>1. th[t].got \in Seq(Items) /\ k \in Lists
    BY DEF Typed, Thread
  <2>2. QED
    BY <2>1, MallocFacts
<1>2. Goes(t, "copy")
  BY GotoGoes DEF SetData, Stages, Asks
<1>3. list' = [list EXCEPT ![k].data = m]
  BY DEF SetData
<1> HIDE DEF k, m
<1>4. ListOnly(k) /\ list'[k].size = list[k].size /\ list'[k].data = m
  BY <1>1, <1>3 DEF Typed, ListOnly
<1>5. QED
  BY <1>2, <1>4 DEF SetData, k, m

(* The pointer is set to NULL before the size to 0. *)
LEMMA DropDataDoes ==
  ASSUME Typed, NEW t \in Threads, DropData(t)
  PROVE  LET k == th[t].kind IN
         /\ At(t, "null") /\ Goes(t, "zero") /\ ListOnly(k)
         /\ list'[k].size = list[k].size /\ list'[k].data = Pointer("null")
         /\ UNCHANGED <<box, queued, curr, menu, server, crashed>>
<1> DEFINE k == th[t].kind
           m == Pointer("null")
<1>1. k \in Lists /\ m \in Data
  BY PointerFacts DEF Typed, Thread
<1>2. Goes(t, "zero")
  BY GotoGoes DEF DropData, Stages, Draws, Drops
<1>3. list' = [list EXCEPT ![k].data = m]
  BY DEF DropData
<1> HIDE DEF k, m
<1>4. ListOnly(k) /\ list'[k].size = list[k].size /\ list'[k].data = m
  BY <1>1, <1>3 DEF Typed, ListOnly
<1>5. QED
  BY <1>2, <1>4 DEF DropData, k, m

(* The size is set to 0, and the draw is over. *)
LEMMA ZeroSizeDoes ==
  ASSUME Typed, NEW t \in Threads, ZeroSize(t)
  PROVE  LET k == th[t].kind IN
         /\ At(t, "zero") /\ Alone(t) /\ th'[t] = AfterDraw(t) /\ ListOnly(k)
         /\ list'[k].size = 0 /\ list'[k].data = list[k].data
         /\ UNCHANGED <<box, queued, curr, menu, server, crashed>>
<1> DEFINE k == th[t].kind
<1>1. k \in Lists
  BY DEF Typed, Thread
<1>2. Alone(t) /\ th'[t] = AfterDraw(t)
  BY AfterDrawFields, ThreadSet DEF ZeroSize
<1>3. list' = [list EXCEPT ![k].size = 0]
  BY DEF ZeroSize
<1> HIDE DEF k
<1>4. ListOnly(k) /\ list'[k].size = 0 /\ list'[k].data = list[k].data
  BY <1>1, <1>3 DEF Typed, ListOnly
<1>5. QED
  BY <1>2, <1>4 DEF ZeroSize, k

(* A list is copied to memory of its own length, or to what the pointer    *)
(* leads to by then.                                                       *)
LEMMA CopiedFacts ==
  ASSUME Typed, NEW t \in Threads
  PROVE  LET k == th[t].kind IN
         /\ Copied(t) \in Seq(Items)
         /\ Len(list[k].data.items) <= Len(th[t].got) => Copied(t) = th[t].got
         /\ \A i \in DOMAIN Copied(t) :
               \/ i \in DOMAIN th[t].got /\ Copied(t)[i] = th[t].got[i]
               \/ i \in DOMAIN list[k].data.items /\ Copied(t)[i] = list[k].data.items[i]
         /\ \A i \in DOMAIN th[t].got : i \in DOMAIN Copied(t) /\ Copied(t)[i] = th[t].got[i]
<1> DEFINE k == th[t].kind
           old == list[k].data.items
           got == th[t].got
           n == IF Len(old) > Len(got) THEN Len(old) ELSE Len(got)
<1>1. k \in Lists /\ got \in Seq(Items)
  BY DEF Typed, Thread
<1>2. old \in Seq(Items)
  BY <1>1 DEF Typed, Data
<1>3. Copied(t) = [i \in 1 .. n |-> IF i \in DOMAIN got THEN got[i] ELSE old[i]]
  BY DEF Copied
<1> HIDE DEF k, old, got
<1>4. n \in Nat /\ \A i \in 1 .. n : i \notin DOMAIN got => i \in DOMAIN old
  BY <1>1, <1>2
<1>5. \A i \in 1 .. n : (IF i \in DOMAIN got THEN got[i] ELSE old[i]) \in Items
  BY <1>1, <1>2, <1>4
<1>6. Copied(t) \in Seq(Items) /\ DOMAIN Copied(t) = 1 .. n
  BY <1>3, <1>4, <1>5
<1>7. \A i \in DOMAIN Copied(t) :
         \/ i \in DOMAIN got /\ Copied(t)[i] = got[i]
         \/ i \in DOMAIN old /\ Copied(t)[i] = old[i]
  BY <1>3, <1>4, <1>6
<1>8. \A i \in DOMAIN got : i \in DOMAIN Copied(t) /\ Copied(t)[i] = got[i]
  BY <1>1, <1>2, <1>3, <1>6
<1>9. Len(old) <= Len(got) => Copied(t) = got
  <2>1. SUFFICES ASSUME Len(old) <= Len(got) PROVE Copied(t) = got
    OBVIOUS
  <2>2. n = Len(got)
    BY <1>1, <1>2, <2>1
  <2>3. DOMAIN Copied(t) = DOMAIN got
    BY <1>1, <1>6, <2>2
  <2> HIDE DEF n
  <2>4. Copied(t) = [i \in DOMAIN got |-> got[i]]
    BY <1>1, <1>3, <2>2
  <2>5. QED
    BY <1>1, <2>4
<1>10. QED
  BY <1>6, <1>7, <1>8, <1>9 DEF k, old, got

(* The answer is copied and the draw queued; after the first load of *)
(* rooms the first room is opened. *)
LEMMA CopyDoes ==
  ASSUME Typed, Shape, NEW t \in Threads, Copy(t)
  PROVE  LET k == th[t].kind IN
         /\ At(t, "copy") /\ UNCHANGED <<menu, server>>
         /\ \/ /\ list[k].data.ptr = "heap" \/ th[t].got = <<>>
               /\ ListOnly(k) /\ list'[k].size = list[k].size
               /\ list'[k].data.ptr = list[k].data.ptr
               /\ list'[k].data.items = Copied(t)
               /\ queued' = queued \cup {k}
               /\ Alone(t)
               /\ \/ th'[t] = Idle
                  \/ /\ t = "gtk" /\ k = "rooms" /\ th[t].got # <<>>
                     /\ \E r \in Rooms : th[t].got[1] = RoomItem(r) /\ th'[t] = Asking("chats", r)
               /\ UNCHANGED <<box, curr, crashed>>
            \/ Len(th[t].got) > Len(list[k].data.items) /\ Crash(t)
<1> DEFINE k == th[t].kind
<1>1. At(t, "copy") /\ UNCHANGED <<menu, server>> /\ k \in Lists /\ th[t].got \in Seq(Items)
  BY DEF Copy, Typed, Thread
<1>2. CASE /\ list[k].data.ptr = "heap" \/ th[t].got = <<>>
           /\ list' = [list EXCEPT ![k].data.items = Copied(t)]
           /\ queued' = queued \cup {k}
           /\ th' = [th EXCEPT ![t] = AfterLoad(t)]
           /\ UNCHANGED <<box, curr, crashed>>
  <2>1. Copied(t) \in Seq(Items)
    BY CopiedFacts
  <2>2. /\ ListOnly(k) /\ list'[k].size = list[k].size
        /\ list'[k].data.ptr = list[k].data.ptr /\ list'[k].data.items = Copied(t)
    <3> HIDE DEF k
    <3>1. list[k] \in [size : Nat, data : Data]
      BY <1>1 DEF Typed
    <3> DEFINE d == [list[k].data EXCEPT !.items = Copied(t)]
               x == [list[k] EXCEPT !.data = d]
    <3>2. d \in Data /\ d.ptr = list[k].data.ptr /\ d.items = Copied(t)
      BY <2>1, <3>1 DEF Data
    <3>3. list' = [list EXCEPT ![k] = x]
      BY <1>2
    <3> HIDE DEF d
    <3>4. x \in [size : Nat, data : Data] /\ x.size = list[k].size /\ x.data = d
      BY <3>1, <3>2
    <3> HIDE DEF x
    <3>5. ListOnly(k) /\ list'[k] = x
      BY <1>1, <3>3, <3>4 DEF Typed, ListOnly
    <3>6. QED
      BY <3>2, <3>4, <3>5
  <2>3. AfterLoad(t) \in Thread /\
        \/ AfterLoad(t) = Idle
        \/ /\ t = "gtk" /\ k = "rooms" /\ th[t].got # <<>>
           /\ \E r \in Rooms : th[t].got[1] = RoomItem(r) /\ AfterLoad(t) = Asking("chats", r)
    <3>1. CASE AfterLoad(t) = Idle
      BY <3>1, IdleFields
    <3>2. CASE AfterLoad(t) # Idle
      <4>1. k = "rooms" /\ AfterLoad(t) = Asking("chats", Head(th[t].got)[1])
        BY <3>2 DEF AfterLoad
      <4>2. t = "gtk" /\ th[t].got # <<>> /\ 1 \in DOMAIN th[t].got
        BY <1>1, <4>1 DEF Shape, At, In, Fills, Threads, Asks
      <4>3. PICK r \in Rooms : th[t].got[1] = RoomItem(r)
        BY <1>1, <4>1, <4>2 DEF Shape, At, In
      <4>4. Head(th[t].got)[1] = r
        BY <1>1, <4>2, <4>3, ItemFacts
      <4>5. QED
        BY <4>1, <4>2, <4>3, <4>4, AskingFields DEF Lists
    <3>3. QED
      BY <3>1, <3>2
  <2>4. Alone(t) /\ th'[t] = AfterLoad(t)
    BY <1>2, <2>3, ThreadSet
  <2>5. QED
    BY <1>1, <1>2, <2>2, <2>3, <2>4
<1>3. CASE Len(th[t].got) > Len(list[k].data.items) /\ Crash(t)
  BY <1>1, <1>3
<1>4. QED
  BY <1>2, <1>3 DEF Copy

(* Where a draw goes on: with the next item, or it is done. *)
NextItem(t) ==
    /\ Alone(t)
    /\ \/ th[t].i = th[t].len /\ th'[t] = AfterDraw(t)
       \/ /\ th[t].i # th[t].len /\ th'[t].pc = "item" /\ th'[t].i = th[t].i + 1
          /\ th'[t].kind = th[t].kind /\ th'[t].room = th[t].room
          /\ th'[t].got = th[t].got /\ th'[t].len = th[t].len

(* A turn of the draw loop adds one widget, or skips a message of a null *)
(* list, or crashes. *)
LEMMA DrawItemDoes ==
  ASSUME Typed, NEW t \in Threads, DrawItem(t)
  PROVE  LET k == th[t].kind IN
         /\ At(t, "item") /\ UNCHANGED <<menu, server>>
         /\ \/ /\ list[k].data.ptr = "heap" /\ NextItem(t)
               /\ BoxOnly(k) /\ box'[k] = Append(box[k], Element(k, th[t].i))
               /\ Element(k, th[t].i) \in Items
               /\ UNCHANGED <<list, queued, curr, crashed>>
            \/ /\ k = "chats" /\ list[k].data.ptr = "null" /\ NextItem(t)
               /\ UNCHANGED <<box, list, queued, curr, crashed>>
            \/ /\ Element(k, th[t].i) = Junk /\ ~(k = "chats" /\ list[k].data.ptr = "null")
               /\ Crash(t)
<1> DEFINE k == th[t].kind
           item == Element(k, th[t].i)
           y == [th[t] EXCEPT !.i = th[t].i + 1]
           next == [th EXCEPT ![t] = IF th[t].i = th[t].len THEN AfterDraw(t) ELSE y]
<1>1. At(t, "item") /\ UNCHANGED <<menu, server>> /\ k \in Lists /\ th[t] \in Thread
  BY DEF DrawItem, Typed, Thread
<1>2. ASSUME th' = next
      PROVE  NextItem(t)
  <2>1. CASE th[t].i = th[t].len
    BY <1>2, <2>1, AfterDrawFields, ThreadSet DEF NextItem
  <2>2. CASE th[t].i # th[t].len
    <3>1. /\ y \in Thread /\ y.pc = "item" /\ y.i = th[t].i + 1 /\ y.kind = th[t].kind
          /\ y.room = th[t].room /\ y.got = th[t].got /\ y.len = th[t].len
      BY <1>1 DEF Thread, At
    <3>2. th' = [th EXCEPT ![t] = y]
      <4> HIDE DEF y
      <4>1. QED
        BY <1>2, <2>2
    <3> HIDE DEF y
    <3>3. Alone(t) /\ th'[t] = y
      BY <3>1, <3>2, ThreadSet
    <3>4. QED
      BY <2>2, <3>1, <3>3 DEF NextItem
  <2>3. QED
    BY <2>1, <2>2
<1>3. item \in Items
  <2>1. list[k].data.items \in Seq(Items)
    BY <1>1 DEF Typed, Data
  <2>2. QED
    BY <2>1, ItemFacts DEF Element
<1>4. CASE /\ list[k].data.ptr = "heap"
           /\ box' = [box EXCEPT ![k] = Append(@, item)]
           /\ th' = next
           /\ UNCHANGED <<list, queued, curr, crashed>>
  <2>1. NextItem(t)
    BY <1>2, <1>4
  <2> HIDE DEF k, item
  <2>2. box' = [box EXCEPT ![k] = Append(box[k], item)]
    BY <1>4
  <2>3. BoxOnly(k) /\ box'[k] = Append(box[k], item)
    BY <1>1, <1>3, <2>2 DEF Typed, BoxOnly
  <2>4. QED
    BY <1>1, <1>3, <1>4, <2>1, <2>3 DEF k, item
<1>5. CASE /\ k = "chats" /\ list[k].data.ptr = "null"
           /\ th' = next
           /\ UNCHANGED <<box, list, queued, curr, crashed>>
  BY <1>1, <1>2, <1>5
<1>6. CASE item = Junk /\ ~(k = "chats" /\ list[k].data.ptr = "null") /\ Crash(t)
  BY <1>1, <1>6
<1>7. QED
  BY <1>4, <1>5, <1>6 DEF DrawItem

(* A push starts a draw of the rooms by the push thread. *)
LEMMA HearPushDoes ==
  ASSUME Typed, HearPush
  PROVE  /\ At("sse", "idle")
         /\ \/ /\ ~Unreadable("rooms")
               /\ pushes # <<>> /\ Head(pushes) \in Rooms
               /\ pushes' = Tail(pushes) /\ pushes' \in Seq(Rooms)
               /\ Begin("sse", "rooms", Head(pushes)) /\ UNCHANGED queued
            \/ /\ Unreadable("rooms") /\ Crash("sse") /\ UNCHANGED <<menu, server>>
<1>1. pushes \in Seq(Rooms)
  BY DEF Typed
<1>2. pushes # <<>> => Head(pushes) \in Rooms /\ Tail(pushes) \in Seq(Rooms)
  BY <1>1
<1>3. QED
  BY <1>2 DEF HearPush

(* After that draw the messages are loaded, if they are of the room *)
(* pushed. *)
LEMMA IfCurrentDoes ==
  ASSUME Typed, Shape, IfCurrent
  PROVE  /\ At("sse", "drawn") /\ Alone("sse")
         /\ \/ /\ th["sse"].room = curr /\ curr \in Rooms
               /\ th'["sse"] = Asking("chats", curr)
            \/ th["sse"].room # curr /\ th'["sse"] = Idle
         /\ UNCHANGED <<list, box, queued, curr, menu, server, crashed>>
<1> DEFINE x == IF th["sse"].room = curr THEN Asking("chats", curr) ELSE Idle
<1>1. At("sse", "drawn") /\ UNCHANGED <<list, box, queued, curr, menu, server, crashed>>
      /\ th' = [th EXCEPT !["sse"] = x]
  BY DEF IfCurrent
<1>2. th["sse"].room \in Rooms
  BY <1>1 DEF Shape, At
<1>3. "sse" \in Threads /\ "chats" \in Lists
  BY DEF Threads, Lists
<1>4. x \in Thread
  BY <1>2, <1>3, AskingFields, IdleFields
<1>5. Alone("sse") /\ th'["sse"] = x
  <2> HIDE DEF x
  <2>1. QED
    BY <1>1, <1>3, <1>4, ThreadSet
<1>6. QED
  BY <1>1, <1>2, <1>5

(* The GTK thread takes a draw from the queue. *)
LEMMA IdleDrawDoes ==
  ASSUME IdleDraw
  PROVE  /\ At("gtk", "idle") /\ UNCHANGED pushes
         /\ \E k \in queued : Begin("gtk", k, None) /\ queued' = queued \ {k}
BY DEF IdleDraw

(* A click on a room asks for its messages. *)
LEMMA SelectRoomDoes ==
  ASSUME Typed, SelectRoom
  PROVE  /\ At("gtk", "idle") /\ menu.open = "none" /\ Alone("gtk")
         /\ \E r \in Rooms : /\ th'["gtk"] = Asking("chats", r)
                             /\ \E i \in DOMAIN box["rooms"] : box["rooms"][i][1] = r
         /\ UNCHANGED <<list, box, queued, curr, menu, server, crashed>>
<1>1. PICK i \in DOMAIN box["rooms"] :
         /\ box["rooms"][i] # Junk
         /\ th' = [th EXCEPT !["gtk"] = Asking("chats", box["rooms"][i][1])]
  BY DEF SelectRoom
<1> DEFINE r == box["rooms"][i][1]
<1>2. r \in Rooms
  <2>1. box["rooms"] \in Seq(Items)
    BY DEF Typed, Lists
  <2>2. box["rooms"][i] \in Items
    BY <1>1, <2>1
  <2>3. QED
    BY <1>1, <2>2, ItemFacts
<1>3. "gtk" \in Threads /\ "chats" \in Lists
  BY DEF Threads, Lists
<1>4. Alone("gtk") /\ th'["gtk"] = Asking("chats", r)
  BY <1>1, <1>2, <1>3, AskingFields, ThreadSet
<1>5. QED
  BY <1>1, <1>2, <1>4 DEF SelectRoom, Free

(* The request for a new room leaves the lists alone. *)
LEMMA AddRoomDoes ==
  ASSUME Typed, AddRoom
  PROVE  /\ At("gtk", "idle") /\ menu.open = "none" /\ Goes("gtk", "create")
         /\ UNCHANGED <<list, box, queued, curr, menu, server, crashed>>
BY GotoGoes DEF AddRoom, Free, Stages, Threads

(* The user comes to be in one more room. *)
LEMMA NewRoomDoes ==
  ASSUME Typed, NewRoom
  PROVE  /\ joined' \in Seq(Rooms)
         /\ \A i \in DOMAIN joined : i \in DOMAIN joined' /\ joined'[i] = joined[i]
<1>1. joined \in Seq(Rooms)
  BY DEF Typed
<1>2. PICK r \in Rooms : joined' = Append(joined, r)
  BY DEF NewRoom
<1>3. QED
  BY <1>1, <1>2

(* A new room: the rooms are loaded again. *)
LEMMA RoomCreatedDoes ==
  ASSUME Typed, RoomCreated
  PROVE  /\ At("gtk", "create") /\ Alone("gtk")
         /\ \/ NewRoom /\ th'["gtk"] = Asking("rooms", None)
            \/ UNCHANGED joined /\ th'["gtk"] = Idle
         /\ UNCHANGED <<list, box, queued, curr, menu, count, pushes, crashed>>
<1>1. "gtk" \in Threads /\ "rooms" \in Lists
  BY DEF Threads, Lists
<1>2. CASE NewRoom /\ th' = [th EXCEPT !["gtk"] = Asking("rooms", None)]
  <2>1. Alone("gtk") /\ th'["gtk"] = Asking("rooms", None)
    BY <1>1, <1>2, AskingFields, ThreadSet
  <2>2. QED
    BY <1>2, <2>1 DEF RoomCreated
<1>3. CASE UNCHANGED joined /\ Rest("gtk")
  BY <1>1, <1>3, RestIdle DEF RoomCreated
<1>4. QED
  BY <1>2, <1>3 DEF RoomCreated

(* A room is changed, and its change pushed. *)
LEMMA ChangeDoes ==
  ASSUME Typed, NEW r \in Rooms, NEW new, Change(r, new)
  PROVE  /\ pushes' \in Seq(Rooms) /\ UNCHANGED joined
         /\ \A q : Pushed(q) => Pushed(q)'
         /\ Pushed(r)'
         /\ count' \in [Rooms -> 0 .. MaxChats]
         /\ \A q \in Rooms : q # r => count'[q] = count[q]
         /\ \A q \in Rooms : count[q] <= count'[q]
<1>1. pushes \in Seq(Rooms) /\ count \in [Rooms -> 0 .. MaxChats] /\ MaxChats \in Nat
  BY BoundsAssumption DEF Typed
<1>2. pushes' = Append(pushes, r) /\ UNCHANGED joined
  BY DEF Change
<1>3. /\ pushes' \in Seq(Rooms) /\ Len(pushes) + 1 \in DOMAIN pushes'
      /\ pushes'[Len(pushes) + 1] = r
      /\ \A i \in DOMAIN pushes : i \in DOMAIN pushes' /\ pushes'[i] = pushes[i]
  BY <1>1, <1>2
<1>4. CASE count' = count
  BY <1>1, <1>2, <1>3, <1>4 DEF Pushed
<1>5. CASE count[r] < MaxChats /\ count' = [count EXCEPT ![r] = @ + 1]
  <2>1. /\ count' \in [Rooms -> 0 .. MaxChats]
        /\ \A q \in Rooms : q # r => count'[q] = count[q]
        /\ count'[r] = count[r] + 1
    BY <1>1, <1>5
  <2>2. \A q \in Rooms : count[q] <= count'[q]
    BY <1>1, <2>1
  <2>3. QED
    BY <1>2, <1>3, <2>1, <2>2 DEF Pushed
<1>6. QED
  BY <1>4, <1>5 DEF Change

(* The page in a bad access, and all that is not its own. *)
LEMMA CrashDoes ==
  ASSUME NEW t, Crash(t)
  PROVE  crashed' = t /\ UNCHANGED <<th, list, box, queued, curr>>
BY DEF Crash, page

-----------------------------------------------------------------------------
(* Types.                                                                  *)

(* What the history is, whatever the step. *)
LEMMA RememberTypes ==
  ASSUME Typed, Remember
  PROVE  spoiled' \in {"no", "yes", "reloading"} /\ tangled' \in BOOLEAN
<1>1. spoiled' \in {"no", "yes", "reloading"}
  BY DEF Remember, Typed
<1>2. tangled' \in BOOLEAN
  BY Zenon DEF Remember
<1>3. QED
  BY <1>1, <1>2

(* The history keeps its types, whatever the step. *)
LEMMA AsideTypes ==
  ASSUME Typed, Aside
  PROVE  /\ clicked' \in [item : Items, stale : BOOLEAN] /\ Remember
         /\ menu'.open # "none" => clicked' = clicked
<1>1. NoClick \in [item : Items, stale : BOOLEAN]
  BY ItemFacts DEF NoClick
<1>2. QED
  BY <1>1 DEF Aside, Typed

(* The part of the types that is not the history. *)
TypedPage ==
    /\ th \in [Threads -> Thread]
    /\ list \in [Lists -> [size : Nat, data : Data]]
    /\ box \in [Lists -> Seq(Items)]
    /\ queued \subseteq Lists
    /\ curr \in Rooms \cup {None}
TypedServer ==
    /\ joined \in Seq(Rooms)
    /\ count \in [Rooms -> 0 .. MaxChats]
    /\ pushes \in Seq(Rooms)
TypedRest ==
    /\ menu \in [open : {"none", "chat", "mark"}, chat : Chats, named : Chats]
    /\ crashed \in Threads \cup {"no"}

(* The types are those of the page, the server and the rest, and the *)
(* history. *)
LEMMA TypedParts ==
  /\ Typed => TypedPage /\ TypedServer /\ TypedRest
  /\ TypedPage /\ TypedServer /\ TypedRest /\ clicked \in [item : Items, stale : BOOLEAN]
     /\ spoiled \in {"no", "yes", "reloading"} /\ tangled \in BOOLEAN => Typed
BY DEF Typed, TypedPage, TypedServer, TypedRest

(* The steps of a thread at the lists. *)
LEMMA ThreadTyped ==
  ASSUME Typed, Shape, NEW t \in Threads,
         \/ Serve(t) \/ Fail(t) \/ TakeRooms(t) \/ TakeChats(t) \/ SetData(t) \/ Copy(t)
         \/ DrawItem(t) \/ DropData(t) \/ ZeroSize(t)
  PROVE  TypedPage' /\ TypedServer' /\ TypedRest'
<1>0. TypedPage /\ TypedServer /\ TypedRest /\ th[t].room \in Rooms \cup {None}
  BY TypedParts DEF Typed, Thread
<1>1. CASE Serve(t)
  BY <1>0, <1>1, ServeDoes DEF Alone, TypedPage, TypedServer, TypedRest, server
<1>2. CASE Fail(t)
  BY <1>0, <1>2, FailDoes DEF Alone, TypedPage, TypedServer, TypedRest, server
<1>3. CASE TakeRooms(t)
  BY <1>0, <1>3, TakeRoomsDoes DEF Goes, Alone, ListOnly, BoxOnly,
     TypedPage, TypedServer, TypedRest, server
<1>4. CASE TakeChats(t)
  BY <1>0, <1>4, TakeChatsDoes, CrashDoes DEF Goes, Alone, ListOnly, BoxOnly,
     TypedPage, TypedServer, TypedRest, server
<1>5. CASE SetData(t)
  BY <1>0, <1>5, SetDataDoes DEF Goes, Alone, ListOnly, TypedPage, TypedServer, TypedRest, server
<1>6. CASE Copy(t)
  <2>1. th[t].kind \in Lists
    BY <1>0 DEF TypedPage, Thread
  <2>2. QED
    BY <1>0, <1>6, <2>1, CopyDoes, CrashDoes DEF Alone, ListOnly,
       TypedPage, TypedServer, TypedRest, server
<1>7. CASE DrawItem(t)
  BY <1>0, <1>7, DrawItemDoes, CrashDoes DEF NextItem, Alone, BoxOnly,
     TypedPage, TypedServer, TypedRest, server
<1>8. CASE DropData(t)
  BY <1>0, <1>8, DropDataDoes DEF Goes, Alone, ListOnly, TypedPage, TypedServer, TypedRest, server
<1>9. CASE ZeroSize(t)
  BY <1>0, <1>9, ZeroSizeDoes DEF Alone, ListOnly, TypedPage, TypedServer, TypedRest, server
<1>10. QED
  BY <1>1, <1>2, <1>3, <1>4, <1>5, <1>6, <1>7, <1>8, <1>9

(* The menu is for a widget of the list of messages. *)
LEMMA RightClickDoes ==
  ASSUME Typed, RightClick
  PROVE  /\ At("gtk", "idle") /\ menu.open = "none"
         /\ \E i \in DOMAIN box["chats"] :
               /\ box["chats"][i] \in Items /\ box["chats"][i] # Junk
               /\ menu'.chat = box["chats"][i][2]
               /\ clicked'.item = box["chats"][i]
               /\ clicked'.stale = (Spoiled \/ "chats" \in queued)
         /\ menu' \in [open : {"none", "chat", "mark"}, chat : Chats, named : Chats]
         /\ menu'.open = "chat"
         /\ clicked' \in [item : Items, stale : BOOLEAN]
         /\ UNCHANGED <<page, server, crashed>>
<1>1. PICK i \in DOMAIN box["chats"] :
         /\ box["chats"][i] # Junk
         /\ menu' = [menu EXCEPT !.open = "chat", !.chat = box["chats"][i][2]]
         /\ clicked' = [item |-> box["chats"][i], stale |-> Spoiled \/ "chats" \in queued]
  BY DEF RightClick
<1> DEFINE m == box["chats"][i]
<1>2. m \in Items /\ m[2] \in Chats
  <2>1. box["chats"] \in Seq(Items)
    BY DEF Typed, Lists
  <2>2. m \in Items
    BY <2>1
  <2>3. QED
    BY <2>2, ItemFacts
<1>3. menu' \in [open : {"none", "chat", "mark"}, chat : Chats, named : Chats]
      /\ menu'.open = "chat" /\ menu'.chat = m[2]
  BY <1>1, <1>2 DEF Typed
<1> DEFINE s == (Spoiled \/ "chats" \in queued)
<1>4. s \in BOOLEAN
  BY Zenon
<1>5. clicked' = [item |-> m, stale |-> s]
  BY <1>1
<1>6. clicked' \in [item : Items, stale : BOOLEAN] /\ clicked'.item = m /\ clicked'.stale = s
  <2> HIDE DEF m, s
  <2>1. QED
    BY <1>2, <1>4, <1>5
<1>7. QED
  BY <1>1, <1>2, <1>3, <1>6 DEF RightClick, Free

(* The second menu, or a bad access. *)
LEMMA PickDoes ==
  ASSUME Typed, PickDelete \/ PickReact
  PROVE  /\ menu.open = "chat" /\ At("gtk", "idle") /\ UNCHANGED server
         /\ \/ Unreadable("chats") /\ Crash("gtk") /\ UNCHANGED menu
            \/ menu' = NoMenu /\ UNCHANGED <<page, crashed>>
            \/ /\ menu' \in [open : {"none", "chat", "mark"}, chat : Chats, named : Chats]
               /\ menu'.open = "mark" /\ menu'.named = menu.chat
               /\ UNCHANGED <<page, crashed>>
<1> DEFINE m == [open |-> "mark", chat |-> None, named |-> menu.chat]
<1>1. m \in [open : {"none", "chat", "mark"}, chat : Chats, named : Chats]
      /\ m.open = "mark" /\ m.named = menu.chat
  BY ItemFacts DEF Typed
<1>2. CASE PickDelete
  BY <1>1, <1>2 DEF PickDelete, Picking
<1>3. CASE PickReact
  BY <1>1, <1>3 DEF PickReact, ShowReactions, Picking
<1>4. QED
  BY <1>2, <1>3

(* Reads as a fact: no menu is a menu. *)
LEMMA NoMenuFacts ==
  NoMenu \in [open : {"none", "chat", "mark"}, chat : Chats, named : Chats]
  /\ NoMenu.open = "none"
BY ItemFacts DEF NoMenu

(* The steps at the menus keep the types. *)
LEMMA MenuTyped ==
  ASSUME Typed, RightClick \/ PickDelete \/ PickReact \/ Dismiss
  PROVE  TypedPage' /\ TypedServer' /\ TypedRest'
<1>0. TypedPage /\ TypedServer /\ TypedRest /\ "gtk" \in Threads
  BY TypedParts DEF Threads
<1>1. CASE RightClick
  BY <1>0, <1>1, RightClickDoes DEF TypedPage, TypedServer, TypedRest, server, page
<1>2. CASE PickDelete \/ PickReact
  BY <1>0, <1>2, PickDoes, NoMenuFacts, CrashDoes
     DEF TypedPage, TypedServer, TypedRest, server, page
<1>3. CASE Dismiss
  BY <1>0, <1>3, NoMenuFacts DEF Dismiss, TypedPage, TypedServer, TypedRest, server, page
<1>4. QED
  BY <1>1, <1>2, <1>3

(* A turn of the draw loop keeps the types. *)
LEMMA DrawTyped ==
  ASSUME Typed, Shape, HearPush \/ IfCurrent \/ IdleDraw
  PROVE  TypedPage' /\ TypedServer' /\ TypedRest'
<1>0. TypedPage /\ TypedServer /\ TypedRest /\ "sse" \in Threads /\ "gtk" \in Threads
      /\ "rooms" \in Lists
  BY TypedParts DEF Threads, Lists
<1>1. CASE HearPush
  <2>1. CASE Unreadable("rooms") /\ Crash("sse") /\ UNCHANGED <<menu, server>>
    BY <1>0, <2>1, CrashDoes DEF TypedPage, TypedServer, TypedRest, server
  <2>2. CASE Begin("sse", "rooms", Head(pushes)) /\ UNCHANGED queued
    <3>1. Head(pushes) \in Rooms /\ pushes' \in Seq(Rooms)
      <4>1. pushes \in Seq(Rooms) /\ pushes # <<>>
        BY <1>1 DEF HearPush, Typed
      <4>2. QED
        BY <1>1, <4>1, HearPushDoes DEF server
    <3>2. QED
      BY <1>0, <2>2, <3>1, BeginDoes DEF TypedPage, TypedServer, TypedRest, Alone, BoxOnly
  <2>3. QED
    BY <1>1, <2>1, <2>2, HearPushDoes
<1>2. CASE IfCurrent
  BY <1>0, <1>2, IfCurrentDoes DEF TypedPage, TypedServer, TypedRest, Alone, server
<1>3. CASE IdleDraw
  <2>1. PICK k \in queued : Begin("gtk", k, None) /\ queued' = queued \ {k}
    BY <1>3, IdleDrawDoes
  <2>2. k \in Lists
    BY DEF Typed
  <2>3. QED
    BY <1>0, <1>3, <2>1, <2>2, BeginDoes, IdleDrawDoes
       DEF TypedPage, TypedServer, TypedRest, Alone, BoxOnly
<1>4. QED
  BY <1>1, <1>2, <1>3

(* Messages are sent, and marked, in an open room. *)
LEMMA SendsInRoom ==
  ASSUME Typed, Unopened, SendChat \/ SendMark
  PROVE  curr \in Rooms /\ \E new \in BOOLEAN : Change(curr, new)
BY DEF SendChat, SendMark, Unopened, Typed

(* The steps of the others and of the server keep the types. *)
LEMMA ServerTyped ==
  ASSUME Typed, Unopened,
         \/ OthersChange \/ Invited \/ SelectRoom \/ AddRoom \/ RoomCreated
         \/ SendChat \/ SendMark
  PROVE  TypedPage' /\ TypedServer' /\ TypedRest'
<1>0. TypedPage /\ TypedServer /\ TypedRest
  BY TypedParts
<1>1. CASE OthersChange
  <2>1. PICK i \in DOMAIN joined, new \in BOOLEAN : Change(joined[i], new)
    BY <1>1 DEF OthersChange
  <2>2. joined[i] \in Rooms
    BY DEF Typed
  <2>3. QED
    BY <1>0, <1>1, <2>1, <2>2, ChangeDoes
       DEF OthersChange, TypedPage, TypedServer, TypedRest, page
<1>2. CASE Invited
  BY <1>0, <1>2, NewRoomDoes DEF Invited, TypedPage, TypedServer, TypedRest, page
<1>3. CASE SelectRoom
  BY <1>0, <1>3, SelectRoomDoes DEF TypedPage, TypedServer, TypedRest, Alone, server
<1>4. CASE AddRoom
  BY <1>0, <1>4, AddRoomDoes DEF TypedPage, TypedServer, TypedRest, Goes, Alone, server
<1>5. CASE RoomCreated
  BY <1>0, <1>5, RoomCreatedDoes, NewRoomDoes DEF TypedPage, TypedServer, TypedRest, Alone
<1>6. CASE SendChat \/ SendMark
  BY <1>0, <1>6, SendsInRoom, ChangeDoes, NoMenuFacts
     DEF SendChat, SendMark, TypedPage, TypedServer, TypedRest, page
<1>7. QED
  BY <1>1, <1>2, <1>3, <1>4, <1>5, <1>6

(* Every step keeps the types. *)
LEMMA TypedKept ==
  ASSUME Typed, Shape, Unopened, Next
  PROVE  Typed'
<1>1. TypedPage' /\ TypedServer' /\ TypedRest'
  BY ThreadTyped, MenuTyped, DrawTyped, ServerTyped DEF Next
<1>2. clicked' \in [item : Items, stale : BOOLEAN] /\ Remember
  BY AsideTypes, RightClickDoes DEF Next
<1>3. QED
  BY <1>1, <1>2, RememberTypes, TypedParts DEF Typed, TypedPage, TypedServer, TypedRest

-----------------------------------------------------------------------------
(* Which thread can be where.                                              *)

(* What Shape says of one thread. *)
ShapeOf(t) ==
    /\ t = "gtk" => th[t].pc # "drawn"
    /\ t = "sse" =>
          /\ th[t].pc # "create"
          /\ th[t].pc \in Draws => th[t].kind = "rooms"
          /\ th[t].pc \in Asks => th[t].kind = "chats"
          /\ th[t].pc \in Draws \cup {"drawn"} => th[t].room \in Rooms
    /\ In(t, "chats", Asks) => th[t].room \in Rooms
    /\ th[t].pc = "item" => th[t].i \in 1 .. th[t].len
    /\ th[t].pc = "asked" => th[t].got = <<>>
    /\ In(t, "rooms", {"answer", "alloc", "copy"}) =>
          \A i \in DOMAIN th[t].got : \E r \in Rooms : th[t].got[i] = RoomItem(r)
    /\ Fills(t, "rooms") => th[t].got # <<>>

(* Shape is said of each thread by itself. *)
LEMMA ShapeByThread == Shape <=> \A t \in Threads : ShapeOf(t)
BY DEF Shape, ShapeOf, Threads

(* A step that moves one thread is judged by that thread. *)
LEMMA ShapeAlone ==
  ASSUME Shape, NEW t \in Threads, Alone(t), ShapeOf(t)'
  PROVE  Shape'
<1>1. \A u \in Threads : u # t => ShapeOf(u)'
  BY ShapeByThread DEF ShapeOf, In, Fills, Alone
<1>2. \A u \in Threads : ShapeOf(u)'
  BY <1>1
<1>3. QED
  BY <1>2 DEF Shape, ShapeOf, Threads

(* An idle thread, one that asks, and one that has drawn. *)
LEMMA ShapeIdle ==
  ASSUME NEW t \in Threads, th'[t] = Idle
  PROVE  ShapeOf(t)'
BY IdleFields DEF ShapeOf, In, Fills, Asks, Draws, Drops

(* A thread that has just sent its request has its shape. *)
LEMMA ShapeAsking ==
  ASSUME NEW t \in Threads, NEW k \in Lists, NEW r \in Rooms \cup {None},
         th'[t] = Asking(k, r), k = "chats" => r \in Rooms, t = "sse" => k = "chats"
  PROVE  ShapeOf(t)'
BY AskingFields DEF ShapeOf, In, Fills, Asks, Draws, Drops

(* So has one that has drawn. *)
LEMMA ShapeDrawn ==
  ASSUME Typed, Shape, NEW t \in Threads, th[t].pc \in Draws, th'[t] = AfterDraw(t)
  PROVE  ShapeOf(t)'
BY AfterDrawFields, ShapeByThread DEF ShapeOf, In, Fills, Asks, Draws, Drops

(* The steps of loading and drawing keep the shape. *)
LEMMA ThreadShape ==
  ASSUME Typed, Shape, NEW t \in Threads,
         \/ Serve(t) \/ Fail(t) \/ TakeRooms(t) \/ TakeChats(t) \/ SetData(t) \/ Copy(t)
         \/ DrawItem(t) \/ DropData(t) \/ ZeroSize(t)
  PROVE  Shape'
<1>0. th[t] \in Thread /\ ShapeOf(t) /\ th[t].kind \in Lists
      /\ th[t].room \in Rooms \cup {None}
  BY ShapeByThread DEF Typed, Thread
<1>s. ASSUME UNCHANGED th PROVE Shape'
  BY <1>s DEF Shape, In, Fills
<1>1. CASE Serve(t)
  <2>1. In(t, "rooms", {"answer", "alloc", "copy"})' =>
          \A i \in DOMAIN th'[t].got : \E r \in Rooms : th'[t].got[i] = RoomItem(r)
    <3>1. th[t].kind = "rooms" => \A i \in DOMAIN Snapshot(th[t].kind, th[t].room) :
             \E r \in Rooms : Snapshot(th[t].kind, th[t].room)[i] = RoomItem(r)
      <4> DEFINE S == Snapshot("rooms", th[t].room)
      <4>1. DOMAIN joined = 1 .. Len(joined)
        BY DEF Typed
      <4>2. /\ S \in Seq(Items) /\ Len(S) = Len(joined)
            /\ \A i \in DOMAIN joined : joined[i] \in Rooms /\ S[i] = RoomItem(joined[i])
        BY <1>0, SnapshotFacts
      <4> HIDE DEF S
      <4>3. DOMAIN S = DOMAIN joined
        BY <4>1, <4>2
      <4>4. \A i \in DOMAIN S : \E r \in Rooms : S[i] = RoomItem(r)
        BY <4>2, <4>3
      <4>5. QED
        BY <4>4 DEF S
    <3>2. QED
      BY <1>1, <3>1, ServeDoes DEF In
  <2>2. ShapeOf(t)'
    BY <1>0, <1>1, <2>1, ServeDoes DEF ShapeOf, In, Fills, At, Asks, Draws, Drops
  <2>3. QED
    BY <1>1, <2>2, ShapeAlone, ServeDoes
<1>2. CASE Fail(t)
  BY <1>2, FailDoes, ShapeIdle, ShapeAlone
<1>3. CASE TakeRooms(t)
  <2>1. ShapeOf(t)'
    BY <1>0, <1>3, TakeRoomsDoes DEF ShapeOf, Goes, In, Fills, At, Asks, Draws, Drops
  <2>2. QED
    BY <1>3, <2>1, ShapeAlone, TakeRoomsDoes DEF Goes
<1>4. CASE TakeChats(t)
  <2>1. CASE Goes(t, "alloc")
    <3>1. ShapeOf(t)'
      BY <1>0, <1>4, <2>1, TakeChatsDoes DEF ShapeOf, Goes, In, Fills, At, Asks, Draws, Drops
    <3>2. QED
      BY <2>1, <3>1, ShapeAlone DEF Goes
  <2>2. CASE Alone(t) /\ th'[t] = Idle
    BY <2>2, ShapeIdle, ShapeAlone
  <2>3. CASE Crash(t)
    BY <1>s, <2>3, CrashDoes
  <2>4. QED
    BY <1>4, <2>1, <2>2, <2>3, TakeChatsDoes
<1>5. CASE SetData(t)
  <2>1. ShapeOf(t)'
    BY <1>0, <1>5, SetDataDoes DEF ShapeOf, Goes, In, Fills, At, Asks, Draws, Drops
  <2>2. QED
    BY <1>5, <2>1, ShapeAlone, SetDataDoes DEF Goes
<1>6. CASE Copy(t)
  <2>1. CASE Crash(t)
    BY <1>s, <2>1, CrashDoes
  <2>2. CASE Alone(t) /\ th'[t] = Idle
    BY <2>2, ShapeIdle, ShapeAlone
  <2>3. ASSUME Alone(t), t = "gtk", NEW r \in Rooms, th'[t] = Asking("chats", r)
        PROVE  Shape'
    BY <2>3, ShapeAsking, ShapeAlone DEF Lists
  <2>4. QED
    BY <1>6, <2>1, <2>2, <2>3, CopyDoes
<1>7. CASE DrawItem(t)
  <2>1. CASE Crash(t)
    BY <1>s, <2>1, CrashDoes
  <2>2. CASE NextItem(t)
    <3>1. At(t, "item")
      BY <1>7, DrawItemDoes
    <3>2. CASE th'[t] = AfterDraw(t)
      BY <2>2, <3>1, <3>2, ShapeDrawn, ShapeAlone DEF NextItem, At, Draws
    <3>3. CASE th'[t] # AfterDraw(t)
      <4>1. th[t].i \in 1 .. th[t].len /\ th[t].i # th[t].len /\ th[t].len \in Nat
        BY <1>0, <2>2, <3>1, <3>3 DEF NextItem, ShapeOf, At, Thread
      <4>2. th'[t].i \in 1 .. th'[t].len
        BY <2>2, <3>3, <4>1 DEF NextItem
      <4>3. ShapeOf(t)'
        BY <1>0, <2>2, <3>1, <3>3, <4>2 DEF NextItem, ShapeOf, In, Fills, At, Asks, Draws, Drops
      <4>4. QED
        BY <2>2, <4>3, ShapeAlone DEF NextItem
    <3>4. QED
      BY <3>2, <3>3
  <2>3. QED
    BY <1>7, <2>1, <2>2, DrawItemDoes
<1>8. CASE DropData(t)
  <2>1. ShapeOf(t)'
    BY <1>0, <1>8, DropDataDoes DEF ShapeOf, Goes, In, Fills, At, Asks, Draws, Drops
  <2>2. QED
    BY <1>8, <2>1, ShapeAlone, DropDataDoes DEF Goes
<1>9. CASE ZeroSize(t)
  BY <1>9, ZeroSizeDoes, ShapeDrawn, ShapeAlone DEF At, Draws, Drops
<1>10. QED
  BY <1>1, <1>2, <1>3, <1>4, <1>5, <1>6, <1>7, <1>8, <1>9

(* So does the beginning of a draw. *)
LEMMA BeginShape ==
  ASSUME Typed, Shape, NEW t \in Threads, NEW k \in Lists, NEW r \in Rooms \cup {None},
         Begin(t, k, r), t = "sse" => k = "rooms" /\ r \in Rooms
  PROVE  Shape'
<1>1. th'[t].pc = "item" => th'[t].i \in 1 .. th'[t].len
  <2>1. list[k].size \in Nat
    BY DEF Typed
  <2>2. QED
    BY <2>1, BeginDoes
<1>2. ShapeOf(t)'
  BY <1>1, BeginDoes DEF ShapeOf, In, Fills, Asks, Draws, Drops
<1>3. QED
  BY <1>2, BeginDoes, ShapeAlone

(* Every step keeps the shape. *)
LEMMA ShapeKept ==
  ASSUME Typed, Shape, Next
  PROVE  Shape'
<1>0. "gtk" \in Threads /\ "sse" \in Threads /\ "rooms" \in Lists /\ "chats" \in Lists
  BY DEF Threads, Lists
<1>1. ASSUME UNCHANGED th PROVE Shape'
  BY <1>1 DEF Shape, In, Fills
<1>2. CASE OthersChange \/ Invited \/ SendChat \/ RightClick \/ Dismiss \/ SendMark
  BY <1>1, <1>2
     DEF OthersChange, Invited, SendChat, RightClick, Dismiss, SendMark, page
<1>3. CASE PickDelete \/ PickReact
  BY <1>1, <1>3, PickDoes, CrashDoes DEF page
<1>4. CASE HearPush
  <2>1. Head(pushes) \in Rooms \/ Crash("sse")
    BY <1>4, HearPushDoes
  <2>2. CASE Crash("sse")
    BY <1>1, <2>2, CrashDoes
  <2>3. CASE Head(pushes) \in Rooms /\ Begin("sse", "rooms", Head(pushes))
    BY <1>0, <2>3, BeginShape
  <2>4. QED
    BY <1>4, <2>1, <2>2, <2>3, HearPushDoes
<1>5. CASE IfCurrent
  <2>1. CASE th'["sse"] = Idle
    BY <1>0, <1>5, <2>1, IfCurrentDoes, ShapeIdle, ShapeAlone
  <2>2. CASE curr \in Rooms /\ th'["sse"] = Asking("chats", curr)
    BY <1>0, <1>5, <2>2, IfCurrentDoes, ShapeAsking, ShapeAlone
  <2>3. QED
    BY <1>5, <2>1, <2>2, IfCurrentDoes
<1>6. CASE IdleDraw
  <2>1. PICK k \in queued : Begin("gtk", k, None)
    BY <1>6, IdleDrawDoes
  <2>2. k \in Lists
    BY DEF Typed
  <2>3. QED
    BY <1>0, <2>1, <2>2, BeginShape
<1>7. CASE SelectRoom
  BY <1>0, <1>7, SelectRoomDoes, ShapeAsking, ShapeAlone
<1>8. CASE AddRoom
  <2>1. ShapeOf("gtk")'
    BY <1>8, AddRoomDoes DEF ShapeOf, Goes, In, Fills, Asks, Draws, Drops
  <2>2. QED
    BY <1>0, <1>8, <2>1, AddRoomDoes, ShapeAlone DEF Goes
<1>9. CASE RoomCreated
  BY <1>0, <1>9, RoomCreatedDoes, ShapeAsking, ShapeIdle, ShapeAlone
<1>10. QED
  BY <1>2, <1>3, <1>4, <1>5, <1>6, <1>7, <1>8, <1>9, ThreadShape DEF Next

-----------------------------------------------------------------------------
(* The forms a step takes at the lists.                                    *)

(* Nothing happens to the lists, the widgets and the threads. *)
Stays == UNCHANGED <<th, list, box, queued, curr>>

(* The lists and the widgets stay. *)
Looks == UNCHANGED <<list, box, queued, curr>>

(* A thread that is at neither list asks for one, or does something else.  *)
Turns(t) ==
    /\ Alone(t) /\ Looks
    /\ t = "gtk" => menu.open = "none" \/ At(t, "create")
    /\ th[t].pc \in {"idle", "create", "drawn"} /\ th'[t].pc \in {"idle", "create", "asked"}
    /\ th'[t].pc = "asked" /\ th'[t].kind = "chats" =>
          /\ th'[t].room \in Rooms /\ Wanted(th'[t].room)
          /\ t = "sse" => th'[t].room = curr
    /\ th'[t].pc = "asked" => th'[t].got = <<>>
    /\ t = "sse" =>
          /\ th'[t].pc = "asked" => th'[t].kind = "chats"
          /\ th'[t].pc # "asked" => th[t].room # curr

Answered(t) ==
    /\ At(t, "asked") /\ Alone(t) /\ Looks /\ th'[t].pc \in {"answer", "failed"}
    /\ th'[t].kind = th[t].kind /\ th'[t].room = th[t].room
    /\ th'[t].got = Snapshot(th[t].kind, th[t].room) \/ th'[t].got = <<>>

GivesUp(t) ==
    /\ At(t, "failed") /\ Alone(t) /\ th'[t] = Idle
    /\ box'["chats"] = <<>> /\ box'["rooms"] \in {<<>>, box["rooms"]}
    /\ UNCHANGED <<list, queued, curr>>

NoRooms(t) ==
    /\ t = "gtk" /\ In(t, "rooms", {"answer"}) /\ th[t].got = <<>> /\ Goes(t, "null")
    /\ BoxOnly("rooms") /\ box'["rooms"] = <<>>
    /\ UNCHANGED <<list, queued, curr>>

RoomsSize(t) ==
    /\ t = "gtk" /\ In(t, "rooms", {"answer"}) /\ th[t].got # <<>> /\ Goes(t, "alloc")
    /\ BoxOnly("rooms") /\ box'["rooms"] = <<>>
    /\ ListOnly("rooms") /\ list'["rooms"].size = Len(th[t].got)
    /\ list'["rooms"].data = list["rooms"].data
    /\ UNCHANGED <<queued, curr>>

NoChats(t) ==
    /\ In(t, "chats", {"answer"}) /\ Alone(t) /\ th'[t] = Idle
    /\ curr' = th[t].room
    /\ BoxOnly("chats") /\ box'["chats"] = <<>>
    /\ UNCHANGED <<list, queued>>

ChatsSize(t) ==
    /\ In(t, "chats", {"answer"}) /\ Goes(t, "alloc")
    /\ curr' = th[t].room
    /\ ListOnly("chats") /\ list'["chats"].size = Len(th[t].got)
    /\ list'["chats"].data = list["chats"].data
    /\ UNCHANGED <<box, queued>>

Allocates(t, k) ==
    /\ In(t, k, {"alloc"}) /\ Goes(t, "copy") /\ ListOnly(k)
    /\ list'[k].size = list[k].size /\ list'[k].data = Malloc(Len(th[t].got))
    /\ UNCHANGED <<box, queued, curr>>

Copies(t, k) ==
    /\ In(t, k, {"copy"})
    /\ list[k].data.ptr = "heap" \/ th[t].got = <<>>
    /\ ListOnly(k) /\ list'[k].size = list[k].size
    /\ list'[k].data.ptr = list[k].data.ptr /\ list'[k].data.items = Copied(t)
    /\ queued' = queued \cup {k} /\ Alone(t)
    /\ \/ th'[t] = Idle
       \/ /\ t = "gtk" /\ k = "rooms"
          /\ \E r \in Rooms : /\ 1 \in DOMAIN th[t].got /\ th[t].got[1] = RoomItem(r)
                              /\ th'[t] = Asking("chats", r)
    /\ UNCHANGED <<box, curr>>

Starts(t, k) ==
    /\ At(t, "idle") /\ Alone(t)
    /\ t = "sse" => k = "rooms" /\ ~Unreadable("rooms")
    /\ th'[t].pc = IF list[k].size = 0 THEN "null" ELSE "item"
    /\ th'[t].kind = k /\ th'[t].i = 1 /\ th'[t].len = list[k].size
    /\ BoxOnly(k) /\ box'[k] = <<>>
    /\ t = "gtk" => k \in queued /\ queued' = queued \ {k} /\ UNCHANGED pushes
    /\ t = "sse" => /\ UNCHANGED queued /\ pushes # <<>> /\ pushes' = Tail(pushes)
                    /\ th'[t].room = Head(pushes)
    /\ UNCHANGED <<list, curr>>

DrawsOne(t, k) ==
    /\ In(t, k, {"item"}) /\ list[k].data.ptr = "heap" /\ NextItem(t)
    /\ BoxOnly(k) /\ box'[k] = Append(box[k], Element(k, th[t].i))
    /\ UNCHANGED <<list, queued, curr>>

SkipsOne(t) ==
    In(t, "chats", {"item"}) /\ list["chats"].data.ptr = "null" /\ NextItem(t) /\ Looks

Frees(t, k) ==
    /\ In(t, k, {"null"}) /\ Goes(t, "zero") /\ ListOnly(k)
    /\ list'[k].size = list[k].size /\ list'[k].data = Pointer("null")
    /\ UNCHANGED <<box, queued, curr>>

Empties(t, k) ==
    /\ In(t, k, {"zero"}) /\ Alone(t) /\ th'[t] = AfterDraw(t) /\ ListOnly(k)
    /\ list'[k].size = 0 /\ list'[k].data = list[k].data
    /\ UNCHANGED <<box, queued, curr>>

ListStep(t, k) ==
    \/ Allocates(t, k) \/ Copies(t, k) \/ Starts(t, k) \/ DrawsOne(t, k)
    \/ Frees(t, k) \/ Empties(t, k)

ThreadStep(t) ==
    \/ Turns(t) \/ Answered(t) \/ GivesUp(t) \/ NoRooms(t) \/ RoomsSize(t)
    \/ NoChats(t) \/ ChatsSize(t) \/ SkipsOne(t)
    \/ \E k \in Lists : ListStep(t, k)

(* Every step is of one of these forms. *)
LEMMA StepForms ==
  ASSUME Typed, Shape, Next
  PROVE  Stays \/ \E t \in Threads : ThreadStep(t)
<1>0. /\ "gtk" \in Threads /\ "sse" \in Threads /\ "rooms" \in Lists /\ "chats" \in Lists
      /\ \A t \in Threads : th[t].kind \in Lists
  BY DEF Threads, Lists, Typed, Thread
<1>1. CASE OthersChange \/ Invited \/ SendChat \/ RightClick \/ Dismiss \/ SendMark
  BY <1>1 DEF OthersChange, Invited, SendChat, RightClick, Dismiss, SendMark, page, Stays
<1>2. CASE PickDelete \/ PickReact
  BY <1>2, PickDoes, CrashDoes DEF page, Stays
<1>3. CASE HearPush
  <2>1. CASE Crash("sse")
    BY <2>1, CrashDoes DEF Stays
  <2>2. CASE ~Unreadable("rooms") /\ Begin("sse", "rooms", Head(pushes)) /\ UNCHANGED queued
             /\ Head(pushes) \in Rooms /\ pushes # <<>> /\ pushes' = Tail(pushes)
    <3>1. Starts("sse", "rooms")
      BY <1>0, <1>3, <2>2, BeginDoes, HearPushDoes DEF Starts
    <3>2. QED
      BY <1>0, <3>1 DEF ThreadStep, ListStep
  <2>3. QED
    BY <1>3, <2>1, <2>2, HearPushDoes
<1>4. CASE IfCurrent
  <2>1. CASE th["sse"].room # curr /\ th'["sse"] = Idle
    <3>1. Turns("sse")
      BY <1>4, <2>1, IfCurrentDoes, IdleFields DEF Turns, Looks, At
    <3>2. QED
      BY <1>0, <3>1 DEF ThreadStep
  <2>2. CASE th'["sse"] = Asking("chats", curr) /\ curr \in Rooms
    <3>1. Turns("sse")
      BY <1>0, <1>4, <2>2, IfCurrentDoes, AskingFields DEF Turns, Looks, At, Wanted
    <3>2. QED
      BY <1>0, <3>1 DEF ThreadStep
  <2>3. QED
    BY <1>4, <2>1, <2>2, IfCurrentDoes
<1>5. CASE IdleDraw
  <2>1. PICK k \in queued : Begin("gtk", k, None) /\ queued' = queued \ {k}
    BY <1>5, IdleDrawDoes
  <2>2. k \in Lists
    BY DEF Typed
  <2>3. Starts("gtk", k)
    BY <1>0, <1>5, <2>1, <2>2, BeginDoes, IdleDrawDoes DEF Starts
  <2>4. QED
    BY <1>0, <2>2, <2>3 DEF ThreadStep, ListStep
<1>6. CASE SelectRoom
  <2>1. PICK r \in Rooms : /\ th'["gtk"] = Asking("chats", r)
                           /\ \E i \in DOMAIN box["rooms"] : box["rooms"][i][1] = r
    BY <1>6, SelectRoomDoes
  <2>2. Turns("gtk")
    BY <1>0, <1>6, <2>1, SelectRoomDoes, AskingFields DEF Turns, Looks, At, Wanted
  <2>3. QED
    BY <1>0, <2>2 DEF ThreadStep
<1>7. CASE AddRoom
  <2>1. Turns("gtk")
    BY <1>7, AddRoomDoes DEF Turns, Looks, At, Goes
  <2>2. QED
    BY <1>0, <2>1 DEF ThreadStep
<1>8. CASE RoomCreated
  <2>1. Turns("gtk")
    BY <1>0, <1>8, RoomCreatedDoes, AskingFields, IdleFields DEF Turns, Looks, At
  <2>2. QED
    BY <1>0, <2>1 DEF ThreadStep
<1>9. ASSUME NEW t \in Threads,
             \/ Serve(t) \/ Fail(t) \/ TakeRooms(t) \/ TakeChats(t) \/ SetData(t) \/ Copy(t)
             \/ DrawItem(t) \/ DropData(t) \/ ZeroSize(t)
      PROVE  Stays \/ ThreadStep(t)
  <2> DEFINE k == th[t].kind
  <2>0. k \in Lists
    BY <1>0
  <2>1. CASE Serve(t)
    <3>1. Answered(t)
      BY <2>1, ServeDoes DEF Answered, Looks
    <3>2. QED
      BY <3>1 DEF ThreadStep
  <2>2. CASE Fail(t)
    <3>1. GivesUp(t)
      BY <2>2, FailDoes DEF GivesUp
    <3>2. QED
      BY <3>1 DEF ThreadStep
  <2>3. CASE TakeRooms(t)
    <3>1. NoRooms(t) \/ RoomsSize(t)
      BY <2>3, TakeRoomsDoes DEF NoRooms, RoomsSize, In, At
    <3>2. QED
      BY <3>1 DEF ThreadStep
  <2>4. CASE TakeChats(t)
    <3>1. NoChats(t) \/ ChatsSize(t) \/ Stays
      BY <2>4, TakeChatsDoes, CrashDoes DEF NoChats, ChatsSize, In, At, Stays
    <3>2. QED
      BY <3>1 DEF ThreadStep
  <2>5. CASE SetData(t)
    <3>1. Allocates(t, k)
      BY <2>5, SetDataDoes DEF Allocates, In, At
    <3>2. QED
      BY <2>0, <3>1 DEF ThreadStep, ListStep
  <2>6. CASE Copy(t)
    <3>1. th[t].got \in Seq(Items)
      BY DEF Typed, Thread
    <3>2. Copies(t, k) \/ Stays
      BY <2>6, <3>1, CopyDoes, CrashDoes DEF Copies, In, At, Stays
    <3>3. QED
      BY <2>0, <3>2 DEF ThreadStep, ListStep
  <2>7. CASE DrawItem(t)
    <3>1. DrawsOne(t, k) \/ SkipsOne(t) \/ Stays
      BY <2>7, DrawItemDoes, CrashDoes DEF DrawsOne, SkipsOne, Looks, In, At, Stays
    <3>2. QED
      BY <2>0, <3>1 DEF ThreadStep, ListStep
  <2>8. CASE DropData(t)
    <3>1. Frees(t, k)
      BY <2>8, DropDataDoes DEF Frees, In, At
    <3>2. QED
      BY <2>0, <3>1 DEF ThreadStep, ListStep
  <2>9. CASE ZeroSize(t)
    <3>1. Empties(t, k)
      BY <2>9, ZeroSizeDoes DEF Empties, In, At
    <3>2. QED
      BY <2>0, <3>1 DEF ThreadStep, ListStep
  <2>10. QED
    BY <1>9, <2>1, <2>2, <2>3, <2>4, <2>5, <2>6, <2>7, <2>8, <2>9
<1>10. QED
  BY <1>1, <1>2, <1>3, <1>4, <1>5, <1>6, <1>7, <1>8, <1>9 DEF Next

(* What happens to the server, and on the way from it.                     *)
LEMMA ServerForms ==
  ASSUME Typed, Shape, Unopened, Next
  PROVE  /\ \A i \in DOMAIN joined : i \in DOMAIN joined' /\ joined'[i] = joined[i]
         /\ \A q \in Rooms :
               count[q] <= count'[q] /\ (count'[q] = count[q] \/ Pushed(q)')
         /\ \A q \in Rooms : Pushed(q) =>
               Pushed(q)' \/ (At("sse", "idle") /\ ~At("sse", "idle")' /\ th'["sse"].room = q)
<1> DEFINE Same == UNCHANGED <<joined, count, pushes>>
<1>0. /\ \A q \in Rooms : count[q] \in Nat
      /\ pushes \in Seq(Rooms)
      /\ "sse" \in Threads /\ "rooms" \in Lists
  BY BoundsAssumption DEF Typed, Threads, Lists
<1>1. CASE Same
  BY <1>0, <1>1 DEF Pushed
<1>2. ASSUME NEW r \in Rooms, NEW new, Change(r, new)
      PROVE  /\ \A i \in DOMAIN joined : i \in DOMAIN joined' /\ joined'[i] = joined[i]
             /\ \A q \in Rooms :
                   count[q] <= count'[q] /\ (count'[q] = count[q] \/ Pushed(q)')
             /\ \A q \in Rooms : Pushed(q) => Pushed(q)'
  BY <1>2, ChangeDoes
<1>3. CASE OthersChange
  <2>1. PICK i \in DOMAIN joined, new \in BOOLEAN : Change(joined[i], new)
    BY <1>3 DEF OthersChange
  <2>2. joined[i] \in Rooms
    BY DEF Typed
  <2>3. QED
    BY <1>2, <2>1, <2>2
<1>4. CASE SendChat \/ SendMark
  BY <1>2, <1>4, SendsInRoom
<1>5. CASE Invited
  BY <1>0, <1>5, NewRoomDoes DEF Invited, Pushed
<1>6. CASE RoomCreated
  BY <1>0, <1>6, NewRoomDoes, RoomCreatedDoes DEF Pushed
<1>7. CASE HearPush
  <2>1. CASE Crash("sse") /\ UNCHANGED server
    BY <1>1, <2>1 DEF server
  <2>2. CASE Begin("sse", "rooms", Head(pushes)) /\ pushes # <<>> /\ pushes' = Tail(pushes)
             /\ Head(pushes) \in Rooms
    <3>1. UNCHANGED <<joined, count>> /\ th'["sse"].room = Head(pushes)
          /\ th'["sse"].pc \in {"null", "item"} /\ At("sse", "idle")
      BY <1>0, <1>7, <2>2, BeginDoes, HearPushDoes
    <3>2. \A q : Pushed(q) => Pushed(q)' \/ Head(pushes) = q
      <4>1. \A i \in DOMAIN pushes : i # 1 => i - 1 \in DOMAIN pushes' /\ pushes'[i - 1] = pushes[i]
        BY <1>0, <2>2
      <4>2. QED
        BY <1>0, <4>1 DEF Pushed
    <3>3. QED
      BY <1>0, <3>1, <3>2 DEF At
  <2>3. QED
    BY <1>7, <2>1, <2>2, HearPushDoes
<1>8. CASE IfCurrent \/ IdleDraw \/ SelectRoom \/ AddRoom \/ RightClick \/ PickDelete
           \/ PickReact \/ Dismiss
  <2>1. CASE IdleDraw
    <3>1. PICK k \in queued : Begin("gtk", k, None)
      BY <2>1, IdleDrawDoes
    <3>2. UNCHANGED <<joined, count, pushes>>
      BY <2>1, <3>1, IdleDrawDoes DEF Begin
    <3>3. QED
      BY <1>1, <3>2
  <2>2. CASE ~IdleDraw
    BY <1>1, <1>8, <2>2 DEF IfCurrent, SelectRoom, AddRoom, RightClick, PickDelete, PickReact,
       Dismiss, server
  <2>3. QED
    BY <2>1, <2>2
<1>9. ASSUME NEW t \in Threads,
             \/ Serve(t) \/ Fail(t) \/ TakeRooms(t) \/ TakeChats(t) \/ SetData(t) \/ Copy(t)
             \/ DrawItem(t) \/ DropData(t) \/ ZeroSize(t)
      PROVE  Same
  BY <1>9 DEF Serve, Fail, TakeRooms, TakeChats, SetData, Copy, DrawItem, DropData, ZeroSize,
     server
<1>10. QED
  BY <1>1, <1>3, <1>4, <1>5, <1>6, <1>7, <1>8, <1>9 DEF Next

-----------------------------------------------------------------------------
(* Before the first load, and the number of messages.                      *)

(* A room becomes the current one when its messages are to be loaded. *)
LEMMA CurrForms ==
  ASSUME NEW t \in Threads, ThreadStep(t)
  PROVE  curr' = curr \/ (In(t, "chats", Asks) /\ curr' = th[t].room)
<1>1. CASE Turns(t) \/ Answered(t) \/ GivesUp(t) \/ NoRooms(t) \/ RoomsSize(t) \/ SkipsOne(t)
  BY <1>1 DEF Turns, Answered, GivesUp, NoRooms, RoomsSize, SkipsOne, Looks
<1>2. CASE NoChats(t) \/ ChatsSize(t)
  BY <1>2 DEF NoChats, ChatsSize, In, Asks
<1>3. ASSUME NEW k \in Lists, ListStep(t, k) PROVE curr' = curr
  BY <1>3 DEF ListStep, Allocates, Copies, Starts, DrawsOne, Frees, Empties
<1>4. QED
  BY <1>1, <1>2, <1>3 DEF ThreadStep

(* What happens to the items of the list of rooms. *)
LEMMA RowsForms ==
  ASSUME NEW t \in Threads, ThreadStep(t)
  PROVE  UNCHANGED Rows \/ Allocates(t, "rooms") \/ Copies(t, "rooms") \/ Frees(t, "rooms")
<1>0. "rooms" \in Lists /\ \A k \in Lists : k = "rooms" \/ k = "chats"
  BY DEF Lists
<1>1. CASE Turns(t) \/ Answered(t) \/ GivesUp(t) \/ NoRooms(t) \/ NoChats(t) \/ SkipsOne(t)
  BY <1>1 DEF Turns, Answered, GivesUp, NoRooms, NoChats, SkipsOne, Looks, Rows
<1>2. CASE RoomsSize(t)
  BY <1>2 DEF RoomsSize, Rows
<1>3. CASE ChatsSize(t)
  BY <1>0, <1>3 DEF ChatsSize, ListOnly, Rows
<1>4. ASSUME NEW k \in Lists, Allocates(t, k) \/ Copies(t, k) \/ Frees(t, k)
      PROVE  UNCHANGED Rows \/ k = "rooms"
  BY <1>0, <1>4 DEF Allocates, Copies, Frees, ListOnly, Rows
<1>5. ASSUME NEW k \in Lists, Starts(t, k) \/ DrawsOne(t, k)
      PROVE  UNCHANGED Rows
  BY <1>5 DEF Starts, DrawsOne, Rows
<1>6. ASSUME NEW k \in Lists, Empties(t, k)
      PROVE  UNCHANGED Rows
  BY <1>0, <1>6 DEF Empties, ListOnly, Rows
<1>7. QED
  BY <1>1, <1>2, <1>3, <1>4, <1>5, <1>6 DEF ThreadStep, ListStep

(* As long as no room was opened no messages were loaded. *)
LEMMA UnopenedKept ==
  ASSUME Typed, Shape, Unopened, Next
  PROVE  Unopened'
<1>0. /\ "gtk" \in Threads /\ "sse" \in Threads /\ "rooms" \in Lists /\ "chats" \in Lists
      /\ \A t \in Threads : th[t] \in Thread /\ (In(t, "chats", Asks) => th[t].room # None)
  BY ItemFacts DEF Typed, Threads, Lists, Shape
<1>1. SUFFICES ASSUME curr' = None PROVE Unopened'
  BY DEF Unopened
<1>2. CASE curr # None
  <2>1. curr' # None
    BY <1>0, <1>2, StepForms, CurrForms DEF Stays
  <2>2. QED
    BY <1>1, <2>1
<1>3. CASE curr = None
  <2>0. /\ list["chats"].size = 0 /\ box["chats"] = <<>>
        /\ ~In("gtk", "chats", {"item"}) /\ \A t \in Threads : ~Fills(t, "chats")
        /\ menu.open = "none"
    BY <1>3 DEF Unopened
  <2>1. menu'.open = "none"
    <3>1. ~RightClick /\ ~PickDelete /\ ~PickReact
      BY <2>0 DEF RightClick, PickDelete, PickReact, Picking
    <3>2. menu' = menu \/ menu' = NoMenu
      BY <3>1 DEF Next, OthersChange, Invited, HearPush, Begin, IfCurrent, IdleDraw, SelectRoom,
         AddRoom, RoomCreated, SendChat, Dismiss, SendMark, Serve, Fail, TakeRooms, TakeChats,
         SetData, Copy, DrawItem, DropData, ZeroSize
    <3>3. QED
      BY <2>0, <3>2, NoMenuFacts
  <2>2. /\ list'["chats"].size = 0 /\ box'["chats"] = <<>>
        /\ ~In("gtk", "chats", {"item"})' /\ \A t \in Threads : ~Fills(t, "chats")'
    <3>1. CASE Stays
      BY <2>0, <3>1 DEF Stays, In, Fills
    <3>2. ASSUME NEW t \in Threads, ThreadStep(t)
          PROVE  /\ list'["chats"].size = 0 /\ box'["chats"] = <<>>
                 /\ ~In("gtk", "chats", {"item"})' /\ \A u \in Threads : ~Fills(u, "chats")'
      <4>1. ~NoChats(t) /\ ~ChatsSize(t)
        BY <1>0, <1>1 DEF NoChats, ChatsSize, In, Asks
      <4>2. CASE Turns(t) \/ Answered(t)
        BY <1>0, <2>0, <4>2 DEF Turns, Answered, Looks, Alone, In, Fills
      <4>3. CASE GivesUp(t)
        BY <1>0, <2>0, <4>3, IdleFields DEF GivesUp, Alone, In, Fills
      <4>4. CASE NoRooms(t) \/ RoomsSize(t)
        BY <1>0, <2>0, <4>4 DEF NoRooms, RoomsSize, Goes, Alone, BoxOnly, ListOnly, In, Fills
      <4>5. ~SkipsOne(t)
        BY <2>0 DEF SkipsOne, In, Shape, Draws, Threads
      <4>6. ASSUME NEW k \in Lists, ListStep(t, k)
            PROVE  /\ list'["chats"].size = 0 /\ box'["chats"] = <<>>
                   /\ ~In("gtk", "chats", {"item"})' /\ \A u \in Threads : ~Fills(u, "chats")'
        <5>1. CASE Allocates(t, k)
          BY <1>0, <2>0, <5>1 DEF Allocates, Goes, Alone, ListOnly, In, Fills
        <5>2. CASE Copies(t, k)
          BY <1>0, <2>0, <5>2, IdleFields, AskingFields DEF Copies, Alone, ListOnly, In, Fills
        <5>3. CASE Starts(t, k)
          BY <1>0, <2>0, <5>3 DEF Starts, Alone, BoxOnly, In, Fills
        <5>4. CASE DrawsOne(t, k)
          <6>1. k # "chats"
            BY <2>0, <5>4 DEF DrawsOne, In, Shape, Draws, Threads
          <6>2. UNCHANGED list /\ box'["chats"] = box["chats"] /\ NextItem(t) /\ th[t].kind = k
            BY <1>0, <5>4, <6>1 DEF DrawsOne, BoxOnly, In
          <6>3. ~In(t, "chats", {"item"})' /\ ~Fills(t, "chats")'
            BY <6>1, <6>2, AfterDrawFields DEF NextItem, In, Fills
          <6>4. \A u \in Threads : u # t => th'[u] = th[u]
            BY <6>2 DEF NextItem, Alone
          <6>5. \A u \in Threads : /\ In(u, "chats", {"item"})' => In(u, "chats", {"item"})
                                   /\ Fills(u, "chats")' => Fills(u, "chats")
            <7> SUFFICES ASSUME NEW u \in Threads, u # t
                         PROVE  /\ In(u, "chats", {"item"})' => In(u, "chats", {"item"})
                                /\ Fills(u, "chats")' => Fills(u, "chats")
              BY <6>3
            <7>1. QED
              BY <6>4 DEF In, Fills
          <6>6. QED
            BY <1>0, <2>0, <6>2, <6>5
        <5>5. CASE Frees(t, k)
          BY <1>0, <2>0, <5>5 DEF Frees, Goes, Alone, ListOnly, In, Fills
        <5>6. CASE Empties(t, k)
          BY <1>0, <2>0, <5>6, AfterDrawFields DEF Empties, Alone, ListOnly, In, Fills
        <5>7. QED
          BY <4>6, <5>1, <5>2, <5>3, <5>4, <5>5, <5>6 DEF ListStep
      <4>7. QED
        BY <3>2, <4>1, <4>2, <4>3, <4>4, <4>5, <4>6 DEF ThreadStep
    <3>3. QED
      BY <3>1, <3>2, StepForms
  <2>3. QED
    BY <2>1, <2>2 DEF Unopened
<1>4. QED
  BY <1>2, <1>3

(* A step of one thread is judged by what it leaves, and by that thread. *)
LEMMA BoundedAlone ==
  ASSUME Bounded, NEW t \in Threads, Alone(t),
         list'["chats"].size <= MaxChats,
         Len(box'["chats"]) <= MaxChats,
         In(t, "chats", {"answer", "alloc", "copy"})' => Len(th'[t].got) <= MaxChats,
         t = "gtk" /\ In("gtk", "chats", {"item"})' =>
            th'[t].len <= MaxChats /\ Len(box'["chats"]) < th'[t].i,
         t # "gtk" => box'["chats"] \in {<<>>, box["chats"]},
         \A u \in Threads : th[u].pc = "item" => 0 < th[u].i
  PROVE  Bounded'
<1>1. \A u \in Threads : In(u, "chats", {"answer", "alloc", "copy"})' => Len(th'[u].got) <= MaxChats
  BY DEF Bounded, Alone, In
<1>2. ASSUME In("gtk", "chats", {"item"})'
      PROVE  th'["gtk"].len <= MaxChats /\ Len(box'["chats"]) < th'["gtk"].i
  <2>1. CASE t = "gtk"
    BY <1>2, <2>1
  <2>2. CASE t # "gtk"
    <3>1. th'["gtk"] = th["gtk"] /\ "gtk" \in Threads
      BY <2>2 DEF Alone, Threads
    <3>2. th["gtk"].len <= MaxChats /\ Len(box["chats"]) < th["gtk"].i /\ 0 < th["gtk"].i
      BY <1>2, <3>1 DEF Bounded, In
    <3>3. Len(box'["chats"]) < th["gtk"].i
      BY <2>2, <3>2
    <3>4. QED
      BY <3>1, <3>2, <3>3
  <2>3. QED
    BY <2>1, <2>2
<1>3. QED
  BY <1>1, <1>2 DEF Bounded

(* A load brings no more messages than there are, and a draw starts from *)
(* none. *)
LEMMA BoundedKept ==
  ASSUME Typed, Shape, Bounded, Next
  PROVE  Bounded'
<1>0. /\ "gtk" \in Threads /\ "sse" \in Threads /\ "rooms" \in Lists /\ "chats" \in Lists
      /\ \A t \in Threads : /\ th[t] \in Thread /\ th[t].got \in Seq(Items)
                            /\ th[t].len \in Nat /\ th[t].i \in Nat
      /\ MaxChats \in Nat /\ box["chats"] \in Seq(Items)
      /\ list["chats"].size \in Nat
  BY BoundsAssumption DEF Typed, Threads, Lists, Thread
<1>1. /\ list["chats"].size <= MaxChats /\ Len(box["chats"]) <= MaxChats /\ Len(<<>>) <= MaxChats
      /\ \A t \in Threads :
            In(t, "chats", {"answer", "alloc", "copy"}) => Len(th[t].got) <= MaxChats
      /\ In("gtk", "chats", {"item"}) =>
            th["gtk"].len <= MaxChats /\ Len(box["chats"]) < th["gtk"].i
      /\ \A t \in Threads : th[t].pc = "item" =>
            /\ 0 < th[t].i /\ th[t].i \in 1 .. th[t].len
            /\ t # "gtk" => th[t].kind = "rooms"
  BY <1>0 DEF Bounded, Shape, Draws, Threads
<1>2. CASE Stays
  BY <1>2 DEF Stays, Bounded, In
<1>3. ASSUME NEW t \in Threads, ThreadStep(t)
      PROVE  Bounded'
  <2>0. ASSUME Alone(t),
               list'["chats"].size <= MaxChats,
               Len(box'["chats"]) <= MaxChats,
               In(t, "chats", {"answer", "alloc", "copy"})' => Len(th'[t].got) <= MaxChats,
               t = "gtk" /\ In("gtk", "chats", {"item"})' =>
                  th'[t].len <= MaxChats /\ Len(box'["chats"]) < th'[t].i,
               t # "gtk" => box'["chats"] \in {<<>>, box["chats"]}
        PROVE  Bounded'
    BY <1>0, <1>1, <2>0, BoundedAlone
  <2>1. CASE Turns(t)
    BY <1>1, <2>0, <2>1 DEF Turns, Looks, In
  <2>2. CASE Answered(t)
    <3>1. In(t, "chats", {"asked"}) => Len(Snapshot(th[t].kind, th[t].room)) <= MaxChats
      <4>1. In(t, "chats", {"asked"}) => th[t].room \in Rooms
        BY DEF Shape, In, Asks
      <4>2. \A r \in Rooms : count[r] \in Nat /\ count[r] <= MaxChats
        BY <1>0 DEF Typed
      <4>3. QED
        <5> SUFFICES ASSUME In(t, "chats", {"asked"})
                     PROVE  Len(Snapshot("chats", th[t].room)) <= MaxChats
          BY DEF In
        <5>1. Messages(Snapshot("chats", th[t].room), th[t].room, count[th[t].room])
          BY <4>1, SnapshotFacts
        <5>2. Len(Snapshot("chats", th[t].room)) = count[th[t].room]
          BY <5>1 DEF Messages
        <5>3. QED
          BY <4>1, <4>2, <5>2
    <3>2. QED
      BY <1>1, <2>0, <2>2, <3>1 DEF Answered, Looks, At, In
  <2>3. CASE GivesUp(t)
    BY <1>1, <2>0, <2>3, IdleFields DEF GivesUp, In
  <2>4. CASE NoRooms(t) \/ RoomsSize(t)
    BY <1>0, <1>1, <2>0, <2>4 DEF NoRooms, RoomsSize, Goes, BoxOnly, ListOnly, In
  <2>5. CASE NoChats(t)
    BY <1>1, <2>0, <2>5, IdleFields DEF NoChats, In
  <2>6. CASE ChatsSize(t)
    BY <1>1, <2>0, <2>6 DEF ChatsSize, Goes, In
  <2>7. CASE SkipsOne(t)
    BY <1>0, <1>1, <2>0, <2>7, AfterDrawFields DEF SkipsOne, NextItem, Looks, In
  <2>8. ASSUME NEW k \in Lists, ListStep(t, k)
        PROVE  Bounded'
    <3>1. CASE Allocates(t, k)
      BY <1>0, <1>1, <2>0, <3>1 DEF Allocates, Goes, ListOnly, In
    <3>2. CASE Copies(t, k)
      <4>1. th'[t].pc \in {"idle", "asked"}
        BY <3>2, IdleFields, AskingFields, <1>0 DEF Copies
      <4>2. list'["chats"].size = list["chats"].size
        BY <1>0, <3>2 DEF Copies, ListOnly
      <4>3. Alone(t) /\ UNCHANGED box
        BY <3>2 DEF Copies
      <4>4. QED
        BY <1>1, <2>0, <4>1, <4>2, <4>3 DEF In
    <3>3. CASE Starts(t, k)
      BY <1>0, <1>1, <2>0, <3>3 DEF Starts, BoxOnly, In
    <3>4. CASE DrawsOne(t, k)
      <4>1. CASE k = "chats"
        <5>1. t = "gtk" /\ th[t].pc = "item" /\ th[t].kind = "chats"
          BY <1>1, <3>4, <4>1 DEF DrawsOne, In
        <5>2. Len(box'["chats"]) = Len(box["chats"]) + 1
          BY <1>0, <3>4, <4>1 DEF DrawsOne
        <5>3. Len(box["chats"]) < th["gtk"].i /\ th["gtk"].i <= th["gtk"].len /\ th["gtk"].len <= MaxChats
          BY <1>0, <1>1, <5>1 DEF In
        <5>4. /\ Alone(t) /\ UNCHANGED list
              /\ th'[t] = AfterDraw(t) \/ (th'[t].i = th[t].i + 1 /\ th'[t].len = th[t].len)
          BY <3>4 DEF DrawsOne, NextItem
        <5>5. Len(box'["chats"]) <= MaxChats /\ Len(box'["chats"]) < th["gtk"].i + 1
          <6>1. Len(box["chats"]) \in Nat /\ th["gtk"].i \in Nat /\ th["gtk"].len \in Nat
            BY <1>0
          <6>2. QED
            BY <1>0, <5>2, <5>3, <6>1
        <5>6. CASE th'[t] = AfterDraw(t)
          <6>1. th'[t].pc = "idle"
            BY <1>0, <5>1, <5>6, AfterDrawFields
          <6>2. QED
            BY <1>1, <2>0, <5>1, <5>4, <5>5, <6>1 DEF In
        <5>7. CASE th'[t].i = th[t].i + 1 /\ th'[t].len = th[t].len /\ th'[t].pc = "item"
          BY <1>1, <2>0, <5>1, <5>3, <5>4, <5>5, <5>7 DEF In
        <5>8. QED
          BY <3>4, <5>6, <5>7 DEF DrawsOne, NextItem
      <4>2. CASE k # "chats"
        <5>1. box'["chats"] = box["chats"] /\ th[t].kind # "chats" /\ Alone(t) /\ UNCHANGED list
          BY <1>0, <3>4, <4>2 DEF DrawsOne, BoxOnly, In, NextItem
        <5>2. th'[t] = AfterDraw(t) \/ th'[t].kind = th[t].kind
          BY <3>4 DEF DrawsOne, NextItem
        <5>3. QED
          BY <1>1, <2>0, <5>1, <5>2, AfterDrawFields DEF In
      <4>3. QED
        BY <4>1, <4>2
    <3>5. CASE Frees(t, k)
      BY <1>0, <1>1, <2>0, <3>5 DEF Frees, Goes, ListOnly, In
    <3>6. CASE Empties(t, k)
      BY <1>0, <1>1, <2>0, <3>6, AfterDrawFields DEF Empties, ListOnly, In
    <3>7. QED
      BY <2>8, <3>1, <3>2, <3>3, <3>4, <3>5, <3>6 DEF ListStep
  <2>9. QED
    BY <1>3, <2>1, <2>2, <2>3, <2>4, <2>5, <2>6, <2>7, <2>8 DEF ThreadStep
<1>4. QED
  BY <1>2, <1>3, StepForms

-----------------------------------------------------------------------------
(* The memory of the list of rooms.                                        *)

(* Thread t is not between two assignments to the list of rooms, and does  *)
(* not assign to it.                                                       *)
RoomsFar(t) ==
    /\ Alone(t) /\ list'["rooms"] = list["rooms"]
    /\ ~In(t, "rooms", {"alloc", "copy", "zero"})
    /\ ~In(t, "rooms", {"alloc", "copy"})'
    /\ t = "sse" => ~In(t, "rooms", Drops)

(* Which forms of a step are far from the list of rooms. *)
LEMMA FarForms ==
  ASSUME Typed, Shape, NEW t \in Threads,
         \/ Turns(t) \/ Answered(t) \/ GivesUp(t) \/ NoRooms(t) \/ NoChats(t) \/ ChatsSize(t)
         \/ SkipsOne(t) \/ Allocates(t, "chats") \/ Copies(t, "chats")
         \/ (\E k \in Lists : Starts(t, k) \/ DrawsOne(t, k))
         \/ Frees(t, "chats") \/ Empties(t, "chats")
  PROVE  RoomsFar(t)
<1>0. "rooms" \in Lists
  BY DEF Lists
<1>1. CASE Turns(t)
  BY <1>1 DEF Turns, Looks, RoomsFar, In, Drops
<1>2. CASE Answered(t)
  BY <1>2 DEF Answered, Looks, RoomsFar, In, At, Drops
<1>3. CASE GivesUp(t)
  BY <1>3, IdleFields DEF GivesUp, RoomsFar, In, At, Drops
<1>4. CASE NoRooms(t)
  BY <1>4 DEF NoRooms, Goes, RoomsFar, In, Drops
<1>5. CASE NoChats(t)
  BY <1>5, IdleFields DEF NoChats, RoomsFar, In, Drops
<1>6. CASE ChatsSize(t)
  BY <1>0, <1>6 DEF ChatsSize, Goes, ListOnly, RoomsFar, In, Drops
<1>7. CASE SkipsOne(t)
  BY <1>7, AfterDrawFields DEF SkipsOne, NextItem, Looks, RoomsFar, In, Drops
<1>8. CASE Allocates(t, "chats")
  BY <1>0, <1>8 DEF Allocates, Goes, ListOnly, RoomsFar, In, Drops
<1>9. CASE Copies(t, "chats")
  BY <1>0, <1>9, IdleFields DEF Copies, ListOnly, RoomsFar, In, Drops
<1>10. ASSUME NEW k \in Lists, Starts(t, k)
       PROVE  RoomsFar(t)
  BY <1>10 DEF Starts, RoomsFar, In, At, Drops
<1>11. ASSUME NEW k \in Lists, DrawsOne(t, k)
       PROVE  RoomsFar(t)
  BY <1>11, AfterDrawFields DEF DrawsOne, NextItem, RoomsFar, In, Drops
<1>12. CASE Frees(t, "chats")
  BY <1>0, <1>12 DEF Frees, Goes, ListOnly, RoomsFar, In, Drops
<1>13. CASE Empties(t, "chats")
  BY <1>0, <1>13, AfterDrawFields DEF Empties, ListOnly, RoomsFar, In, Drops
<1>14. QED
  BY <1>1, <1>2, <1>3, <1>4, <1>5, <1>6, <1>7, <1>8, <1>9, <1>10, <1>11, <1>12, <1>13

(* Those keep what is known of its memory. *)
LEMMA FarMemory ==
  ASSUME RoomsMemory, NEW t \in Threads, RoomsFar(t)
  PROVE  RoomsMemory'
<1>1. Settled' => Settled
  BY DEF RoomsFar, Settled, Fills, In, Alone, Threads, Drops
<1>2. /\ Fills("gtk", "rooms")' => Fills("gtk", "rooms") /\ th'["gtk"] = th["gtk"]
      /\ In("sse", "rooms", Drops) => In("sse", "rooms", Drops)'
  BY DEF RoomsFar, Fills, In, Alone, Threads, Drops
<1>3. QED
  BY <1>1, <1>2 DEF RoomsMemory, RoomsFar, Rows, Fills, In

(* Every step keeps it, the meetings of two threads included. *)
LEMMA RoomsMemoryKept ==
  ASSUME Typed, Shape, RoomsMemory, Next
  PROVE  RoomsMemory'
<1>0. /\ "gtk" \in Threads /\ "sse" \in Threads /\ "gtk" # "sse"
      /\ "rooms" \in Lists /\ "chats" \in Lists
      /\ \A t \in Threads : th[t].got \in Seq(Items) /\ (t = "gtk" \/ t = "sse")
      /\ \A k \in Lists : k = "rooms" \/ k = "chats"
      /\ list["rooms"].size \in Nat
  BY DEF Typed, Threads, Lists, Thread
<1>1. CASE Stays
  BY <1>1 DEF Stays, RoomsMemory, Rows, Settled, Fills, In
<1>2. ASSUME NEW t \in Threads, ThreadStep(t)
      PROVE  RoomsMemory'
  <2>1. CASE RoomsFar(t)
    BY <2>1, FarMemory
  <2>2. CASE RoomsSize(t)
    <3>1. th'["gtk"].pc = "alloc" /\ th'["gtk"].got = th["gtk"].got /\ t = "gtk"
          /\ list'["rooms"].size = Len(th["gtk"].got) /\ th'["gtk"].kind = "rooms"
      BY <2>2 DEF RoomsSize, Goes, In
    <3>2. QED
      BY <3>1 DEF RoomsMemory, Settled, Fills, In
  <2>3. CASE Allocates(t, "rooms")
    <3>1. /\ t = "gtk" /\ Fills("gtk", "rooms")
          /\ th'["gtk"].pc = "copy" /\ th'["gtk"].got = th["gtk"].got
          /\ list'["rooms"].size = list["rooms"].size
          /\ list'["rooms"].data = Malloc(Len(th'["gtk"].got)) /\ th'["gtk"].kind = "rooms"
      BY <1>0, <2>3 DEF Allocates, Goes, In, Fills, Shape, Asks
    <3>2. QED
      BY <3>1 DEF RoomsMemory, Settled, Fills, In
  <2>4. CASE Copies(t, "rooms")
    <3>1. /\ t = "gtk" /\ In("gtk", "rooms", {"copy"})
          /\ list'["rooms"].size = list["rooms"].size
          /\ list'["rooms"].data.ptr = list["rooms"].data.ptr
          /\ Rows' = Copied(t) /\ th'["sse"] = th["sse"]
          /\ ~Fills("gtk", "rooms")'
      BY <1>0, <2>4, IdleFields, AskingFields DEF Copies, Rows, Alone, In, Fills, Shape, Asks
    <3>2. ASSUME Settled', list'["rooms"].size > 0
          PROVE  /\ list'["rooms"].data.ptr = "heap"
                 /\ Len(Rows') = list'["rooms"].size
                 /\ \A i \in DOMAIN Rows' : \E r \in Rooms : Rows'[i] = RoomItem(r)
      <4>1. ~In("sse", "rooms", Drops)
        BY <3>1, <3>2 DEF Settled, In
      <4>2. list["rooms"].data = Malloc(Len(th["gtk"].got)) /\ list["rooms"].size = Len(th["gtk"].got)
        BY <1>0, <3>1, <3>2, <4>1 DEF RoomsMemory, Fills, In
      <4>3. Rows' = th["gtk"].got /\ list["rooms"].data.ptr = "heap"
        <5>1. /\ Len(Rows) = Len(th["gtk"].got) /\ list["rooms"].data.ptr = "heap"
              /\ th["gtk"].kind = "rooms"
          BY <1>0, <3>1, <4>2, MallocFacts DEF Rows, In
        <5>2. Copied("gtk") = th["gtk"].got
          BY <1>0, <5>1, CopiedFacts DEF Rows
        <5>3. QED
          BY <3>1, <5>1, <5>2
      <4>4. \A i \in DOMAIN th["gtk"].got : \E r \in Rooms : th["gtk"].got[i] = RoomItem(r)
        BY <1>0, <3>1 DEF Shape, In
      <4>5. QED
        BY <3>1, <4>2, <4>3, <4>4
    <3>3. QED
      BY <3>1, <3>2 DEF RoomsMemory, Fills, In
  <2>5. CASE Frees(t, "rooms")
    <3>1. /\ th[t].kind = "rooms" /\ th'[t].kind = "rooms" /\ th'[t].pc = "zero"
          /\ \A u \in Threads : u # t => th'[u] = th[u]
          /\ list'["rooms"].size = list["rooms"].size
          /\ th[t].pc = "null"
      BY <2>5 DEF Frees, Goes, Alone, In
    <3>2. ~Settled'
      BY <1>0, <3>1 DEF Settled, In, Drops
    <3>3. Fills("gtk", "rooms")' => Fills("gtk", "rooms") /\ th'["gtk"] = th["gtk"]
      BY <1>0, <3>1 DEF Fills, In
    <3>4. In("gtk", "rooms", {"copy"})' => In("sse", "rooms", Drops)'
      BY <1>0, <3>1 DEF In, Drops
    <3>5. QED
      BY <3>1, <3>2, <3>3, <3>4 DEF RoomsMemory
  <2>6. CASE Empties(t, "rooms")
    <3>1. list'["rooms"].size = 0
      BY <2>6 DEF Empties
    <3>2. QED
      BY <3>1 DEF RoomsMemory
  <2>7. QED
    BY <1>0, <1>2, <2>1, <2>2, <2>3, <2>4, <2>5, <2>6, FarForms DEF ThreadStep, ListStep
<1>3. QED
  BY <1>1, <1>2, StepForms

-----------------------------------------------------------------------------
(* The rooms that stay listed.                                             *)

(* The rooms of a sequence of items, and of one with an item more. *)
LEMMA AppendItems ==
  ASSUME NEW s \in Seq(Items), NEW m \in Items
  PROVE  /\ Len(Append(s, m)) = Len(s) + 1
         /\ \A i \in DOMAIN Append(s, m) : Append(s, m)[i] = m \/ (i \in DOMAIN s /\ Append(s, m)[i] = s[i])
         /\ Append(s, m)[Len(s) + 1] = m
         /\ \A i \in 1 .. Len(s) : Append(s, m)[i] = s[i]
OBVIOUS

(* A room is wanted that was wanted before, or that a new list brings. *)
LEMMA WantedForms ==
  ASSUME Typed, Shape, NEW r \in Rooms, NEW t \in Threads, ThreadStep(t), Wanted(r)'
  PROVE  \/ Wanted(r)
         \/ /\ t = "gtk" /\ Copies(t, "rooms")
            /\ \E i \in DOMAIN th["gtk"].got : th["gtk"].got[i] = RoomItem(r)
<1>0. /\ "gtk" \in Threads /\ "sse" \in Threads /\ "rooms" \in Lists /\ "chats" \in Lists
      /\ \A u \in Threads : u = "gtk" \/ u = "sse"
      /\ \A k \in Lists : k = "rooms" \/ k = "chats"
      /\ box["rooms"] \in Seq(Items) /\ Rows \in Seq(Items)
      /\ \A u \in Threads : th[u].got \in Seq(Items)
      /\ Junk[1] = None /\ r # None /\ \A q : RoomItem(q)[1] = q
  BY ItemFacts DEF Typed, Threads, Lists, Thread, Data, Rows, Junk, RoomItem
<1> DEFINE Got == /\ t = "gtk" /\ Copies(t, "rooms")
                  /\ \E i \in DOMAIN th["gtk"].got : th["gtk"].got[i] = RoomItem(r)
<1>1. ASSUME r = curr' PROVE Wanted(r) \/ Got
  <2>1. curr' = curr \/ (In(t, "chats", Asks) /\ curr' = th[t].room)
    BY CurrForms
  <2>2. QED
    BY <1>1, <2>1 DEF Wanted
<1>2. ASSUME NEW i \in DOMAIN box'["rooms"], box'["rooms"][i][1] = r
      PROVE  Wanted(r) \/ Got
  <2>1. CASE UNCHANGED box
    BY <1>2, <2>1 DEF Wanted
  <2>2. CASE box'["rooms"] \in {<<>>, box["rooms"]}
    BY <1>2, <2>2 DEF Wanted
  <2>3. CASE DrawsOne(t, "rooms")
    <3> DEFINE m == Element("rooms", th[t].i)
    <3>1. m = Junk \/ \E j \in DOMAIN Rows : m = Rows[j]
      BY DEF Element, Rows
    <3>2. m \in Items
      BY <1>0, <3>1, ItemFacts
    <3>3. box'["rooms"] = Append(box["rooms"], m)
      BY <2>3 DEF DrawsOne
    <3>4. box'["rooms"][i] = m \/ (i \in DOMAIN box["rooms"] /\ box'["rooms"][i] = box["rooms"][i])
      <4> HIDE DEF m
      <4>1. QED
        BY <1>0, <1>2, <3>2, <3>3, AppendItems
    <3> HIDE DEF m
    <3>5. QED
      BY <1>0, <1>2, <3>1, <3>4 DEF Wanted
  <2>4. ThreadStep(t) => \/ UNCHANGED box \/ box'["rooms"] \in {<<>>, box["rooms"]}
                         \/ DrawsOne(t, "rooms")
    BY <1>0 DEF ThreadStep, ListStep, Turns, Looks, Answered, GivesUp, NoRooms, RoomsSize,
       NoChats, ChatsSize, SkipsOne, Allocates, Copies, Starts, DrawsOne, Frees, Empties, BoxOnly
  <2>5. QED
    BY <2>1, <2>2, <2>3, <2>4
<1>3. ASSUME NEW i \in DOMAIN Rows', Rows'[i][1] = r
      PROVE  Wanted(r) \/ Got
  <2>1. CASE UNCHANGED Rows
    BY <1>3, <2>1 DEF Wanted
  <2>2. CASE Allocates(t, "rooms")
    <3>1. Rows' = Malloc(Len(th[t].got)).items
      BY <2>2 DEF Allocates, Rows
    <3>2. Rows'[i] = Junk
      BY <1>0, <1>3, <3>1, MallocFacts
    <3>3. QED
      BY <1>0, <1>3, <3>2
  <2>3. CASE Copies(t, "rooms")
    <3>1. t = "gtk" /\ th[t].kind = "rooms" /\ Rows' = Copied(t)
      BY <1>0, <2>3 DEF Copies, In, Shape, Asks, Rows
    <3>2. \/ i \in DOMAIN th[t].got /\ Rows'[i] = th[t].got[i]
          \/ i \in DOMAIN Rows /\ Rows'[i] = Rows[i]
      BY <1>3, <3>1, CopiedFacts DEF Rows
    <3>3. \A j \in DOMAIN th[t].got : \E q \in Rooms : th[t].got[j] = RoomItem(q)
      BY <1>0, <2>3 DEF Copies, Shape, In
    <3>4. QED
      BY <1>0, <1>3, <2>3, <3>1, <3>2, <3>3 DEF Wanted
  <2>4. CASE Frees(t, "rooms")
    BY <1>3, <2>4, PointerFacts DEF Frees, Rows
  <2>5. QED
    BY <2>1, <2>2, <2>3, <2>4, RowsForms
<1>4. ASSUME NEW u \in Threads, In(u, "chats", Asks)', th'[u].room = r
      PROVE  Wanted(r) \/ Got
  <2>1. CASE u # t
    <3>1. th'[u] = th[u]
      BY <2>1 DEF ThreadStep, ListStep, Turns, Looks, Answered, GivesUp, NoRooms, RoomsSize,
         NoChats, ChatsSize, SkipsOne, Allocates, Copies, Starts, DrawsOne, Frees, Empties,
         Goes, Alone, NextItem
    <3>2. QED
      BY <1>4, <3>1 DEF Wanted, In
  <2>2. CASE u = t
    <3>1. CASE Turns(t)
      BY <1>4, <2>2, <3>1 DEF Turns, In, Asks
    <3>2. CASE Answered(t) \/ ChatsSize(t) \/ Allocates(t, "chats")
      BY <1>4, <2>2, <3>2 DEF Answered, ChatsSize, Allocates, Goes, Wanted, In, At, Asks
    <3>3. CASE Copies(t, "rooms")
      <4>1. CASE th'[t] = Idle
        BY <1>4, <2>2, <4>1, IdleFields DEF In, Asks
      <4>2. CASE th'[t] # Idle
        <5>1. PICK q \in Rooms : /\ 1 \in DOMAIN th[t].got /\ th[t].got[1] = RoomItem(q)
                                 /\ th'[t] = Asking("chats", q)
          BY <3>3, <4>2 DEF Copies
        <5>2. q = r
          BY <1>0, <1>4, <2>2, <5>1, AskingFields
        <5>3. t = "gtk"
          BY <3>3, <4>2 DEF Copies
        <5>4. QED
          BY <3>3, <5>1, <5>2, <5>3
      <4>3. QED
        BY <4>1, <4>2
    <3>4. th'[t].pc \in Asks /\ th'[t].kind = "chats"
      BY <1>4, <2>2 DEF In
    <3>5. ~GivesUp(t) /\ ~NoRooms(t) /\ ~RoomsSize(t) /\ ~NoChats(t) /\ ~SkipsOne(t)
      BY <3>4, IdleFields, AfterDrawFields
         DEF GivesUp, NoRooms, RoomsSize, NoChats, SkipsOne, Goes, NextItem, In, Asks
    <3>6. ASSUME NEW k \in Lists, Starts(t, k) \/ DrawsOne(t, k) \/ Frees(t, k) \/ Empties(t, k)
          PROVE  FALSE
      BY <3>4, <3>6, AfterDrawFields
         DEF Starts, DrawsOne, Frees, Empties, Goes, NextItem, In, Asks
    <3>7. ASSUME NEW k \in Lists, Allocates(t, k) PROVE k = "chats"
      BY <3>4, <3>7 DEF Allocates, Goes, In
    <3>8. ASSUME NEW k \in Lists, Copies(t, k) PROVE k = "rooms"
      BY <1>0, <3>4, <3>8, IdleFields DEF Copies, Asks
    <3>9. QED
      BY <3>1, <3>2, <3>3, <3>5, <3>6, <3>7, <3>8 DEF ThreadStep, ListStep
  <2>3. QED
    BY <2>1, <2>2
<1>5. QED
  BY <1>1, <1>2, <1>3, <1>4 DEF Wanted

(* A room that was shown stays listed: nobody leaves a room. *)
LEMMA RoomsKeptKept ==
  ASSUME Typed, Shape, Unopened, RoomsMemory, RoomsKept, Next
  PROVE  RoomsKept'
<1>0. /\ "gtk" \in Threads /\ "sse" \in Threads /\ "gtk" # "sse" /\ "rooms" \in Lists
      /\ \A u \in Threads : u = "gtk" \/ u = "sse"
      /\ \A k \in Lists : k = "rooms" \/ k = "chats"
      /\ \A u \in Threads : th[u].got \in Seq(Items)
      /\ th["gtk"].room \in Rooms \cup {None}
      /\ DOMAIN joined = 1 .. Len(joined)
      /\ \A i \in DOMAIN joined : i \in DOMAIN joined' /\ joined'[i] = joined[i]
  <2>1. \A i \in DOMAIN joined : i \in DOMAIN joined' /\ joined'[i] = joined[i]
    BY ServerForms
  <2>2. DOMAIN joined = 1 .. Len(joined)
    BY DEF Typed
  <2>3. "gtk" \in Threads /\ \A u \in Threads : th[u] \in Thread
    BY DEF Typed, Threads
  <2>4. QED
    BY <2>1, <2>2, <2>3 DEF Threads, Lists, Thread
<1> DEFINE Loading == In("gtk", "rooms", {"answer", "alloc", "copy"})
           FromJoined == \A i \in DOMAIN th["gtk"].got :
                            \E j \in DOMAIN joined : th["gtk"].got[i] = RoomItem(joined[j])
<1>1. CASE Stays
  <2>1. \A r \in Rooms : Wanted(r)' => Wanted(r)
    BY <1>1 DEF Stays, Wanted, Rows, In
  <2>2. UNCHANGED <<th, list, Rows>> /\ (Settled' <=> Settled)
    BY <1>1 DEF Stays, Rows, Settled, Fills, In
  <2>3. ASSUME NEW r \in Rooms, RoomKept(r) PROVE RoomKept(r)'
    BY <1>0, <2>2, <2>3 DEF RoomKept, In
  <2>4. Loading' => FromJoined'
    <3>1. Loading => FromJoined
      BY DEF RoomsKept
    <3>2. QED
      BY <1>0, <2>2, <3>1 DEF In
  <2>5. QED
    BY <2>1, <2>3, <2>4 DEF RoomsKept
<1>2. ASSUME NEW t \in Threads, ThreadStep(t)
      PROVE  RoomsKept'
  <2>1. Loading' =>
           \/ Loading /\ th'["gtk"].got = th["gtk"].got
           \/ /\ t = "gtk" /\ Answered("gtk") /\ th["gtk"].kind = "rooms"
              /\ th'["gtk"].got = <<>> \/ th'["gtk"].got = Snapshot("rooms", th["gtk"].room)
    <3>1. CASE t # "gtk"
      <4>1. th'["gtk"] = th["gtk"]
        BY <1>0, <1>2, <3>1 DEF ThreadStep, ListStep, Turns, Looks, Answered, GivesUp, NoRooms,
           RoomsSize, NoChats, ChatsSize, SkipsOne, Allocates, Copies, Starts, DrawsOne, Frees,
           Empties, Goes, Alone, NextItem
      <4>2. QED
        BY <4>1 DEF In
    <3>2. CASE t = "gtk"
      <4>1. CASE Answered(t)
        BY <3>2, <4>1 DEF Answered, In
      <4>2. CASE RoomsSize(t) \/ Allocates(t, "rooms")
        BY <3>2, <4>2 DEF RoomsSize, Allocates, Goes, In
      <4>3. CASE ~Answered(t) /\ ~RoomsSize(t) /\ ~Allocates(t, "rooms")
        <5>1. ~(th'[t].kind = "rooms" /\ th'[t].pc \in {"answer", "alloc", "copy"})
          <6>1. Turns(t) \/ NoRooms(t) \/ ChatsSize(t) =>
                  ~(th'[t].kind = "rooms" /\ th'[t].pc \in {"answer", "alloc", "copy"})
            BY DEF Turns, NoRooms, ChatsSize, Goes, In
          <6>2. GivesUp(t) \/ NoChats(t) =>
                  ~(th'[t].kind = "rooms" /\ th'[t].pc \in {"answer", "alloc", "copy"})
            BY IdleFields DEF GivesUp, NoChats
          <6>3. SkipsOne(t) \/ (\E k \in Lists : DrawsOne(t, k) \/ Empties(t, k)) =>
                  ~(th'[t].kind = "rooms" /\ th'[t].pc \in {"answer", "alloc", "copy"})
            BY AfterDrawFields DEF SkipsOne, DrawsOne, Empties, NextItem
          <6>4. (\E k \in Lists : Starts(t, k) \/ Frees(t, k)) =>
                  ~(th'[t].kind = "rooms" /\ th'[t].pc \in {"answer", "alloc", "copy"})
            BY DEF Starts, Frees, Goes
          <6>5. (\E k \in Lists : Copies(t, k)) =>
                  ~(th'[t].kind = "rooms" /\ th'[t].pc \in {"answer", "alloc", "copy"})
            <7>1. "chats" \in Lists
              BY DEF Lists
            <7>2. QED
              BY <7>1, IdleFields, AskingFields DEF Copies
          <6>6. Allocates(t, "chats") =>
                  ~(th'[t].kind = "rooms" /\ th'[t].pc \in {"answer", "alloc", "copy"})
            BY DEF Allocates, Goes, In
          <6>7. QED
            BY <1>0, <1>2, <4>3, <6>1, <6>2, <6>3, <6>4, <6>5, <6>6 DEF ThreadStep, ListStep
        <5>2. QED
          BY <3>2, <5>1 DEF In
      <4>4. QED
        BY <4>1, <4>2, <4>3
    <3>3. QED
      BY <3>1, <3>2
  <2>2. \A i \in DOMAIN Snapshot("rooms", th["gtk"].room) :
           i \in DOMAIN joined /\ Snapshot("rooms", th["gtk"].room)[i] = RoomItem(joined[i])
    BY <1>0, SnapshotFacts
  <2>3. Loading' => FromJoined'
    <3>1. Loading => FromJoined
      BY DEF RoomsKept
    <3>2. CASE Loading /\ th'["gtk"].got = th["gtk"].got
      BY <1>0, <3>1, <3>2
    <3>3. CASE th'["gtk"].got = <<>>
      BY <3>3
    <3>4. CASE th'["gtk"].got = Snapshot("rooms", th["gtk"].room)
      BY <1>0, <2>2, <3>4
    <3>5. QED
      BY <2>1, <3>2, <3>3, <3>4
  <2>4. list["rooms"].data.ptr # "wild" => list'["rooms"].data.ptr # "wild"
    <3>1. \/ list'["rooms"] = list["rooms"]
          \/ list'["rooms"].data = list["rooms"].data
          \/ list'["rooms"].data.ptr = list["rooms"].data.ptr
          \/ list'["rooms"].data.ptr \in {"heap", "null"}
      BY <1>0, <1>2, MallocFacts, PointerFacts DEF ThreadStep, ListStep, Turns, Looks, Answered,
         GivesUp, NoRooms, RoomsSize, NoChats, ChatsSize, SkipsOne, Allocates, Copies, Starts,
         DrawsOne, Frees, Empties, ListOnly
    <3>2. QED
      BY <3>1
  <2>5. ASSUME NEW r \in Rooms, Wanted(r)'
        PROVE  RoomKept(r)'
    <3> DEFINE Brought == /\ t = "gtk" /\ Copies(t, "rooms")
                          /\ \E i \in DOMAIN th["gtk"].got : th["gtk"].got[i] = RoomItem(r)
    <3>1. Wanted(r) \/ Brought
      BY <1>2, <2>5, WantedForms
    <3>2. Brought => Loading /\ th["gtk"].got # <<>> /\ list["rooms"].data.ptr = "heap"
      BY <1>0 DEF Copies, In
    <3>3. Wanted(r) => RoomKept(r)
      BY DEF RoomsKept
    <3>4. \E i \in DOMAIN joined : joined[i] = r
      <4>1. CASE Wanted(r)
        BY <3>3, <4>1 DEF RoomKept
      <4>2. CASE Brought
        <5>1. FromJoined
          BY <3>2, <4>2 DEF RoomsKept
        <5>2. PICK i \in DOMAIN th["gtk"].got : th["gtk"].got[i] = RoomItem(r)
          BY <4>2
        <5>3. PICK j \in DOMAIN joined : th["gtk"].got[i] = RoomItem(joined[j])
          BY <5>1
        <5>4. r = joined[j]
          BY <5>2, <5>3 DEF RoomItem
        <5>5. QED
          BY <5>4
      <4>3. QED
        BY <3>1, <4>1, <4>2
    <3>5. list'["rooms"].data.ptr # "wild"
      BY <2>4, <3>1, <3>2, <3>3 DEF RoomKept
    <3>6. ASSUME Loading', th'["gtk"].got # <<>>
          PROVE  \E i \in DOMAIN th'["gtk"].got : th'["gtk"].got[i] = RoomItem(r)
      <4>1. CASE Loading /\ th'["gtk"].got = th["gtk"].got
        <5>1. ~Brought \/ \E i \in DOMAIN th["gtk"].got : th["gtk"].got[i] = RoomItem(r)
          OBVIOUS
        <5>2. QED
          BY <3>1, <3>3, <3>6, <4>1, <5>1 DEF RoomKept
      <4>2. CASE th'["gtk"].got = Snapshot("rooms", th["gtk"].room)
        <5>1. PICK j \in DOMAIN joined : joined[j] = r
          BY <3>4
        <5>2. /\ j \in DOMAIN Snapshot("rooms", th["gtk"].room)
              /\ Snapshot("rooms", th["gtk"].room)[j] = RoomItem(r)
          <6>1. Snapshot("rooms", th["gtk"].room) \in Seq(Items)
                /\ Len(Snapshot("rooms", th["gtk"].room)) = Len(joined)
            BY <1>0, SnapshotFacts
          <6>2. QED
            BY <1>0, <2>2, <5>1, <6>1
        <5>3. QED
          BY <4>2, <5>2
      <4>3. QED
        BY <2>1, <3>6, <4>1, <4>2
    <3>7. ASSUME Settled', list'["rooms"].size > 0
          PROVE  \E i \in DOMAIN Rows' : Rows'[i] = RoomItem(r)
      <4>1. CASE RoomsFar(t) /\ ~Copies(t, "rooms")
        <5>1. Settled /\ list'["rooms"] = list["rooms"]
          BY <3>7, <4>1 DEF RoomsFar, Settled, Fills, In, Alone, Threads, Drops
        <5>2. Wanted(r)
          BY <3>1, <4>1
        <5>3. QED
          BY <3>3, <3>7, <5>1, <5>2 DEF RoomKept, Rows
      <4>2. CASE RoomsSize(t) \/ Allocates(t, "rooms")
        <5>1. t = "gtk" /\ th'[t].kind = "rooms" /\ th'[t].pc \in {"alloc", "copy"}
          BY <1>0, <4>2 DEF RoomsSize, Allocates, Goes, In, Shape, Asks
        <5>2. QED
          BY <3>7, <5>1 DEF Settled, Fills, In
      <4>3. CASE Frees(t, "rooms")
        <5>1. th'[t].kind = "rooms" /\ th'[t].pc = "zero"
          BY <4>3 DEF Frees, Goes, In
        <5>2. QED
          BY <1>0, <3>7, <5>1 DEF Settled, In, Drops
      <4>4. CASE Empties(t, "rooms")
        BY <3>7, <4>4 DEF Empties
      <4>5. CASE Copies(t, "rooms")
        <5>1. t = "gtk" /\ Loading /\ th["gtk"].got # <<>>
          BY <1>0, <4>5 DEF Copies, In, Shape, Asks, Fills
        <5>2. \E i \in DOMAIN th["gtk"].got : th["gtk"].got[i] = RoomItem(r)
          BY <3>1, <3>3, <5>1 DEF RoomKept
        <5>3. Rows' = Copied("gtk")
          BY <4>5, <5>1 DEF Copies, Rows
        <5>4. QED
          BY <1>0, <5>2, <5>3, CopiedFacts
      <4>6. QED
        BY <1>0, <1>2, <4>1, <4>2, <4>3, <4>4, <4>5, FarForms DEF ThreadStep, ListStep
    <3>8. QED
      BY <1>0, <3>4, <3>5, <3>6, <3>7 DEF RoomKept
  <2>6. QED
    BY <2>3, <2>5 DEF RoomsKept
<1>3. QED
  BY <1>1, <1>2, StepForms

-----------------------------------------------------------------------------
(* The list of rooms, as long as the threads did not meet there.           *)

(* Without a meeting one thread at most is at the list of rooms. *)
LEMMA NotBothAtRooms ==
  /\ ~Tangle => \A t, u \in Threads : u # t /\ AtRooms(t) => ~AtRooms(u)
  /\ ~Tangle' => \A t, u \in Threads : u # t /\ AtRooms(t)' => ~AtRooms(u)'
BY DEF Tangle, AtRooms, In, Threads

(* What the history says of a calm state. *)
LEMMA CalmHistory ==
  ASSUME Remember, ~tangled'
  PROVE  ~Tangle' /\ ~Failed /\ (~tangled \/ DrawBegins)
BY Zenon DEF Remember

(* Thread t is at the list of rooms neither before nor after its step, and *)
(* leaves it and its widgets.                                              *)
RoomsAway(t) ==
    /\ Alone(t) /\ list'["rooms"] = list["rooms"] /\ box'["rooms"] = box["rooms"]
    /\ "rooms" \in queued => "rooms" \in queued'
    /\ ~AtRooms(t) /\ ~AtRooms(t)'

(* Which forms of a step are away from the list of rooms. *)
LEMMA AwayForms ==
  ASSUME Typed, Shape, NEW t \in Threads,
         \/ Turns(t) \/ Answered(t) \/ NoChats(t) \/ ChatsSize(t) \/ SkipsOne(t)
         \/ ListStep(t, "chats")
  PROVE  RoomsAway(t)
<1>0. "rooms" \in Lists
  BY DEF Lists
<1>1. CASE Turns(t)
  BY <1>1 DEF Turns, Looks, RoomsAway, AtRooms, In
<1>2. CASE Answered(t)
  BY <1>2 DEF Answered, Looks, RoomsAway, AtRooms, In, At
<1>5. CASE NoChats(t)
  BY <1>0, <1>5, IdleFields DEF NoChats, BoxOnly, RoomsAway, AtRooms, In
<1>6. CASE ChatsSize(t)
  BY <1>0, <1>6 DEF ChatsSize, Goes, ListOnly, RoomsAway, AtRooms, In
<1>7. CASE SkipsOne(t)
  BY <1>7, AfterDrawFields DEF SkipsOne, NextItem, Looks, RoomsAway, AtRooms, In
<1>8. CASE Allocates(t, "chats")
  BY <1>0, <1>8 DEF Allocates, Goes, ListOnly, RoomsAway, AtRooms, In
<1>9. CASE Copies(t, "chats")
  BY <1>0, <1>9, IdleFields DEF Copies, ListOnly, RoomsAway, AtRooms, In
<1>10. CASE Starts(t, "chats")
  <2>1. queued' = queued \/ queued' = queued \ {"chats"}
    BY <1>10 DEF Starts, Threads
  <2>2. QED
    BY <1>0, <1>10, <2>1 DEF Starts, BoxOnly, RoomsAway, AtRooms, In, At
<1>11. CASE DrawsOne(t, "chats")
  BY <1>0, <1>11, AfterDrawFields DEF DrawsOne, BoxOnly, NextItem, RoomsAway, AtRooms, In
<1>12. CASE Frees(t, "chats")
  BY <1>0, <1>12 DEF Frees, Goes, ListOnly, RoomsAway, AtRooms, In
<1>13. CASE Empties(t, "chats")
  BY <1>0, <1>13, AfterDrawFields DEF Empties, ListOnly, RoomsAway, AtRooms, In
<1>14. QED
  BY <1>1, <1>2, <1>5, <1>6, <1>7, <1>8, <1>9, <1>10, <1>11, <1>12, <1>13 DEF ListStep

(* Those keep it calm. *)
LEMMA AwayCalm ==
  ASSUME CalmRooms, NEW t \in Threads, RoomsAway(t)
  PROVE  CalmRooms'
<1>1. \A u \in Threads : AtRooms(u)' => th'[u] = th[u]
  BY DEF RoomsAway, Alone
<1>2. \A u \in Threads : AtRooms(u) <=> AtRooms(u)'
  BY DEF RoomsAway, Alone, AtRooms, In
<1>3. \A u \in Threads : \/ AtRooms(u)' /\ th'[u] = th[u]
                         \/ /\ ~Fills(u, "rooms")' /\ ~In(u, "rooms", Drops)'
                            /\ ~In(u, "rooms", {"item"})' /\ ~In(u, "rooms", {"zero"})'
                            /\ ~In(u, "rooms", {"copy"})'
  BY <1>1 DEF AtRooms, Fills, In, Drops
<1>4. Fills("gtk", "rooms") => Fills("gtk", "rooms")'
  BY <1>1, <1>2 DEF AtRooms, Fills, In, Threads
<1>5. /\ "gtk" \in Threads /\ "sse" \in Threads
      /\ list'["rooms"] = list["rooms"] /\ box'["rooms"] = box["rooms"] /\ Rows' = Rows
      /\ "rooms" \in queued => "rooms" \in queued'
  BY DEF RoomsAway, Threads, Rows
<1>6. QED
  BY <1>2, <1>3, <1>4, <1>5 DEF CalmRooms, Fills, In, Shows

(* A draw of the rooms begins. *)
LEMMA StartCalm ==
  ASSUME Typed, RoomsCalm, NEW t \in Threads, Starts(t, "rooms"), ~Tangle',
         ~tangled \/ list["rooms"].size # 0
  PROVE  CalmRooms'
<1>0. /\ "gtk" \in Threads /\ "sse" \in Threads /\ list["rooms"].size \in Nat
      /\ Alone(t) /\ At(t, "idle") /\ UNCHANGED list
      /\ th'[t].pc = IF list["rooms"].size = 0 THEN "null" ELSE "item"
      /\ th'[t].kind = "rooms" /\ th'[t].i = 1 /\ th'[t].len = list["rooms"].size
      /\ box'["rooms"] = <<>>
  BY DEF Starts, Typed, Threads, Lists
<1>1. \A u \in Threads : u # t => ~AtRooms(u)'
  BY <1>0, NotBothAtRooms DEF AtRooms, In
<1>2. \A u \in Threads : u # t =>
         /\ ~Fills(u, "rooms")' /\ ~In(u, "rooms", Drops)'
         /\ ~In(u, "rooms", {"item"})' /\ ~In(u, "rooms", {"zero"})'
         /\ ~In(u, "rooms", {"copy"})'
         /\ ~Fills(u, "rooms")
  BY <1>0, <1>1 DEF AtRooms, Fills, In, Alone, Drops
<1>3. /\ ~Fills(t, "rooms")' /\ ~In(t, "rooms", {"zero"})' /\ ~In(t, "rooms", {"copy"})'
      /\ ~Fills(t, "rooms") /\ AtRooms(t)'
      /\ In(t, "rooms", {"item"})' => list["rooms"].size # 0
      /\ In(t, "rooms", Drops)' => list["rooms"].size = 0
  BY <1>0 DEF AtRooms, Fills, In, At, Drops
<1>4. list["rooms"].size = 0 => list["rooms"].data.ptr # "heap" /\ Rows = <<>>
  <2>1. ~Fills("gtk", "rooms")
    BY <1>0, <1>2, <1>3
  <2>2. QED
    BY <2>1 DEF RoomsCalm, CalmRooms
<1>5. Shows(<<>>, Rows', 0)
  BY DEF Shows
<1>6. Rows' = Rows
  BY <1>0 DEF Rows
<1>7. \A u \in Threads : In(u, "rooms", {"item"})' =>
         th'[u].len = list'["rooms"].size /\ Shows(box'["rooms"], Rows', th'[u].i - 1)
  BY <1>0, <1>2, <1>5
<1>8. QED
  BY <1>0, <1>2, <1>3, <1>4, <1>6, <1>7 DEF CalmRooms

(* One more widget keeps it calm: it is the next item of the list. *)
LEMMA DrawCalm ==
  ASSUME Typed, Shape, RoomsMemory, CalmRooms, ~Tangle, NEW t \in Threads, DrawsOne(t, "rooms")
  PROVE  CalmRooms'
<1>0. /\ "gtk" \in Threads /\ "sse" \in Threads /\ list["rooms"].size \in Nat
      /\ Alone(t) /\ In(t, "rooms", {"item"}) /\ UNCHANGED <<list, queued>> /\ NextItem(t)
      /\ box'["rooms"] = Append(box["rooms"], Element("rooms", th[t].i))
      /\ Rows' = Rows /\ Rows \in Seq(Items) /\ box["rooms"] \in Seq(Items)
      /\ th[t].i \in 1 .. th[t].len /\ th[t].len \in Nat
  BY DEF DrawsOne, Typed, Threads, Lists, NextItem, Rows, Data, Shape, In, Thread
<1>1. \A u \in Threads : u # t => ~AtRooms(u) /\ ~AtRooms(u)'
  BY <1>0, NotBothAtRooms DEF AtRooms, In, Alone
<1>2. th[t].len = list["rooms"].size /\ Shows(box["rooms"], Rows, th[t].i - 1)
  BY <1>0 DEF CalmRooms
<1>3. Settled
  BY <1>0, <1>1 DEF Settled, Fills, AtRooms, In, Drops
<1>4. Len(Rows) = list["rooms"].size /\ list["rooms"].size > 0
  BY <1>0, <1>2, <1>3 DEF RoomsMemory
<1>5. Element("rooms", th[t].i) = Rows[th[t].i] /\ Rows[th[t].i] \in Items
  BY <1>0, <1>2, <1>4 DEF Element, Rows
<1>6. Shows(box'["rooms"], Rows, th[t].i)
  <2>1. Len(box["rooms"]) = th[t].i - 1 /\ \A i \in 1 .. th[t].i - 1 : box["rooms"][i] = Rows[i]
    BY <1>2 DEF Shows
  <2>2. /\ Len(box'["rooms"]) = Len(box["rooms"]) + 1
        /\ box'["rooms"][Len(box["rooms"]) + 1] = Rows[th[t].i]
        /\ \A i \in 1 .. Len(box["rooms"]) : box'["rooms"][i] = box["rooms"][i]
    BY <1>0, <1>5, AppendItems
  <2>3. th[t].i - 1 + 1 = th[t].i /\ th[t].i \in Nat
    BY <1>0
  <2>4. Len(box'["rooms"]) = th[t].i /\ box'["rooms"][th[t].i] = Rows[th[t].i]
    BY <2>1, <2>2, <2>3
  <2>5. \A i \in 1 .. th[t].i : i = th[t].i \/ i \in 1 .. th[t].i - 1
    BY <2>3
  <2>6. QED
    BY <2>1, <2>2, <2>4, <2>5 DEF Shows
<1>7. \A u \in Threads : u # t =>
         /\ ~Fills(u, "rooms")' /\ ~In(u, "rooms", Drops)'
         /\ ~In(u, "rooms", {"item"})' /\ ~In(u, "rooms", {"zero"})'
         /\ ~In(u, "rooms", {"copy"})'
  BY <1>1 DEF AtRooms, Fills, In, Drops
<1>8. CASE th[t].i = th[t].len /\ th'[t] = AfterDraw(t)
  <2>1. ~(th'[t].kind = "rooms")
    BY <1>8, AfterDrawFields
  <2>2. /\ ~Fills(t, "rooms")' /\ ~In(t, "rooms", Drops)' /\ ~In(t, "rooms", {"item"})'
        /\ ~In(t, "rooms", {"zero"})' /\ ~In(t, "rooms", {"copy"})'
    BY <2>1 DEF Fills, In
  <2>3. Shows(box'["rooms"], Rows', list'["rooms"].size)
    BY <1>0, <1>2, <1>6, <1>8
  <2>4. QED
    BY <1>0, <1>4, <1>7, <2>2, <2>3 DEF CalmRooms
<1>9. CASE /\ th'[t].pc = "item" /\ th'[t].i = th[t].i + 1 /\ th'[t].kind = "rooms"
           /\ th'[t].len = th[t].len
  <2>1. /\ ~Fills(t, "rooms")' /\ ~In(t, "rooms", Drops)'
        /\ ~In(t, "rooms", {"zero"})' /\ ~In(t, "rooms", {"copy"})' /\ AtRooms(t)'
    BY <1>9 DEF Fills, In, AtRooms, Drops
  <2>2. th'[t].i - 1 = th[t].i
    BY <1>0, <1>9
  <2>3. \A u \in Threads : In(u, "rooms", {"item"})' =>
           th'[u].len = list'["rooms"].size /\ Shows(box'["rooms"], Rows', th'[u].i - 1)
    BY <1>0, <1>2, <1>6, <1>7, <1>9, <2>2
  <2>4. QED
    BY <1>0, <1>4, <1>7, <2>1, <2>3 DEF CalmRooms
<1>10. QED
  BY <1>0, <1>8, <1>9 DEF NextItem, In

(* The GTK thread takes a new list of rooms. *)
LEMMA LoadCalm ==
  ASSUME Typed, Shape, CalmRooms, NEW t \in Threads, ~Tangle, ~Tangle',
         NoRooms(t) \/ RoomsSize(t) \/ Allocates(t, "rooms") \/ Copies(t, "rooms")
  PROVE  CalmRooms'
<1>0. /\ "gtk" \in Threads /\ "sse" \in Threads /\ list["rooms"].size \in Nat
      /\ \A u \in Threads : u = "gtk" \/ u = "sse"
      /\ th["gtk"].got \in Seq(Items)
  BY DEF Typed, Threads, Lists, Thread
<1>1. t = "gtk" /\ Alone("gtk") /\ th["gtk"].kind = "rooms"
  BY <1>0 DEF NoRooms, RoomsSize, Allocates, Copies, Goes, In, Shape, Asks
<1>2. th'["sse"] = th["sse"]
  BY <1>0, <1>1 DEF Alone
<1>3. ~AtRooms("sse") /\ ~AtRooms("sse")'
  <2>1. CASE Copies(t, "rooms")
    <3>1. AtRooms("gtk")
      BY <1>1, <2>1 DEF Copies, AtRooms, In
    <3>2. ~AtRooms("sse")
      BY <1>0, <3>1, NotBothAtRooms
    <3>3. QED
      BY <1>2, <3>2 DEF AtRooms, In
  <2>2. CASE NoRooms(t) \/ RoomsSize(t) \/ Allocates(t, "rooms")
    <3>1. AtRooms("gtk")'
      BY <1>1, <2>2 DEF NoRooms, RoomsSize, Allocates, Goes, AtRooms, In
    <3>2. ~AtRooms("sse")'
      BY <1>0, <3>1, NotBothAtRooms
    <3>3. QED
      BY <1>2, <3>2 DEF AtRooms, In
  <2>3. QED
    BY <2>1, <2>2
<1>4. /\ ~Fills("sse", "rooms")' /\ ~In("sse", "rooms", Drops)'
      /\ ~In("sse", "rooms", {"item"})' /\ ~In("sse", "rooms", {"zero"})'
      /\ ~In("sse", "rooms", {"copy"})'
  BY <1>3 DEF AtRooms, Fills, In, Drops
<1>5. CASE NoRooms(t)
  <2>1. /\ th'["gtk"].kind = "rooms" /\ th'["gtk"].pc = "null"
        /\ list' = list /\ box'["rooms"] = <<>> /\ th["gtk"].pc = "answer" /\ Rows' = Rows
    BY <1>1, <1>5 DEF NoRooms, Goes, In, Rows
  <2>2. /\ ~Fills("gtk", "rooms")' /\ ~Fills("gtk", "rooms") /\ ~In("gtk", "rooms", {"zero"})'
        /\ ~In("gtk", "rooms", {"item"})' /\ ~In("gtk", "rooms", {"copy"})' /\ AtRooms("gtk")'
    BY <2>1 DEF Fills, In, AtRooms
  <2>3. QED
    BY <1>0, <1>4, <2>1, <2>2 DEF CalmRooms
<1>6. CASE RoomsSize(t)
  <2>1. /\ th'["gtk"].kind = "rooms" /\ th'["gtk"].pc = "alloc"
        /\ th'["gtk"].got = th["gtk"].got
        /\ list'["rooms"].size = Len(th["gtk"].got)
    BY <1>1, <1>6 DEF RoomsSize, Goes
  <2>2. /\ Fills("gtk", "rooms")' /\ ~In("gtk", "rooms", {"zero"})' /\ ~In("gtk", "rooms", Drops)'
        /\ ~In("gtk", "rooms", {"item"})' /\ ~In("gtk", "rooms", {"copy"})' /\ AtRooms("gtk")'
    BY <2>1 DEF Fills, In, AtRooms, Drops
  <2>3. QED
    BY <1>0, <1>4, <2>1, <2>2 DEF CalmRooms
<1>7. CASE Allocates(t, "rooms")
  <2>1. /\ th'["gtk"].kind = "rooms" /\ th'["gtk"].pc = "copy"
        /\ th'["gtk"].got = th["gtk"].got
        /\ Fills("gtk", "rooms") /\ list'["rooms"].size = list["rooms"].size
        /\ list'["rooms"].data = Malloc(Len(th["gtk"].got))
    BY <1>1, <1>7 DEF Allocates, Goes, In, Fills
  <2>2. /\ Fills("gtk", "rooms")' /\ ~In("gtk", "rooms", {"zero"})' /\ ~In("gtk", "rooms", Drops)'
        /\ ~In("gtk", "rooms", {"item"})' /\ AtRooms("gtk")'
    BY <2>1 DEF Fills, In, AtRooms, Drops
  <2>3. list'["rooms"].size = Len(th'["gtk"].got)
    BY <2>1 DEF CalmRooms
  <2>4. QED
    BY <1>0, <1>4, <2>1, <2>2, <2>3 DEF CalmRooms
<1>8. CASE Copies(t, "rooms")
  <2>1. /\ Fills("gtk", "rooms") /\ th["gtk"].got # <<>>
        /\ list'["rooms"].size = list["rooms"].size /\ "rooms" \in queued'
    BY <1>0, <1>1, <1>8 DEF Copies, In, Fills, Shape
  <2>2. list'["rooms"].size # 0
    <3>1. list["rooms"].size = Len(th["gtk"].got)
      BY <2>1 DEF CalmRooms
    <3>2. QED
      BY <1>0, <2>1, <3>1
  <2>3. th'["gtk"].kind # "rooms" \/ th'["gtk"].pc = "idle"
    BY <1>0, <1>1, <1>8, IdleFields, AskingFields DEF Copies, Lists
  <2>4. /\ ~Fills("gtk", "rooms")' /\ ~In("gtk", "rooms", {"zero"})' /\ ~In("gtk", "rooms", Drops)'
        /\ ~In("gtk", "rooms", {"item"})' /\ ~In("gtk", "rooms", {"copy"})'
    BY <2>3 DEF Fills, In, Drops
  <2>5. QED
    BY <1>0, <1>4, <2>1, <2>2, <2>4 DEF CalmRooms
<1>9. QED
  BY <1>5, <1>6, <1>7, <1>8

(* An empty list is dropped. *)
LEMMA DropCalm ==
  ASSUME Typed, Shape, CalmRooms, NEW t \in Threads, ~Tangle,
         Frees(t, "rooms") \/ Empties(t, "rooms")
  PROVE  CalmRooms'
<1>0. /\ "gtk" \in Threads /\ "sse" \in Threads
      /\ \A u \in Threads : u = "gtk" \/ u = "sse"
      /\ th[t].kind = "rooms" /\ th[t].pc \in Drops /\ Alone(t)
      /\ UNCHANGED box
  BY DEF Frees, Empties, Goes, In, Drops, Threads
<1>1. AtRooms(t)
  BY <1>0 DEF AtRooms, In, Drops
<1>2. \A u \in Threads : u # t => ~AtRooms(u) /\ ~AtRooms(u)'
  BY <1>0, <1>1, NotBothAtRooms DEF AtRooms, In, Alone
<1>3. \A u \in Threads : u # t =>
         /\ ~Fills(u, "rooms")' /\ ~In(u, "rooms", Drops)'
         /\ ~In(u, "rooms", {"item"})' /\ ~In(u, "rooms", {"zero"})'
         /\ ~In(u, "rooms", {"copy"})'
  BY <1>2 DEF AtRooms, Fills, In, Drops
<1>4. box["rooms"] = <<>>
  BY <1>0 DEF CalmRooms, In
<1>5. CASE Frees(t, "rooms")
  <2>1. /\ th'[t].kind = "rooms" /\ th'[t].pc = "zero"
        /\ list'["rooms"].size = list["rooms"].size /\ list'["rooms"].data = Pointer("null")
        /\ Rows' = <<>> /\ list'["rooms"].data.ptr # "heap"
    BY <1>0, <1>5, PointerFacts DEF Frees, Goes, Rows
  <2>2. /\ ~Fills(t, "rooms")' /\ ~In(t, "rooms", {"item"})' /\ ~In(t, "rooms", {"copy"})'
        /\ AtRooms(t)'
    BY <2>1 DEF Fills, In, AtRooms
  <2>3. In("sse", "rooms", Drops)' => list'["rooms"].size = 0
    <3>1. CASE t = "sse"
      BY <1>0, <2>1, <3>1 DEF CalmRooms, In
    <3>2. QED
      BY <1>0, <1>3, <3>1
  <2>4. QED
    BY <1>0, <1>3, <1>4, <2>1, <2>2, <2>3 DEF CalmRooms
<1>6. CASE Empties(t, "rooms")
  <2>1. /\ th'[t].kind # "rooms" /\ list'["rooms"].size = 0
        /\ list'["rooms"].data = Pointer("null")
    <3>1. list["rooms"].data = Pointer("null")
      BY <1>6 DEF Empties, CalmRooms
    <3>2. QED
      BY <1>6, <3>1, AfterDrawFields DEF Empties
  <2>2. /\ ~Fills(t, "rooms")' /\ ~In(t, "rooms", {"item"})' /\ ~In(t, "rooms", {"copy"})'
        /\ ~In(t, "rooms", Drops)' /\ ~In(t, "rooms", {"zero"})'
    BY <2>1 DEF Fills, In
  <2>3. Rows' = <<>> /\ list'["rooms"].data.ptr # "heap" /\ Shows(box'["rooms"], Rows', 0)
    BY <1>0, <1>4, <2>1, PointerFacts DEF Rows, Shows
  <2>4. QED
    BY <1>0, <1>3, <1>4, <2>1, <2>2, <2>3 DEF CalmRooms
<1>7. QED
  BY <1>5, <1>6

(* Only the start of a draw begins one. *)
LEMMA BeginsDraw ==
  ASSUME Typed, Shape, NEW t \in Threads, ThreadStep(t), DrawBegins
  PROVE  Starts(t, "rooms") /\ list["rooms"].size # 0
<1>0. /\ \A k \in Lists : k = "rooms" \/ k = "chats"
      /\ "rooms" \in Lists /\ "chats" \in Lists /\ Alone(t)
  BY DEF Lists, ThreadStep, ListStep, Turns, Looks, Answered, GivesUp, NoRooms,
     RoomsSize, NoChats, ChatsSize, SkipsOne, Allocates, Copies, Starts, DrawsOne, Frees,
     Empties, Goes, NextItem
<1>1. PICK u \in Threads : ~At(u, "item") /\ th'[u].pc = "item" /\ th'[u].kind = "rooms"
  BY DEF DrawBegins
<1>2. u = t
  BY <1>0, <1>1 DEF Alone, At
<1>3. ~(Turns(t) \/ Answered(t) \/ NoRooms(t) \/ RoomsSize(t) \/ ChatsSize(t))
  BY <1>1, <1>2 DEF Turns, Answered, NoRooms, RoomsSize, ChatsSize, Goes
<1>4. ~(GivesUp(t) \/ NoChats(t))
  BY <1>1, <1>2, IdleFields DEF GivesUp, NoChats
<1>5. ~(SkipsOne(t) \/ \E k \in Lists : DrawsOne(t, k))
  BY <1>1, <1>2 DEF SkipsOne, DrawsOne, In, At
<1>6. ~ \E k \in Lists : Allocates(t, k) \/ Frees(t, k)
  BY <1>1, <1>2 DEF Allocates, Frees, Goes
<1>7. ~ \E k \in Lists : Empties(t, k)
  BY <1>1, <1>2, AfterDrawFields DEF Empties
<1>8. ~ \E k \in Lists : Copies(t, k)
  BY <1>0, <1>1, <1>2, IdleFields, AskingFields DEF Copies
<1>9. PICK k \in Lists : Starts(t, k)
  BY <1>3, <1>4, <1>5, <1>6, <1>7, <1>8 DEF ThreadStep, ListStep
<1>10. QED
  BY <1>1, <1>2, <1>9 DEF Starts

(* Every step keeps the list of rooms calm, or is a meeting. *)
LEMMA RoomsCalmKept ==
  ASSUME Typed, Shape, RoomsMemory, RoomsCalm, Next, Remember
  PROVE  RoomsCalm'
<1>1. SUFFICES ASSUME ~tangled' PROVE ~Tangle' /\ CalmRooms'
  BY DEF RoomsCalm
<1>2. ~Tangle' /\ ~Failed /\ (~tangled \/ DrawBegins)
  BY <1>1, CalmHistory
<1>3. ~tangled => ~Tangle /\ CalmRooms
  BY DEF RoomsCalm
<1>4. CASE Stays
  <2>1. ~DrawBegins
    BY <1>4 DEF Stays, DrawBegins, At
  <2>2. CalmRooms => CalmRooms'
    BY <1>4 DEF Stays, CalmRooms, Rows, Shows, AtRooms, Fills, In
  <2>3. QED
    BY <1>2, <1>3, <2>1, <2>2
<1>5. ASSUME NEW t \in Threads, ThreadStep(t)
      PROVE  CalmRooms'
  <2>1. CASE tangled
    <3>1. Starts(t, "rooms") /\ list["rooms"].size # 0
      BY <1>2, <1>5, <2>1, BeginsDraw
    <3>2. QED
      BY <1>2, <3>1, StartCalm
  <2>2. CASE ~tangled
    <3>1. ~GivesUp(t)
      BY <1>2, IdleFields DEF GivesUp, Failed, At
    <3>2. ~Tangle /\ CalmRooms
      BY <1>3, <2>2
    <3>3. CASE RoomsAway(t)
      BY <3>2, <3>3, AwayCalm
    <3>4. CASE Starts(t, "rooms")
      BY <1>2, <2>2, <3>4, StartCalm
    <3>5. CASE DrawsOne(t, "rooms")
      BY <3>2, <3>5, DrawCalm
    <3>6. CASE NoRooms(t) \/ RoomsSize(t) \/ Allocates(t, "rooms") \/ Copies(t, "rooms")
      BY <1>2, <3>2, <3>6, LoadCalm
    <3>7. CASE Frees(t, "rooms") \/ Empties(t, "rooms")
      BY <3>2, <3>7, DropCalm
    <3>8. \A k \in Lists : k = "rooms" \/ k = "chats"
      BY DEF Lists
    <3>9. QED
      BY <1>5, <3>1, <3>3, <3>4, <3>5, <3>6, <3>7, <3>8, AwayForms DEF ThreadStep, ListStep
  <2>3. QED
    BY <2>1, <2>2
<1>6. QED
  BY <1>2, <1>4, <1>5, StepForms



-----------------------------------------------------------------------------
(* The list of messages, as long as the threads did not meet there.        *)

(* What the history says of a step after which a load can be relied on. *)
LEMMA LoadHistory ==
  ASSUME Remember, spoiled' # "yes"
  PROVE  /\ ~Meet' /\ ~Failed
         /\ spoiled = "yes" => LoadBegins /\ AtEase /\ spoiled' = "reloading"
         /\ spoiled = "no" => spoiled' = "no"
         /\ spoiled # "yes" /\ spoiled # "no" =>
               IF spoiled = "reloading" /\ Loaded THEN spoiled' = "no" ELSE spoiled' = spoiled
BY Zenon DEF Remember

(* Thread t is not at the messages, neither before nor after its step, and *)
(* leaves them and their widgets.                                          *)
ChatsAway(t) ==
    /\ Alone(t) /\ list'["chats"] = list["chats"] /\ box'["chats"] = box["chats"]
    /\ curr' = curr
    /\ ("chats" \in queued') <=> ("chats" \in queued)
    /\ ~Fills(t, "chats") /\ ~Fills(t, "chats")'
    /\ ~In(t, "chats", Draws) /\ ~In(t, "chats", Draws)'
    /\ t = "sse" =>
          /\ th'[t].pc \in Asks =>
                th'[t].room = curr \/ (th[t].pc \in Asks /\ th'[t].room = th[t].room)
          /\ th'[t].pc = "answer" => Answered(t)
          /\ ~At(t, "idle") /\ th[t].room = curr => ~At(t, "idle")' /\ th'[t].room = curr

(* A step of a thread, as the list of messages sees it. *)
LEMMA ChatsForms ==
  ASSUME Typed, Shape, NEW t \in Threads, ThreadStep(t), ~Failed
  PROVE  \/ ChatsAway(t) \/ ChatsSize(t) \/ SkipsOne(t)
         \/ Allocates(t, "chats") \/ Copies(t, "chats") \/ Starts(t, "chats")
         \/ DrawsOne(t, "chats") \/ Frees(t, "chats") \/ Empties(t, "chats")
<1>0. /\ "rooms" \in Lists /\ "chats" \in Lists
      /\ \A k \in Lists : k = "rooms" \/ k = "chats"
      /\ th["sse"].pc \in Asks => th["sse"].kind = "chats"
      /\ t = "gtk" \/ t = "sse"
  BY DEF Lists, Shape, Threads
<1>1. CASE Turns(t)
  BY <1>1 DEF Turns, Looks, ChatsAway, Fills, In, At, Draws, Drops, Asks
<1>2. CASE Answered(t)
  BY <1>2 DEF Answered, Looks, ChatsAway, Fills, In, At, Draws, Drops, Asks
<1>3. ~GivesUp(t) /\ ~NoChats(t)
  BY IdleFields DEF GivesUp, NoChats, Failed, At, In
<1>4. CASE NoRooms(t)
  BY <1>0, <1>4 DEF NoRooms, Goes, BoxOnly, ChatsAway, Fills, In, Draws, Drops, Asks
<1>5. CASE RoomsSize(t)
  BY <1>0, <1>5 DEF RoomsSize, Goes, BoxOnly, ListOnly, ChatsAway, Fills, In, Draws, Drops, Asks
<1>6. CASE Allocates(t, "rooms")
  <2>1. t = "gtk"
    BY <1>0, <1>6 DEF Allocates, In, Asks
  <2>2. QED
    BY <1>0, <1>6, <2>1 DEF Allocates, Goes, ListOnly, ChatsAway, Fills, In, Draws, Drops
<1>7. CASE Copies(t, "rooms")
  <2>1. t = "gtk"
    BY <1>0, <1>7 DEF Copies, In, Asks
  <2>2. th'[t].pc \in {"idle", "asked"}
    BY <1>0, <1>7, IdleFields, AskingFields DEF Copies
  <2>3. ("chats" \in queued') <=> ("chats" \in queued)
    BY <1>7 DEF Copies
  <2>4. QED
    BY <1>0, <1>7, <2>1, <2>2, <2>3 DEF Copies, ListOnly, ChatsAway, Fills, In, Draws, Drops
<1>8. CASE Starts(t, "rooms")
  <2>1. ("chats" \in queued') <=> ("chats" \in queued)
    BY <1>0, <1>8 DEF Starts
  <2>2. QED
    BY <1>0, <1>8, <2>1 DEF Starts, BoxOnly, ChatsAway, Fills, In, At, Draws, Drops, Asks
<1>9. CASE DrawsOne(t, "rooms")
  BY <1>0, <1>9, AfterDrawFields
     DEF DrawsOne, NextItem, BoxOnly, ChatsAway, Fills, In, At, Draws, Drops, Asks
<1>10. CASE Frees(t, "rooms")
  BY <1>0, <1>10 DEF Frees, Goes, ListOnly, ChatsAway, Fills, In, At, Draws, Drops, Asks
<1>11. CASE Empties(t, "rooms")
  BY <1>0, <1>11, AfterDrawFields
     DEF Empties, ListOnly, ChatsAway, Fills, In, At, Draws, Drops, Asks
<1>12. QED
  BY <1>0, <1>1, <1>2, <1>3, <1>4, <1>5, <1>6, <1>7, <1>8, <1>9, <1>10, <1>11
     DEF ThreadStep, ListStep

(* A step is of one thread. *)
LEMMA ThreadAlone ==
  ASSUME NEW t \in Threads, ThreadStep(t)
  PROVE  Alone(t)
BY DEF ThreadStep, ListStep, Turns, Answered, GivesUp, NoRooms, RoomsSize, NoChats, ChatsSize,
   SkipsOne, Allocates, Copies, Starts, DrawsOne, Frees, Empties, Goes, NextItem

(* Answered(t) is a load that is new, ChatsSize(t) and Allocates(t, "chats") go on. *)
LEMMA LoadForms ==
  ASSUME Typed, Shape, NEW t \in Threads, ThreadStep(t),
         In(t, "chats", {"answer", "alloc", "copy"})'
  PROVE  Answered(t) \/ ChatsSize(t) \/ Allocates(t, "chats")
<1>0. /\ "rooms" \in Lists /\ "chats" \in Lists
      /\ \A k \in Lists : k = "rooms" \/ k = "chats"
      /\ th'[t].kind = "chats" /\ th'[t].pc \in {"answer", "alloc", "copy"}
  BY DEF Lists, In
<1>1. ~Turns(t) /\ ~NoRooms(t) /\ ~RoomsSize(t)
  BY <1>0 DEF Turns, NoRooms, RoomsSize, Goes, In
<1>2. ~GivesUp(t) /\ ~NoChats(t) /\ ~SkipsOne(t)
  BY <1>0, IdleFields, AfterDrawFields DEF GivesUp, NoChats, SkipsOne, NextItem
<1>3. \A k \in Lists : ~Copies(t, k)
  BY <1>0, IdleFields, AskingFields DEF Copies
<1>4. \A k \in Lists : ~Starts(t, k) /\ ~DrawsOne(t, k) /\ ~Frees(t, k) /\ ~Empties(t, k)
  BY <1>0, AfterDrawFields DEF Starts, DrawsOne, NextItem, Frees, Empties, Goes
<1>5. ~Allocates(t, "rooms")
  BY <1>0 DEF Allocates, Goes, In
<1>6. QED
  BY <1>0, <1>1, <1>2, <1>3, <1>4, <1>5 DEF ThreadStep, ListStep

(* What LoadAlone says of one thread. *)
Taken(t) ==
    /\ In(t, "chats", {"answer", "alloc", "copy"}) =>
          /\ Messages(th[t].got, th[t].room, Len(th[t].got))
          /\ Len(th[t].got) <= count[th[t].room]
          /\ Len(th[t].got) = count[th[t].room] \/ Pushed(th[t].room)
    /\ Fills(t, "chats") =>
          th[t].room = curr /\ list["chats"].size = Len(th[t].got)
    /\ In(t, "chats", {"copy"}) => list["chats"].data = Malloc(Len(th[t].got))

(* The other thread stays away from a load. *)
LEMMA LoadUndisturbed ==
  ASSUME Typed, Shape, NEW t \in Threads, ThreadStep(t), ~Meet, ~Failed,
         NEW u \in Threads, u # t, Fills(u, "chats")
  PROVE  list'["chats"] = list["chats"] /\ curr' = curr
<1>1. (u = "gtk" /\ t = "sse") \/ (u = "sse" /\ t = "gtk")
  BY DEF Threads
<1>2. CASE u = "gtk" /\ t = "sse"
  <2>1. At("sse", "idle")
    BY <1>2 DEF Meet, Reloading, Fills, In
  <2>2. QED
    BY <1>2, <2>1, ChatsForms DEF ChatsAway, ChatsSize, SkipsOne, Allocates, Copies, Starts,
       DrawsOne, Frees, Empties, In, At
<1>3. CASE u = "sse" /\ t = "gtk"
  <2>1. ~Reloading("gtk", "chats")
    BY <1>3 DEF Meet, Fills, In, At
  <2>2. QED
    BY <1>3, <2>1, ChatsForms DEF ChatsAway, ChatsSize, SkipsOne, Looks, Allocates, Copies,
       Starts, DrawsOne, Frees, Empties, In, At, Reloading
<1>4. QED
  BY <1>1, <1>2, <1>3

(* What was taken stays what the server has, or a push is on its way. *)
LEMMA TakenKept ==
  ASSUME Typed, Shape, Unopened, Next, ~Meet, ~Meet', ~Failed, \A u \in Threads : Taken(u),
         NEW u \in Threads
  PROVE  Taken(u)'
<1>0. /\ "gtk" \in Threads /\ "sse" \in Threads /\ "chats" \in Lists
      /\ th[u].got \in Seq(Items)
      /\ In(u, "chats", Asks) => th[u].room \in Rooms
      /\ \A q \in Rooms : count[q] \in Nat
  BY BoundsAssumption DEF Typed, Threads, Lists, Thread, Shape
<1>8. \A q \in Rooms : count'[q] \in Nat
  <2>1. Typed'
    BY TypedKept
  <2>2. QED
    BY <2>1, BoundsAssumption DEF Typed
<1>1. ASSUME NEW r \in Rooms, Len(th[u].got) <= count[r],
             Len(th[u].got) = count[r] \/ Pushed(r),
             In(u, "chats", Asks), In(u, "chats", Asks)'
      PROVE  Len(th[u].got) <= count'[r] /\ (Len(th[u].got) = count'[r] \/ Pushed(r)')
  <2>1. ~(At("sse", "idle") /\ ~At("sse", "idle")')
    <3>1. CASE u = "sse"
      BY <1>1, <3>1 DEF In, At, Asks
    <3>2. CASE u = "gtk"
      BY <1>1, <3>2 DEF In, At, Asks, Meet, Reloading
    <3>3. QED
      BY <3>1, <3>2 DEF Threads
  <2>2. /\ count[r] <= count'[r] /\ (count'[r] = count[r] \/ Pushed(r)')
        /\ Pushed(r) => Pushed(r)'
    BY <2>1, ServerForms
  <2>3. Len(th[u].got) \in Nat
    BY <1>0
  <2>4. QED
    BY <1>0, <1>1, <1>8, <2>2, <2>3
<1>2. CASE th'[u] = th[u] /\ (Fills(u, "chats") => list'["chats"] = list["chats"] /\ curr' = curr)
  <2>1. CASE In(u, "chats", {"answer", "alloc", "copy"})
    <3>1. In(u, "chats", Asks) /\ In(u, "chats", Asks)'
      BY <1>2, <2>1 DEF In, Asks
    <3>2. PICK r \in Rooms : th[u].room = r
      BY <1>0, <3>1
    <3>3. Len(th[u].got) <= count'[r] /\ (Len(th[u].got) = count'[r] \/ Pushed(r)')
      BY <1>1, <2>1, <3>1, <3>2 DEF Taken
    <3>4. QED
      BY <1>2, <2>1, <3>2, <3>3 DEF Taken, In, Fills
  <2>2. CASE ~In(u, "chats", {"answer", "alloc", "copy"})
    BY <1>2, <2>2 DEF Taken, In, Fills
  <2>3. QED
    BY <2>1, <2>2
<1>3. CASE ~In(u, "chats", {"answer", "alloc", "copy"})'
  BY <1>3 DEF Taken, In, Fills
<1>4. CASE ThreadStep(u) /\ In(u, "chats", {"answer", "alloc", "copy"})'
  <2>1. CASE Answered(u)
    <3>1. /\ In(u, "chats", {"asked"}) /\ th'[u].pc = "answer" /\ th'[u].room = th[u].room
          /\ th'[u].kind = "chats"
      BY <1>4, <2>1 DEF Answered, In, At
    <3>2. PICK r \in Rooms : th[u].room = r
      BY <1>0, <3>1 DEF In, Asks
    <3>3. th'[u].got = Snapshot("chats", r)
      BY <2>1, <3>1, <3>2 DEF Answered, In, At, Failed
    <3>4. Messages(th'[u].got, r, count[r])
      BY <3>2, <3>3, SnapshotFacts
    <3>5. Len(th'[u].got) = count[r]
      BY <3>4 DEF Messages
    <3>6. count[r] <= count'[r] /\ (count'[r] = count[r] \/ Pushed(r)')
      BY <3>2, ServerForms
    <3>7. QED
      BY <3>1, <3>2, <3>4, <3>5, <3>6 DEF Taken, In, Fills
  <2>2. CASE ChatsSize(u) \/ Allocates(u, "chats")
    <3>1. /\ In(u, "chats", {"answer", "alloc"}) /\ th'[u].got = th[u].got
          /\ th'[u].room = th[u].room /\ th'[u].kind = "chats"
      BY <2>2 DEF ChatsSize, Allocates, Goes, In
    <3>2. In(u, "chats", Asks) /\ In(u, "chats", Asks)'
      BY <1>4, <3>1 DEF In, Asks
    <3>3. PICK r \in Rooms : th[u].room = r
      BY <1>0, <3>2
    <3>4. /\ Messages(th[u].got, r, Len(th[u].got))
          /\ Len(th[u].got) <= count'[r]
          /\ Len(th[u].got) = count'[r] \/ Pushed(r)'
      BY <1>1, <3>1, <3>2, <3>3 DEF Taken, In
    <3>5. CASE ChatsSize(u)
      <4>1. /\ th'[u].room = curr' /\ list'["chats"].size = Len(th'[u].got)
            /\ ~In(u, "chats", {"copy"})'
        BY <3>1, <3>5 DEF ChatsSize, Goes, In
      <4>2. QED
        BY <3>1, <3>3, <3>4, <4>1 DEF Taken
    <3>6. CASE Allocates(u, "chats")
      <4>1. th[u].room = curr /\ list["chats"].size = Len(th[u].got)
        BY <3>6 DEF Taken, Allocates, Fills, In
      <4>2. /\ th'[u].room = curr' /\ list'["chats"].size = Len(th'[u].got)
            /\ list'["chats"].data = Malloc(Len(th'[u].got))
        BY <3>1, <3>6, <4>1 DEF Allocates
      <4>3. QED
        BY <3>1, <3>3, <3>4, <4>2 DEF Taken
    <3>7. QED
      BY <2>2, <3>5, <3>6
  <2>3. QED
    BY <1>4, <2>1, <2>2, LoadForms
<1>5. CASE Stays
  BY <1>2, <1>5 DEF Stays
<1>6. ASSUME NEW t \in Threads, ThreadStep(t), t # u
      PROVE  th'[u] = th[u] /\ (Fills(u, "chats") => list'["chats"] = list["chats"] /\ curr' = curr)
  <2>1. th'[u] = th[u]
    BY <1>6, ThreadAlone DEF Alone
  <2>2. QED
    BY <1>6, <2>1, LoadUndisturbed
<1>7. QED
  BY <1>2, <1>3, <1>4, <1>5, <1>6, StepForms

(* Only a load of messages adds their draw, and ends a load. *)
LEMMA LoadedForms ==
  ASSUME Typed, Shape, NEW t \in Threads, ThreadStep(t)
  PROVE  /\ "chats" \in queued' => "chats" \in queued \/ (Copies(t, "chats") /\ Loaded)
         /\ In("gtk", "chats", Draws)' => In("gtk", "chats", Draws) \/ "chats" \in queued
<1>0. /\ "rooms" \in Lists /\ "chats" \in Lists
      /\ \A k \in Lists : k = "rooms" \/ k = "chats"
      /\ "gtk" \in Threads /\ Alone(t)
  BY ThreadAlone DEF Lists, Threads
<1>1. "chats" \in queued' => "chats" \in queued \/ Copies(t, "chats")
  BY <1>0 DEF ThreadStep, ListStep, Turns, Looks, Answered, GivesUp, NoRooms, RoomsSize, NoChats,
     ChatsSize, SkipsOne, Allocates, Copies, Starts, DrawsOne, Frees, Empties, Threads
<1>2. Copies(t, "chats") => Loaded
  BY DEF Copies, Loaded, In, At
<1>3. In("gtk", "chats", Draws)' => In("gtk", "chats", Draws) \/ "chats" \in queued
  <2>1. SUFFICES ASSUME th'["gtk"].kind = "chats", th'["gtk"].pc \in Draws
                 PROVE  In("gtk", "chats", Draws) \/ "chats" \in queued
    BY DEF In
  <2>2. CASE t # "gtk"
    BY <1>0, <2>1, <2>2 DEF Alone, In
  <2>3. CASE t = "gtk"
    <3>1. ~Turns(t) /\ ~Answered(t) /\ ~NoRooms(t) /\ ~RoomsSize(t) /\ ~ChatsSize(t)
      BY <2>1, <2>3 DEF Turns, Answered, NoRooms, RoomsSize, ChatsSize, Goes, In, Draws, Drops
    <3>2. ~GivesUp(t) /\ ~NoChats(t)
      BY <2>1, <2>3, IdleFields DEF GivesUp, NoChats, Draws, Drops
    <3>3. \A k \in Lists : ~Copies(t, k) /\ ~Allocates(t, k)
      BY <2>1, <2>3, IdleFields, AskingFields, <1>0 DEF Copies, Allocates, Goes, Draws, Drops
    <3>4. SkipsOne(t) => In("gtk", "chats", Draws)
      BY <2>3 DEF SkipsOne, In, Draws
    <3>5. ASSUME NEW k \in Lists, DrawsOne(t, k) \/ Frees(t, k) \/ Empties(t, k)
          PROVE  In("gtk", "chats", Draws)
      BY <2>1, <2>3, <3>5, AfterDrawFields DEF DrawsOne, NextItem, Frees, Empties, Goes, In, Draws, Drops
    <3>6. ASSUME NEW k \in Lists, Starts(t, k)
          PROVE  "chats" \in queued
      BY <2>1, <2>3, <3>6 DEF Starts
    <3>7. QED
      BY <3>1, <3>2, <3>3, <3>4, <3>5, <3>6 DEF ThreadStep, ListStep
  <2>4. QED
    BY <2>2, <2>3
<1>4. QED
  BY <1>1, <1>2, <1>3

(* A load of messages that begins at ease finds nobody at the messages. *)
LEMMA EaseForms ==
  ASSUME Typed, Shape, NEW t \in Threads, ThreadStep(t), LoadBegins, AtEase, ~Meet'
  PROVE  /\ \A u \in Threads : ~In(u, "chats", {"answer", "alloc", "copy"})'
         /\ "chats" \notin queued' /\ ~In("gtk", "chats", Draws)'
<1>0. Alone(t) /\ "gtk" \in Threads /\ "sse" \in Threads
      /\ \A u \in Threads : u = "gtk" \/ u = "sse"
  BY ThreadAlone DEF Threads
<1>1. ~At(t, "asked") /\ th'[t].pc = "asked" /\ th'[t].kind = "chats"
  BY <1>0 DEF LoadBegins, Alone, At
<1>2. "chats" \notin queued'
  <2>1. ~Copies(t, "chats")
    BY <1>1, IdleFields DEF Copies
  <2>2. QED
    BY <2>1, LoadedForms DEF AtEase
<1>3. CASE t = "gtk"
  <2>1. th'["sse"].pc = "idle"
    BY <1>1, <1>3 DEF Meet, Reloading, At
  <2>2. QED
    BY <1>0, <1>1, <1>2, <1>3, <2>1 DEF In, Draws, Drops
<1>4. CASE t = "sse"
  <2>1. ~Reloading("gtk", "chats")' /\ th'["gtk"] = th["gtk"] /\ th["gtk"].pc # "item"
    BY <1>0, <1>1, <1>4 DEF Meet, At, Alone, AtEase
  <2>2. ~In("gtk", "chats", {"answer", "alloc", "copy"})' /\ ~In("gtk", "chats", Draws)'
    BY <2>1 DEF Reloading, In, Draws, Drops
  <2>3. QED
    BY <1>0, <1>1, <1>2, <1>4, <2>2 DEF In
<1>5. QED
  BY <1>0, <1>3, <1>4

(* Every step keeps what a load that meets nobody takes. *)
LEMMA LoadAloneKept ==
  ASSUME Typed, Shape, Unopened, LoadAlone, Next, Remember
  PROVE  LoadAlone'
<1>1. Meet' => spoiled' = "yes"
  BY LoadHistory
<1>2. ASSUME spoiled' # "yes"
      PROVE  /\ \A u \in Threads : Taken(u)'
             /\ spoiled' = "reloading" => "chats" \notin queued' /\ ~In("gtk", "chats", Draws)'
  <2>1. /\ ~Meet' /\ ~Failed
        /\ spoiled = "yes" => LoadBegins /\ AtEase
        /\ spoiled' = "reloading" => spoiled = "yes" \/ (spoiled = "reloading" /\ ~Loaded)
    BY <1>2, LoadHistory DEF Typed
  <2>2. CASE spoiled = "yes"
    <3>1. ~Stays
      BY <2>1, <2>2 DEF Stays, LoadBegins, At
    <3>2. PICK t \in Threads : ThreadStep(t)
      BY <3>1, StepForms
    <3>3. QED
      BY <2>1, <2>2, <3>2, EaseForms DEF Taken, Fills, In
  <2>3. CASE spoiled # "yes"
    <3>1. ~Meet /\ \A u \in Threads : Taken(u)
      BY <2>3 DEF LoadAlone, Taken
    <3>2. \A u \in Threads : Taken(u)'
      BY <2>1, <3>1, TakenKept
    <3>3. ASSUME spoiled' = "reloading"
          PROVE  "chats" \notin queued' /\ ~In("gtk", "chats", Draws)'
      <4>1. ~Loaded /\ "chats" \notin queued /\ ~In("gtk", "chats", Draws)
        BY <2>1, <2>3, <3>3 DEF LoadAlone
      <4>2. CASE Stays
        BY <4>1, <4>2 DEF Stays, In
      <4>3. QED
        BY <4>1, <4>2, StepForms, LoadedForms
    <3>4. QED
      BY <3>2, <3>3
  <2>4. QED
    BY <2>2, <2>3
<1>3. QED
  BY <1>1, <1>2 DEF LoadAlone, Taken

(* What the list holds is behind the server only if a push is on its way,  *)
(* or being handled.                                                       *)
LEMMA CountKept ==
  ASSUME Typed, Shape, Unopened, Next, NEW r \in Rooms, NEW n \in Nat,
         n <= count[r], n = count[r] \/ Pushed(r) \/ BusyWith(r),
         BusyWith(r) => BusyWith(r)'
  PROVE  n <= count'[r] /\ (n = count'[r] \/ Pushed(r)' \/ BusyWith(r)')
<1>1. Typed'
  BY TypedKept
<1>2. count[r] \in Nat /\ count'[r] \in Nat
  BY <1>1, BoundsAssumption DEF Typed
<1>3. /\ count[r] <= count'[r] /\ (count'[r] = count[r] \/ Pushed(r)')
      /\ Pushed(r) => Pushed(r)' \/ BusyWith(r)'
  BY ServerForms DEF BusyWith
<1>4. QED
  BY <1>2, <1>3

(* A step that leaves the list of messages. *)
LEMMA CalmSame ==
  ASSUME Typed, Shape, Unopened, Next, CalmChats,
         list'["chats"].size = list["chats"].size, list'["chats"].data = list["chats"].data,
         curr' = curr,
         \A u \in Threads : Fills(u, "chats") => Fills(u, "chats")',
         In("gtk", "chats", Drops)' => list["chats"].size = 0,
         th'["sse"].pc \in Asks => th'["sse"].room = curr,
         At("sse", "answer")' => list["chats"].size <= Len(th'["sse"].got),
         \A r : r = curr /\ BusyWith(r) => BusyWith(r)'
  PROVE  CalmChats'
<1>0. "gtk" \in Threads /\ Lines' = Lines /\ list["chats"].size \in Nat
  BY DEF Threads, Lines, Typed, Lists
<1>1. ASSUME \A u \in Threads : ~Fills(u, "chats")', curr # None
      PROVE  /\ list["chats"].size <= count'[curr]
             /\ list["chats"].size = count'[curr] \/ Pushed(curr)' \/ BusyWith(curr)'
  <2>1. PICK r \in Rooms : r = curr
    BY <1>1 DEF Typed
  <2>2. /\ list["chats"].size <= count[r]
        /\ list["chats"].size = count[r] \/ Pushed(r) \/ BusyWith(r)
    BY <1>1, <2>1 DEF CalmChats
  <2>3. /\ list["chats"].size <= count'[r]
        /\ list["chats"].size = count'[r] \/ Pushed(r)' \/ BusyWith(r)'
    BY <1>0, <2>1, <2>2, CountKept
  <2>4. QED
    BY <2>1, <2>3
<1>2. ASSUME \A u \in Threads : ~Fills(u, "chats")'
      PROVE  /\ Messages(Lines, curr, list["chats"].size)
             /\ list["chats"].size > 0 => list["chats"].data.ptr = "heap"
  BY <1>2 DEF CalmChats
<1>3. ~Fills("gtk", "chats")' => \A i \in DOMAIN Lines : OfRoom(Lines[i])
  BY <1>0 DEF CalmChats
<1>4. (\A u \in Threads : ~Fills(u, "chats")') =>
         /\ Messages(Lines', curr', list'["chats"].size)
         /\ list'["chats"].size > 0 => list'["chats"].data.ptr = "heap"
         /\ curr' # None =>
               /\ list'["chats"].size <= count'[curr']
               /\ list'["chats"].size = count'[curr'] \/ Pushed(curr)' \/ BusyWith(curr)'
  BY <1>0, <1>1, <1>2
<1>5. ~Fills("gtk", "chats")' => \A i \in DOMAIN Lines' : OfRoom(Lines'[i])
  BY <1>0, <1>3
<1>6. QED
  BY <1>4, <1>5 DEF CalmChats, OfRoom

(* A load ends. *)
LEMMA CopyCalm ==
  ASSUME Typed, Shape, Unopened, LoadAlone, Next, spoiled # "yes", ~Meet,
         NEW t \in Threads, Copies(t, "chats")
  PROVE  /\ CalmChats'
         /\ list'["chats"].size = list["chats"].size /\ "chats" \in queued'
         /\ \A u \in Threads : ~Fills(u, "chats")'
<1>0. /\ "gtk" \in Threads /\ "sse" \in Threads /\ "chats" \in Lists
      /\ \A u \in Threads : u = "gtk" \/ u = "sse"
      /\ th[t].got \in Seq(Items) /\ Alone(t) /\ th'[t] = Idle
      /\ In(t, "chats", Asks) => th[t].room \in Rooms
  BY DEF Typed, Threads, Lists, Thread, Shape, Copies
<1>1. /\ In(t, "chats", {"copy"}) /\ Fills(t, "chats") /\ In(t, "chats", Asks)
      /\ In(t, "chats", {"answer", "alloc", "copy"})
  BY DEF Copies, Fills, In, Asks
<1>2. /\ Messages(th[t].got, th[t].room, Len(th[t].got))
      /\ Len(th[t].got) <= count[th[t].room]
      /\ Len(th[t].got) = count[th[t].room] \/ Pushed(th[t].room)
      /\ th[t].room = curr /\ list["chats"].size = Len(th[t].got)
      /\ list["chats"].data = Malloc(Len(th[t].got))
  BY <1>1 DEF LoadAlone
<1>3. /\ Len(list["chats"].data.items) = Len(th[t].got) /\ list["chats"].data.ptr = "heap"
      /\ Len(th[t].got) \in Nat
  BY <1>0, <1>2, MallocFacts
<1>4. Copied(t) = th[t].got
  <2>1. th[t].kind = "chats"
    BY <1>1 DEF In
  <2>2. QED
    BY <1>3, <2>1, CopiedFacts
<1>5. /\ Lines' = th[t].got /\ list'["chats"].size = Len(th[t].got)
      /\ list'["chats"].data.ptr = "heap" /\ curr' = curr /\ "chats" \in queued'
  BY <1>2, <1>3, <1>4 DEF Copies, Lines
<1>6. th'["sse"].pc = "idle" /\ (t = "sse" => ~Reloading("gtk", "chats"))
  <2>1. CASE t = "sse"
    BY <1>0, <1>1, <2>1, IdleFields DEF Meet, In, At
  <2>2. CASE t = "gtk"
    BY <1>0, <1>1, <2>2 DEF Meet, Reloading, In, At, Alone
  <2>3. QED
    BY <1>0, <2>1, <2>2
<1>7. \A u \in Threads : ~Fills(u, "chats")' /\ ~In("gtk", "chats", Drops)'
  <2>1. CASE t = "sse"
    BY <1>0, <1>6, <2>1 DEF Alone, Fills, In, Drops, Reloading
  <2>2. CASE t = "gtk"
    BY <1>0, <1>6, <2>2, IdleFields DEF Fills, In, Drops
  <2>3. QED
    BY <1>0, <2>1, <2>2
<1>8. PICK r \in Rooms : r = curr
  BY <1>0, <1>1, <1>2
<1>9. Len(th[t].got) <= count'[r] /\ (Len(th[t].got) = count'[r] \/ Pushed(r)')
  <2>1. Taken(t) /\ Len(th[t].got) <= count[r] /\ (Len(th[t].got) = count[r] \/ Pushed(r))
    BY <1>2, <1>8 DEF LoadAlone, Taken
  <2>2. ~(At("sse", "idle") /\ ~At("sse", "idle")')
    BY <1>6 DEF At
  <2>3. /\ count[r] <= count'[r] /\ (count'[r] = count[r] \/ Pushed(r)')
        /\ Pushed(r) => Pushed(r)'
    BY <2>2, ServerForms
  <2>4. Typed'
    BY TypedKept
  <2>5. count[r] \in Nat /\ count'[r] \in Nat
    BY <2>4, BoundsAssumption DEF Typed
  <2>6. QED
    BY <1>3, <2>1, <2>3, <2>5
<1>10. \A i \in DOMAIN th[t].got : th[t].got[i][1] = curr
  <2>1. \A i \in DOMAIN th[t].got : th[t].got[i] = <<curr, i - 1>>
    BY <1>0, <1>2 DEF Messages
  <2>2. QED
    BY <2>1
<1>11. Messages(Lines', curr', list'["chats"].size)
  BY <1>2, <1>5
<1>12. /\ list'["chats"].size <= count'[curr']
       /\ list'["chats"].size = count'[curr'] \/ Pushed(curr)'
  BY <1>5, <1>8, <1>9
<1>13. \A i \in DOMAIN Lines' : Lines'[i][1] = curr'
  BY <1>5, <1>10
<1>14. CalmChats'
  BY <1>5, <1>6, <1>7, <1>11, <1>12, <1>13 DEF CalmChats, OfRoom, At, Asks
<1>15. QED
  BY <1>2, <1>5, <1>7, <1>14

(* A step of a thread that is elsewhere. *)
LEMMA AwayChats ==
  ASSUME Typed, Shape, Unopened, Next, CalmChats, ~Meet, ~Failed,
         NEW t \in Threads, ThreadStep(t), ChatsAway(t)
  PROVE  CalmChats'
<1>0. /\ "gtk" \in Threads /\ "sse" \in Threads /\ "chats" \in Lists
      /\ \A u \in Threads : u = "gtk" \/ u = "sse"
      /\ Alone(t) /\ list'["chats"] = list["chats"] /\ curr' = curr
      /\ list["chats"].size \in Nat
  BY DEF Threads, Lists, ChatsAway, Typed
<1>1. \A u \in Threads : Fills(u, "chats") => Fills(u, "chats")'
  BY DEF ChatsAway, Alone, Fills, In
<1>2. In("gtk", "chats", Drops)' => list["chats"].size = 0
  <2>1. In("gtk", "chats", Drops)' => In("gtk", "chats", Drops)
    BY <1>0 DEF ChatsAway, Alone, In, Draws
  <2>2. QED
    BY <2>1 DEF CalmChats
<1>3. th'["sse"].pc \in Asks => th'["sse"].room = curr
  BY <1>0 DEF ChatsAway, Alone, CalmChats
<1>4. At("sse", "answer")' => list["chats"].size <= Len(th'["sse"].got)
  <2>1. CASE t = "gtk"
    BY <1>0, <2>1 DEF Alone, CalmChats, At
  <2>2. CASE t = "sse"
    <3>1. SUFFICES ASSUME At("sse", "answer")' PROVE list["chats"].size <= Len(th'["sse"].got)
      OBVIOUS
    <3>2. Answered("sse")
      BY <2>2, <3>1 DEF ChatsAway, At
    <3>3. In("sse", "chats", {"asked"}) /\ th["sse"].room = curr /\ In("sse", "chats", Asks)
      BY <3>2 DEF Answered, In, At, Shape, Asks, CalmChats
    <3>4. curr \in Rooms /\ curr # None
      BY <1>0, <3>3, ItemFacts DEF Shape
    <3>5. th'["sse"].got = Snapshot("chats", curr)
      BY <1>0, <3>1, <3>2, <3>3 DEF Answered, In, At, Failed
    <3>6. Len(th'["sse"].got) = count[curr]
      BY <3>4, <3>5, SnapshotFacts DEF Messages
    <3>7. \A u \in Threads : ~Fills(u, "chats")
      BY <1>0, <3>3 DEF Meet, Reloading, Fills, In, At
    <3>8. QED
      BY <3>4, <3>6, <3>7 DEF CalmChats
  <2>3. QED
    BY <1>0, <2>1, <2>2
<1>5. \A r : r = curr /\ BusyWith(r) => BusyWith(r)'
  BY <1>0 DEF ChatsAway, Alone, BusyWith, At
<1>6. QED
  BY <1>0, <1>1, <1>2, <1>3, <1>4, <1>5, CalmSame

(* A load goes on. *)
LEMMA FillCalm ==
  ASSUME Typed, Shape, CalmChats, ~Meet,
         NEW t \in Threads, ChatsSize(t) \/ Allocates(t, "chats")
  PROVE  CalmChats' /\ Fills(t, "chats")'
<1>0. /\ "gtk" \in Threads /\ "sse" \in Threads /\ "chats" \in Lists
      /\ t = "gtk" \/ t = "sse"
      /\ Alone(t) /\ th'[t].kind = "chats" /\ th'[t].room = th[t].room
      /\ th'[t].pc \in {"alloc", "copy"} /\ In(t, "chats", {"answer", "alloc"})
  BY DEF Threads, Lists, ChatsSize, Allocates, Goes, In
<1>1. Fills(t, "chats")'
  BY <1>0 DEF Fills, In
<1>2. CASE t = "gtk"
  <2>1. th'["sse"].pc = "idle"
    BY <1>0, <1>2 DEF Meet, Reloading, In, At, Alone
  <2>2. QED
    BY <1>0, <1>1, <1>2, <2>1 DEF CalmChats, In, At, Asks, Drops
<1>3. CASE t = "sse"
  <2>1. ~Reloading("gtk", "chats") /\ th'["gtk"] = th["gtk"]
    BY <1>0, <1>3 DEF Meet, In, At, Alone
  <2>2. ~In("gtk", "chats", Drops)' /\ ~Fills("gtk", "chats")
    BY <2>1 DEF Reloading, In, Drops, Fills
  <2>3. th["sse"].room = curr /\ curr' = curr
    BY <1>0, <1>3 DEF CalmChats, In, Asks, ChatsSize, Allocates
  <2>4. \A i \in DOMAIN Lines' : Lines'[i] = Junk \/ Lines'[i][1] = curr
    <3>1. CASE ChatsSize(t)
      BY <2>2, <3>1 DEF ChatsSize, Lines, CalmChats, OfRoom
    <3>2. CASE Allocates(t, "chats")
      <4>1. th[t].got \in Seq(Items) /\ Lines' = Malloc(Len(th[t].got)).items
        BY <3>2 DEF Typed, Thread, Allocates, Lines
      <4>2. QED
        BY <4>1, MallocFacts
    <3>3. QED
      BY <3>1, <3>2
  <2>5. QED
    BY <1>0, <1>1, <1>3, <2>2, <2>3, <2>4 DEF CalmChats, OfRoom, At
<1>4. QED
  BY <1>0, <1>1, <1>2, <1>3

(* The messages are drawn, or dropped. *)
LEMMA DrawChats ==
  ASSUME Typed, Shape, Unopened, Next, CalmChats, NEW t \in Threads,
         \/ SkipsOne(t) \/ Starts(t, "chats") \/ DrawsOne(t, "chats")
         \/ Frees(t, "chats") \/ Empties(t, "chats")
  PROVE  /\ CalmChats' /\ t = "gtk" /\ th'["sse"] = th["sse"] /\ curr' = curr
         /\ list'["chats"].size = list["chats"].size
         /\ ~Fills("gtk", "chats") /\ ~Fills("gtk", "chats")'
<1>0. /\ "gtk" \in Threads /\ "sse" \in Threads /\ "chats" \in Lists
      /\ t = "gtk" \/ t = "sse"
      /\ \A u \in Threads : u = "gtk" \/ u = "sse"
      /\ Alone(t) /\ curr' = curr
  BY DEF Threads, Lists, SkipsOne, Starts, DrawsOne, NextItem, Frees, Empties, Goes, Looks
<1>1. t = "gtk"
  <2>1. CASE t = "sse"
    BY <2>1 DEF SkipsOne, Starts, DrawsOne, Frees, Empties, In, Shape, Draws, Drops
  <2>2. QED
    BY <1>0, <2>1
<1>2. th'["sse"] = th["sse"]
  BY <1>0, <1>1 DEF Alone
<1>3. ~Fills("gtk", "chats") /\ ~Fills("gtk", "chats")'
  BY <1>1, AfterDrawFields DEF SkipsOne, Starts, DrawsOne, NextItem, Frees, Empties, Goes,
     Fills, In, At
<1>4. \A u \in Threads : Fills(u, "chats") <=> Fills(u, "chats")'
  BY <1>0, <1>2, <1>3 DEF Fills, In
<1>5. /\ th'["sse"].pc \in Asks => th'["sse"].room = curr
      /\ At("sse", "answer")' => list["chats"].size <= Len(th'["sse"].got)
      /\ \A r : r = curr /\ BusyWith(r) => BusyWith(r)'
  BY <1>2 DEF CalmChats, At, BusyWith
<1>6. CASE Frees(t, "chats")
  <2>1. /\ list["chats"].size = 0 /\ list'["chats"].size = 0
        /\ list'["chats"].data = Pointer("null")
    BY <1>1, <1>6 DEF Frees, CalmChats, In, Drops
  <2>2. Lines' = <<>>
    BY <2>1, PointerFacts DEF Lines
  <2>3. Messages(Lines', curr', 0)
    BY <2>2 DEF Messages
  <2>4. ASSUME \A u \in Threads : ~Fills(u, "chats")', curr # None
        PROVE  0 <= count'[curr] /\ (0 = count'[curr] \/ Pushed(curr)' \/ BusyWith(curr)')
    <3>1. PICK r \in Rooms : r = curr
      BY <2>4 DEF Typed
    <3>2. 0 <= count[r] /\ (0 = count[r] \/ Pushed(r) \/ BusyWith(r))
      BY <1>4, <2>1, <2>4, <3>1 DEF CalmChats
    <3>3. 0 <= count'[r] /\ (0 = count'[r] \/ Pushed(r)' \/ BusyWith(r)')
      <4>1. BusyWith(r) => BusyWith(r)'
        BY <1>5, <3>1
      <4>2. 0 \in Nat
        OBVIOUS
      <4>3. QED
        BY <3>1, <3>2, <4>1, <4>2, CountKept
    <3>4. QED
      BY <1>0, <3>1, <3>3
  <2>5. (\A u \in Threads : ~Fills(u, "chats")') /\ curr' # None =>
           /\ list'["chats"].size <= count'[curr']
           /\ list'["chats"].size = count'[curr'] \/ Pushed(curr)' \/ BusyWith(curr)'
    BY <1>0, <2>1, <2>4
  <2>6. CalmChats'
    BY <1>0, <1>5, <2>1, <2>2, <2>3, <2>5 DEF CalmChats
  <2>7. QED
    BY <1>0, <1>1, <1>2, <1>3, <2>1, <2>6
<1>7. CASE ~Frees(t, "chats")
  <2>1. /\ list'["chats"].size = list["chats"].size
        /\ list'["chats"].data = list["chats"].data
    <3>1. CASE Empties(t, "chats")
      BY <1>1, <3>1 DEF Empties, CalmChats, In, Drops
    <3>2. CASE ~Empties(t, "chats")
      BY <1>7, <3>2 DEF SkipsOne, Looks, Starts, DrawsOne
    <3>3. QED
      BY <3>1, <3>2
  <2>2. In("gtk", "chats", Drops)' => list["chats"].size = 0
    BY <1>1, <1>7, AfterDrawFields DEF SkipsOne, Starts, DrawsOne, NextItem, Empties, In, Drops
  <2>3. CalmChats'
    BY <1>0, <1>4, <1>5, <2>1, <2>2, CalmSame
  <2>4. QED
    BY <1>0, <1>1, <1>2, <1>3, <2>1, <2>3
<1>8. QED
  BY <1>6, <1>7

(* The messages are good again only at the end of a load. *)
LEMMA GoodAgain ==
  ASSUME Typed, Shape, LoadAlone, Next, Remember, spoiled' = "no"
  PROVE  /\ ~Meet /\ ~Meet' /\ ~Failed /\ spoiled # "yes"
         /\ \/ spoiled = "no"
            \/ /\ spoiled = "reloading" /\ ~In("gtk", "chats", Draws)
               /\ \E t \in Threads : Copies(t, "chats")
<1>1. /\ ~Meet' /\ ~Failed /\ spoiled # "yes"
      /\ spoiled = "no" \/ (spoiled = "reloading" /\ Loaded)
  BY LoadHistory DEF Typed
<1>2. ~Meet
  BY <1>1 DEF LoadAlone
<1>3. ASSUME spoiled = "reloading", Loaded
      PROVE  ~In("gtk", "chats", Draws) /\ \E t \in Threads : Copies(t, "chats")
  <2>1. "chats" \in queued' /\ "chats" \notin queued /\ ~In("gtk", "chats", Draws)
    BY <1>3 DEF Loaded, LoadAlone
  <2>2. ~Stays
    BY <2>1 DEF Stays
  <2>3. QED
    BY <2>1, <2>2, StepForms, LoadedForms
<1>4. QED
  BY <1>1, <1>2, <1>3

(* Every step keeps the list of messages calm, or is a meeting. *)
LEMMA ChatsCalmKept ==
  ASSUME Typed, Shape, Unopened, LoadAlone, ChatsCalm, Next, Remember
  PROVE  ChatsCalm'
<1>1. SUFFICES ASSUME spoiled' = "no" PROVE CalmChats'
  BY DEF ChatsCalm
<1>2. ~Meet /\ ~Meet' /\ ~Failed /\ spoiled # "yes"
  BY <1>1, GoodAgain
<1>3. CASE \E t \in Threads : Copies(t, "chats")
  BY <1>2, <1>3, CopyCalm
<1>4. CASE ~ \E t \in Threads : Copies(t, "chats")
  <2>1. CalmChats
    BY <1>1, <1>4, GoodAgain DEF ChatsCalm
  <2>2. CASE Stays
    <3>1. /\ \A u \in Threads : Fills(u, "chats") => Fills(u, "chats")'
          /\ In("gtk", "chats", Drops)' => In("gtk", "chats", Drops)
          /\ \A r : r = curr /\ BusyWith(r) => BusyWith(r)'
      BY <2>2 DEF Stays, Fills, In, BusyWith, At
    <3>2. /\ In("gtk", "chats", Drops) => list["chats"].size = 0
          /\ th["sse"].pc \in Asks => th["sse"].room = curr
          /\ At("sse", "answer") => list["chats"].size <= Len(th["sse"].got)
      BY <2>1 DEF CalmChats
    <3>3. /\ UNCHANGED <<th, list, curr>>
          /\ At("sse", "answer")' => At("sse", "answer")
      BY <2>2 DEF Stays, At
    <3>4. QED
      BY <2>1, <3>1, <3>2, <3>3, CalmSame
  <2>3. ASSUME NEW t \in Threads, ThreadStep(t)
        PROVE  CalmChats'
    BY <1>2, <1>4, <2>1, <2>3, ChatsForms, AwayChats, FillCalm, DrawChats
  <2>4. QED
    BY <2>2, <2>3, StepForms
<1>5. QED
  BY <1>3, <1>4

(* A line that is drawn is that of its place. *)
LEMMA AppendMessage ==
  ASSUME NEW s \in Seq(Items), NEW r, NEW i \in Nat, Messages(s, r, i - 1), i > 0,
         <<r, i - 1>> \in Items
  PROVE  Messages(Append(s, <<r, i - 1>>), r, i)
<1>1. Len(s) = i - 1 /\ \A j \in 1 .. i - 1 : s[j] = <<r, j - 1>>
  BY DEF Messages
<1>2. /\ Len(Append(s, <<r, i - 1>>)) = Len(s) + 1
      /\ Append(s, <<r, i - 1>>)[Len(s) + 1] = <<r, i - 1>>
      /\ \A j \in 1 .. Len(s) : Append(s, <<r, i - 1>>)[j] = s[j]
  BY AppendItems
<1>3. /\ i - 1 + 1 = i
      /\ \A j \in 1 .. i : j = i \/ j \in 1 .. i - 1
  OBVIOUS
<1>4. QED
  BY <1>1, <1>2, <1>3 DEF Messages

(* What the draw loop finds at a place of the list of messages. *)
LEMMA LineIs ==
  ASSUME Typed, NEW n \in Nat, Messages(Lines, curr, n), NEW i \in 1 .. n
  PROVE  Element("chats", i) = <<curr, i - 1>>
<1>1. Lines \in Seq(Items)
  BY DEF Typed, Data, Lists, Lines
<1>2. Len(Lines) = n /\ Lines[i] = <<curr, i - 1>>
  BY DEF Messages
<1>3. i \in DOMAIN Lines
  BY <1>1, <1>2
<1>4. QED
  BY <1>2, <1>3 DEF Element, Lines

(* A line is drawn below the others. *)
LEMMA DrawShown ==
  ASSUME Typed, Shape, Unopened, Next, CalmChats, ShownChats,
         NEW t \in Threads, DrawsOne(t, "chats")
  PROVE  ShownChats'
<1>0. /\ "gtk" \in Threads /\ "sse" \in Threads /\ "chats" \in Lists
      /\ \A u \in Threads : u = "gtk" \/ u = "sse"
      /\ t = "gtk" /\ th'["sse"] = th["sse"] /\ curr' = curr
      /\ list' = list /\ queued' = queued /\ NextItem("gtk")
      /\ In("gtk", "chats", {"item"})
      /\ box'["chats"] = Append(box["chats"], Element("chats", th["gtk"].i))
      /\ box["chats"] \in Seq(Items) /\ Lines \in Seq(Items)
      /\ list["chats"].size \in Nat /\ th["gtk"].i \in 1 .. th["gtk"].len /\ th["gtk"].len \in Nat
      /\ ~Fills("gtk", "chats") /\ ~Fills("gtk", "chats")'
  BY DrawChats DEF DrawsOne, Threads, Lists, Typed, Thread, Data, Lines, Shape, In
<1> DEFINE m == Element("chats", th["gtk"].i)
<1>1. m \in Items /\ OfRoom(m)
  <2>1. m = Junk \/ \E i \in DOMAIN Lines : m = Lines[i]
    BY DEF Element, Lines
  <2>2. QED
    BY <1>0, <2>1, ItemFacts DEF CalmChats, OfRoom
<1>2. Fills("sse", "chats")' <=> Fills("sse", "chats")
  BY <1>0 DEF Fills, In
<1>3. /\ th["gtk"].len <= list["chats"].size
      /\ Fills("sse", "chats") \/ "chats" \in queued
         \/ (th["gtk"].len = list["chats"].size /\ Messages(box'["chats"], curr, th["gtk"].i))
  <2>1. /\ th["gtk"].len <= list["chats"].size
        /\ Fills("sse", "chats") \/ "chats" \in queued
           \/ (th["gtk"].len = list["chats"].size /\ Messages(box["chats"], curr, th["gtk"].i - 1))
    BY <1>0 DEF ShownChats
  <2>2. ASSUME ~Fills("sse", "chats"), Messages(box["chats"], curr, th["gtk"].i - 1)
        PROVE  Messages(box'["chats"], curr, th["gtk"].i)
    <3>1. Messages(Lines, curr, list["chats"].size)
      BY <1>0, <2>2 DEF CalmChats
    <3>2. th["gtk"].i \in 1 .. list["chats"].size /\ th["gtk"].i \in Nat /\ th["gtk"].i > 0
      BY <1>0, <2>1
    <3>3. m = <<curr, th["gtk"].i - 1>>
      BY <1>0, <3>1, <3>2, LineIs
    <3> HIDE DEF m
    <3>4. box'["chats"] = Append(box["chats"], <<curr, th["gtk"].i - 1>>)
      BY <1>0, <3>3 DEF m
    <3>5. QED
      BY <1>0, <1>1, <2>2, <3>2, <3>3, <3>4, AppendMessage
  <2>3. QED
    BY <2>1, <2>2
<1>4. "chats" \in queued \/ \A i \in DOMAIN box'["chats"] : OfRoom(box'["chats"][i])
  <2>1. "chats" \in queued \/ \A i \in DOMAIN box["chats"] : OfRoom(box["chats"][i])
    BY <1>0 DEF ShownChats
  <2> HIDE DEF m
  <2>2. box'["chats"] = Append(box["chats"], m)
    BY <1>0 DEF m
  <2>3. \A i \in DOMAIN box'["chats"] :
           box'["chats"][i] = m \/ (i \in DOMAIN box["chats"] /\ box'["chats"][i] = box["chats"][i])
    BY <1>0, <1>1, <2>2, AppendItems
  <2>4. QED
    BY <1>1, <2>1, <2>3 DEF OfRoom
<1>5. CASE th["gtk"].i = th["gtk"].len /\ th'["gtk"] = AfterDraw("gtk")
  <2>1. ~In("gtk", "chats", {"item"})'
    BY <1>0, <1>5, AfterDrawFields DEF In
  <2>2. \/ Fills("sse", "chats") \/ "chats" \in queued
        \/ Messages(box'["chats"], curr, list["chats"].size)
    BY <1>3, <1>5
  <2>3. QED
    BY <1>0, <1>2, <1>4, <2>1, <2>2 DEF ShownChats, OfRoom
<1>6. CASE /\ th'["gtk"].pc = "item" /\ th'["gtk"].i = th["gtk"].i + 1
           /\ th'["gtk"].kind = "chats" /\ th'["gtk"].len = th["gtk"].len
  <2>1. th'["gtk"].i - 1 = th["gtk"].i /\ In("gtk", "chats", {"item"})'
    BY <1>0, <1>6 DEF In
  <2>2. QED
    BY <1>0, <1>2, <1>3, <1>4, <1>6, <2>1 DEF ShownChats, OfRoom
<1>7. QED
  BY <1>0, <1>5, <1>6 DEF NextItem, In

(* A step that leaves the messages and their widgets. *)
LEMMA ShownSame ==
  ASSUME ShownChats, list'["chats"].size = list["chats"].size,
         box'["chats"] = box["chats"], curr' = curr,
         ("chats" \in queued') <=> ("chats" \in queued),
         In("gtk", "chats", {"item"})' <=> In("gtk", "chats", {"item"}),
         In("gtk", "chats", {"item"})' => th'["gtk"] = th["gtk"],
         \A u \in Threads : Fills(u, "chats") => Fills(u, "chats")'
  PROVE  ShownChats'
<1>1. "gtk" \in Threads /\ "sse" \in Threads
  BY DEF Threads
<1>2. In("gtk", "chats", {"item"})' =>
         /\ th'["gtk"].len <= list'["chats"].size
         /\ Fills("sse", "chats")' \/ "chats" \in queued'
            \/ /\ th'["gtk"].len = list'["chats"].size
               /\ Messages(box'["chats"], curr', th'["gtk"].i - 1)
  BY <1>1 DEF ShownChats
<1>3. \/ "chats" \in queued' \/ In("gtk", "chats", {"item"})'
      \/ (\E t \in Threads : Fills(t, "chats")')
      \/ Messages(box'["chats"], curr', list'["chats"].size)
  BY DEF ShownChats
<1>4. "chats" \in queued' \/ Fills("gtk", "chats")' \/ \A i \in DOMAIN box'["chats"] : OfRoom(box["chats"][i])'
  BY <1>1 DEF ShownChats, OfRoom
<1>5. QED
  BY <1>2, <1>3, <1>4 DEF ShownChats

(* The page is right about the messages as soon as a load has ended. *)
LEMMA CopyShown ==
  ASSUME Typed, Shape, Unopened, LoadAlone, Next, spoiled # "yes", ~Meet,
         NEW t \in Threads, Copies(t, "chats"),
         ShownChats \/ ~In("gtk", "chats", Draws)
  PROVE  ShownChats'
<1>1. "chats" \in queued' /\ list'["chats"].size = list["chats"].size
  BY CopyCalm
<1>2. In("gtk", "chats", {"item"})' => th'["gtk"].len <= list["chats"].size
  <2>1. SUFFICES ASSUME In("gtk", "chats", {"item"})' PROVE th'["gtk"].len <= list["chats"].size
    OBVIOUS
  <2>2. "gtk" \in Threads /\ Alone(t) /\ th'[t] = Idle
    BY DEF Copies, Threads
  <2>3. th'["gtk"] = th["gtk"]
    BY <2>1, <2>2, IdleFields DEF Alone, In
  <2>4. In("gtk", "chats", {"item"}) /\ In("gtk", "chats", Draws)
    BY <2>1, <2>3 DEF In, Draws
  <2>5. QED
    BY <2>3, <2>4 DEF ShownChats
<1>3. QED
  BY <1>1, <1>2 DEF ShownChats

(* A step of a load leaves the widgets, and their room, to be drawn over. *)
LEMMA FillShown ==
  ASSUME Typed, Shape, CalmChats, ShownChats, ~Meet,
         NEW t \in Threads, ChatsSize(t) \/ Allocates(t, "chats")
  PROVE  ShownChats'
<1>0. /\ "gtk" \in Threads /\ "sse" \in Threads
      /\ t = "gtk" \/ t = "sse"
      /\ Alone(t) /\ th'[t].pc \in {"alloc", "copy"} /\ In(t, "chats", {"answer", "alloc"})
      /\ UNCHANGED <<box, queued>>
  BY DEF Threads, ChatsSize, Allocates, Goes, In
<1>1. Fills(t, "chats")'
  BY FillCalm
<1>2. CASE t = "gtk"
  BY <1>0, <1>1, <1>2 DEF ShownChats, In
<1>3. CASE t = "sse"
  <2>1. th'["gtk"] = th["gtk"] /\ th["sse"].room = curr /\ curr' = curr
    BY <1>0, <1>3 DEF Alone, CalmChats, In, Asks, ChatsSize, Allocates
  <2>2. ~Fills("gtk", "chats")
    BY <1>0, <1>3 DEF Meet, Reloading, Fills, In, At
  <2>3. In("gtk", "chats", {"item"})' => th["gtk"].len <= list'["chats"].size
    <3>1. SUFFICES ASSUME In("gtk", "chats", {"item"})'
                   PROVE  th["gtk"].len <= list'["chats"].size
      OBVIOUS
    <3>2. th["gtk"].len <= list["chats"].size
      BY <2>1, <3>1 DEF ShownChats, In
    <3>3. list["chats"].size <= list'["chats"].size
      <4>1. CASE ChatsSize(t)
        BY <1>3, <4>1 DEF ChatsSize, CalmChats, In, At
      <4>2. CASE Allocates(t, "chats")
        BY <4>2 DEF Allocates, Typed, Lists
      <4>3. QED
        BY <4>1, <4>2
    <3>4. /\ list["chats"].size \in Nat /\ list'["chats"].size \in Nat /\ th["gtk"].len \in Nat
      <4>1. "chats" \in Lists
        BY DEF Lists
      <4>2. QED
        BY <1>0, <4>1 DEF Typed, Thread, ChatsSize, Allocates, ListOnly
    <3>5. QED
      BY <3>2, <3>3, <3>4
  <2>4. "chats" \in queued \/ \A i \in DOMAIN box["chats"] : OfRoom(box["chats"][i])
    BY <2>2 DEF ShownChats
  <2>5. QED
    BY <1>0, <1>1, <1>3, <2>1, <2>3, <2>4 DEF ShownChats, OfRoom
<1>4. QED
  BY <1>0, <1>2, <1>3

(* Every step keeps the widgets of the messages those of the list. *)
LEMMA ChatsShownKept ==
  ASSUME Typed, Shape, Unopened, LoadAlone, ChatsCalm, ChatsShown, Next, Remember
  PROVE  ChatsShown'
<1>1. SUFFICES ASSUME spoiled' = "no" PROVE ShownChats'
  BY DEF ChatsShown
<1>2. ~Meet /\ ~Meet' /\ ~Failed /\ spoiled # "yes"
  BY <1>1, GoodAgain
<1>3. CASE \E t \in Threads : Copies(t, "chats")
  BY <1>1, <1>2, <1>3, GoodAgain, CopyShown DEF ChatsShown
<1>4. CASE ~ \E t \in Threads : Copies(t, "chats")
  <2>1. CalmChats /\ ShownChats
    BY <1>1, <1>4, GoodAgain DEF ChatsCalm, ChatsShown
  <2>2. CASE Stays
    <3>1. /\ \A u \in Threads : Fills(u, "chats") => Fills(u, "chats")'
          /\ In("gtk", "chats", {"item"})' <=> In("gtk", "chats", {"item"})
          /\ UNCHANGED <<th, list, box, queued, curr>>
      BY <2>2 DEF Stays, Fills, In
    <3>2. QED
      BY <2>1, <3>1, ShownSame
  <2>3. ASSUME NEW t \in Threads, ThreadStep(t)
        PROVE  ShownChats'
    <3>0. /\ "gtk" \in Threads /\ "sse" \in Threads /\ "chats" \in Lists
          /\ \A u \in Threads : u = "gtk" \/ u = "sse"
      BY DEF Threads, Lists
    <3>1. CASE ChatsAway(t)
      <4>1. \A u \in Threads : Fills(u, "chats") => Fills(u, "chats")'
        BY <3>1 DEF ChatsAway, Alone, Fills, In
      <4>2. /\ In("gtk", "chats", {"item"})' <=> In("gtk", "chats", {"item"})
            /\ In("gtk", "chats", {"item"})' => th'["gtk"] = th["gtk"]
        BY <3>0, <3>1 DEF ChatsAway, Alone, In, Draws
      <4>3. QED
        BY <2>1, <3>1, <4>1, <4>2, ShownSame DEF ChatsAway
    <3>2. CASE ChatsSize(t) \/ Allocates(t, "chats")
      BY <1>2, <2>1, <3>2, FillShown
    <3>3. CASE DrawsOne(t, "chats")
      BY <2>1, <3>3, DrawShown
    <3>4. ASSUME SkipsOne(t) \/ Starts(t, "chats") \/ Frees(t, "chats") \/ Empties(t, "chats")
          PROVE  /\ t = "gtk" /\ th'["sse"] = th["sse"] /\ curr' = curr
                 /\ list'["chats"].size = list["chats"].size
                 /\ ~Fills("gtk", "chats") /\ ~Fills("gtk", "chats")'
                 /\ \A u \in Threads : Fills(u, "chats") => Fills(u, "chats")'
      <4>1. /\ t = "gtk" /\ th'["sse"] = th["sse"] /\ curr' = curr
            /\ list'["chats"].size = list["chats"].size
            /\ ~Fills("gtk", "chats") /\ ~Fills("gtk", "chats")'
        BY <2>1, <3>4, DrawChats
      <4>2. QED
        BY <3>0, <4>1 DEF Fills, In
    <3>5. CASE SkipsOne(t)
      <4>1. Fills("sse", "chats")
        <5>1. /\ In("gtk", "chats", {"item"}) /\ list["chats"].data.ptr = "null"
              /\ th["gtk"].len <= list["chats"].size /\ th["gtk"].i \in 1 .. th["gtk"].len
          BY <2>1, <3>0, <3>4, <3>5 DEF SkipsOne, ShownChats, Shape, In
        <5>2. list["chats"].size > 0
          <6>1. list["chats"].size \in Nat /\ th["gtk"].len \in Nat
            BY <3>0 DEF Typed, Thread
          <6>2. QED
            BY <5>1, <6>1
        <5>3. QED
          BY <2>1, <3>0, <3>4, <3>5, <5>1, <5>2 DEF CalmChats
      <4>2. In("gtk", "chats", {"item"})' => th'["gtk"].len = th["gtk"].len
        BY <3>4, <3>5, AfterDrawFields DEF SkipsOne, NextItem, In
      <4>3. Fills("sse", "chats")' /\ UNCHANGED <<box, queued>>
        BY <3>0, <3>4, <3>5, <4>1 DEF SkipsOne, Looks
      <4>4. In("gtk", "chats", {"item"})
        BY <3>4, <3>5 DEF SkipsOne
      <4>5. QED
        BY <2>1, <3>0, <3>4, <3>5, <4>2, <4>3, <4>4 DEF ShownChats, OfRoom
    <3>6. CASE Starts(t, "chats")
      <4>1. /\ box'["chats"] = <<>> /\ th'["gtk"].i = 1 /\ th'["gtk"].len = list["chats"].size
            /\ list["chats"].size = 0 \/ In("gtk", "chats", {"item"})'
            /\ curr' = curr /\ list'["chats"].size = list["chats"].size
            /\ list["chats"].size \in Nat
        BY <3>0, <3>4, <3>6 DEF Starts, In, Typed
      <4>2. Messages(<<>>, curr, 0) /\ 1 - 1 = 0
        BY DEF Messages
      <4>3. QED
        BY <3>0, <4>1, <4>2 DEF ShownChats
    <3>7. CASE Frees(t, "chats") \/ Empties(t, "chats")
      <4>1. ~In("gtk", "chats", {"item"})' /\ ~In("gtk", "chats", {"item"})
            /\ UNCHANGED <<box, queued>>
        BY <3>4, <3>7, AfterDrawFields DEF Frees, Empties, Goes, In
      <4>2. QED
        BY <2>1, <3>4, <3>7, <4>1, ShownSame
    <3>8. QED
      BY <1>2, <1>4, <2>3, <3>1, <3>2, <3>3, <3>5, <3>6, <3>7, ChatsForms
  <2>4. QED
    BY <2>2, <2>3, StepForms
<1>5. QED
  BY <1>3, <1>4

-----------------------------------------------------------------------------
(* The menus.                                                              *)

(* A menu that is up after a step was up before, but for a right click. *)
LEMMA MenuForms ==
  ASSUME Typed, Next, ~RightClick, menu'.open # "none"
  PROVE  /\ menu.open # "none" /\ clicked' = clicked
         /\ \/ menu' = menu
            \/ menu.open = "chat" /\ menu'.open = "mark" /\ menu'.named = menu.chat
<1>1. Aside
  BY DEF Next
<1>2. clicked' = clicked
  BY <1>1, AsideTypes
<1>3. CASE PickDelete \/ PickReact
  BY <1>2, <1>3, PickDoes, NoMenuFacts
<1>4. CASE Dismiss \/ SendMark
  BY <1>4, NoMenuFacts DEF Dismiss, SendMark
<1>5. CASE OthersChange \/ Invited \/ HearPush \/ IfCurrent \/ IdleDraw \/ SelectRoom \/ AddRoom
           \/ RoomCreated \/ SendChat
  <2>1. HearPush => UNCHANGED menu
    BY HearPushDoes DEF Begin
  <2>2. IdleDraw => UNCHANGED menu
    BY DEF IdleDraw, Begin
  <2>3. QED
    BY <1>2, <1>5, <2>1, <2>2 DEF OthersChange, Invited, IfCurrent, SelectRoom, AddRoom,
       RoomCreated, SendChat
<1>6. ASSUME NEW t \in Threads,
             \/ Serve(t) \/ Fail(t) \/ TakeRooms(t) \/ TakeChats(t) \/ SetData(t) \/ Copy(t)
             \/ DrawItem(t) \/ DropData(t) \/ ZeroSize(t)
      PROVE  menu' = menu
  BY <1>6 DEF Serve, Fail, TakeRooms, TakeChats, SetData, Copy, DrawItem, DropData, ZeroSize
<1>7. QED
  BY <1>2, <1>3, <1>4, <1>5, <1>6 DEF Next

(* Below a menu the GTK thread does nothing but draw. *)
LEMMA BelowMenu ==
  ASSUME Typed, Shape, NEW t \in Threads, ThreadStep(t), menu.open # "none",
         th["gtk"].pc \in {"idle"} \cup Draws
  PROVE  th'["gtk"].pc \in {"idle"} \cup Draws /\ (t = "gtk" => ~ChatsSize(t))
<1>1. CASE t = "sse"
  BY <1>1, ThreadAlone DEF Alone, Threads
<1>2. CASE t = "gtk"
  <2>1. ~Turns(t) /\ ~Answered(t) /\ ~GivesUp(t) /\ ~NoRooms(t) /\ ~RoomsSize(t)
        /\ ~NoChats(t) /\ ~ChatsSize(t)
    BY <1>2 DEF Turns, Answered, GivesUp, NoRooms, RoomsSize, NoChats, ChatsSize, In, At,
       Draws, Drops
  <2>2. \A k \in Lists : ~Allocates(t, k) /\ ~Copies(t, k)
    BY <1>2 DEF Allocates, Copies, In, Draws, Drops
  <2>3. ASSUME SkipsOne(t) \/ \E k \in Lists : DrawsOne(t, k)
        PROVE  th'["gtk"].pc \in {"idle"} \cup Draws
    BY <1>2, <2>3, AfterDrawFields DEF SkipsOne, DrawsOne, NextItem, Draws
  <2>4. ASSUME NEW k \in Lists, Starts(t, k) \/ Frees(t, k) \/ Empties(t, k)
        PROVE  th'["gtk"].pc \in {"idle"} \cup Draws
    BY <1>2, <2>4, AfterDrawFields DEF Starts, Frees, Empties, Goes, Draws, Drops
  <2>5. QED
    BY <2>1, <2>2, <2>3, <2>4 DEF ThreadStep, ListStep
<1>3. QED
  BY <1>1, <1>2 DEF Threads

(* Every step keeps the menus those of the widget clicked. *)
LEMMA MenuClickedKept ==
  ASSUME Typed, Shape, LoadAlone, ChatsCalm, ChatsShown, MenuClicked, Next, Remember
  PROVE  MenuClicked'
<1>0. /\ spoiled' = "reloading" => spoiled = "reloading" \/ (spoiled = "yes" /\ menu.open = "none")
      /\ spoiled' = "no" => ~Failed /\ (spoiled = "no" \/ spoiled = "reloading")
  BY LoadHistory DEF Typed, AtEase
<1>1. CASE RightClick
  <2>1. PICK i \in DOMAIN box["chats"] :
           /\ box["chats"][i] # Junk
           /\ menu'.chat = box["chats"][i][2] /\ clicked'.item = box["chats"][i]
           /\ clicked'.stale = (Spoiled \/ "chats" \in queued)
    BY <1>1, RightClickDoes
  <2>2. /\ menu'.open = "chat" /\ At("gtk", "idle") /\ UNCHANGED <<th, curr>>
    BY <1>1, RightClickDoes DEF page
  <2>3. spoiled' = "reloading" => clicked'.stale
    BY <1>0, <2>1, <2>2 DEF Spoiled
  <2>4. ASSUME spoiled' = "no"
        PROVE  clicked'.stale \/ clicked'.item[1] = curr'
    <3>1. CASE spoiled = "no"
      <4>1. "chats" \in queued \/ OfRoom(box["chats"][i])
        BY <2>1, <2>2, <3>1 DEF ChatsShown, ShownChats, Fills, In, At
      <4>2. QED
        BY <2>1, <2>2, <4>1 DEF OfRoom
    <3>2. CASE spoiled = "reloading"
      BY <2>1, <3>2 DEF Spoiled
    <3>3. QED
      BY <1>0, <2>4, <3>1, <3>2
  <2>5. QED
    BY <2>1, <2>2, <2>3, <2>4 DEF MenuClicked, At
<1>2. CASE ~RightClick
  <2>1. SUFFICES ASSUME menu'.open # "none" PROVE MenuClicked'
    BY DEF MenuClicked
  <2>2. /\ menu.open # "none" /\ clicked' = clicked
        /\ \/ menu' = menu
           \/ menu.open = "chat" /\ menu'.open = "mark" /\ menu'.named = menu.chat
    BY <1>2, <2>1, MenuForms
  <2>3. /\ menu'.open = "chat" => menu'.chat = clicked'.item[2]
        /\ menu'.open = "mark" => menu'.named = clicked'.item[2]
    BY <2>2 DEF MenuClicked
  <2>4. th["gtk"].pc \in {"idle"} \cup Draws
    BY <2>2 DEF MenuClicked
  <2>5. th'["gtk"].pc \in {"idle"} \cup Draws
    BY <2>2, <2>4, StepForms, BelowMenu DEF Stays
  <2>6. spoiled' = "reloading" => clicked'.stale
    BY <1>0, <2>2 DEF MenuClicked
  <2>7. ASSUME spoiled' = "no"
        PROVE  clicked'.stale \/ clicked'.item[1] = curr'
    <3>1. CASE spoiled = "reloading"
      BY <2>2, <3>1 DEF MenuClicked
    <3>2. CASE spoiled = "no"
      <4>1. clicked.stale \/ clicked.item[1] = curr
        BY <2>2, <3>2 DEF MenuClicked
      <4>2. curr' = curr
        <5>1. CASE Stays
          BY <5>1 DEF Stays
        <5>2. ASSUME NEW t \in Threads, ThreadStep(t)
              PROVE  curr' = curr
          <6>1. CASE ChatsSize(t)
            <7>1. t = "sse"
              BY <2>2, <2>4, <5>2, <6>1, BelowMenu DEF Threads
            <7>2. th["sse"].room = curr
              BY <3>2, <6>1, <7>1 DEF ChatsSize, In, ChatsCalm, CalmChats, Asks
            <7>3. QED
              BY <6>1, <7>1, <7>2 DEF ChatsSize
          <6>2. CASE ~ChatsSize(t)
            BY <1>0, <2>7, <5>2, <6>2, ChatsForms DEF ChatsAway, SkipsOne, Looks, Allocates,
               Copies, Starts, DrawsOne, Frees, Empties
          <6>3. QED
            BY <6>1, <6>2
        <5>3. QED
          BY <5>1, <5>2, StepForms
      <4>3. QED
        BY <2>2, <4>1, <4>2
    <3>3. QED
      BY <1>0, <2>7, <3>1, <3>2
  <2>8. QED
    BY <2>3, <2>5, <2>6, <2>7 DEF MenuClicked
<1>3. QED
  BY <1>1, <1>2

-----------------------------------------------------------------------------
(* Bad accesses.                                                           *)

(* How thread t may come to read what is not there. *)
BadAccess(t) ==
    \/ In(t, "chats", {"answer"}) /\ list["rooms"].data.ptr # "null" /\ ~Listed(th[t].room)
    \/ At(t, "copy") /\ Len(th[t].got) > Len(list[th[t].kind].data.items)
    \/ /\ At(t, "item") /\ Element(th[t].kind, th[t].i) = Junk
       /\ ~(th[t].kind = "chats" /\ list["chats"].data.ptr = "null")
    \/ t = "sse" /\ At(t, "idle") /\ Unreadable("rooms")
    \/ t = "gtk" /\ At(t, "idle") /\ Unreadable("chats")

(* A crash is a bad access and changes nothing else. *)
LEMMA CrashForms ==
  ASSUME Typed, Shape, Next, crashed = "no", crashed' # "no"
  PROVE  Stays /\ crashed' \in Threads /\ BadAccess(crashed')
<1>0. "gtk" \in Threads /\ "sse" \in Threads
  BY DEF Threads
<1>1. ASSUME NEW t \in Threads, Crash(t), BadAccess(t)
      PROVE  Stays /\ crashed' \in Threads /\ BadAccess(crashed')
  BY <1>1, CrashDoes DEF Stays
<1>2. CASE OthersChange \/ Invited \/ IfCurrent \/ IdleDraw \/ SelectRoom \/ AddRoom \/ RoomCreated
           \/ SendChat \/ RightClick \/ Dismiss \/ SendMark
  <2>1. IdleDraw => UNCHANGED crashed
    BY DEF IdleDraw, Begin
  <2>2. QED
    BY <1>2, <2>1 DEF OthersChange, Invited, IfCurrent, SelectRoom, AddRoom, RoomCreated,
       SendChat, RightClick, Dismiss, SendMark
<1>3. CASE HearPush
  <2>1. Begin("sse", "rooms", Head(pushes)) => UNCHANGED crashed
    BY DEF Begin
  <2>2. At("sse", "idle") /\ Unreadable("rooms") /\ Crash("sse")
    BY <1>3, <2>1, HearPushDoes
  <2>3. QED
    BY <1>0, <1>1, <2>2 DEF BadAccess
<1>4. CASE PickDelete \/ PickReact
  <2>1. At("gtk", "idle") /\ Unreadable("chats") /\ Crash("gtk")
    BY <1>4, PickDoes
  <2>2. QED
    BY <1>0, <1>1, <2>1 DEF BadAccess
<1>5. ASSUME NEW t \in Threads,
             \/ Serve(t) \/ Fail(t) \/ TakeRooms(t) \/ SetData(t) \/ DropData(t) \/ ZeroSize(t)
      PROVE  UNCHANGED crashed
  BY <1>5 DEF Serve, Fail, TakeRooms, SetData, DropData, ZeroSize
<1>6. ASSUME NEW t \in Threads, TakeChats(t)
      PROVE  Stays /\ crashed' \in Threads /\ BadAccess(crashed')
  <2>1. In(t, "chats", {"answer"}) /\ list["rooms"].data.ptr # "null" /\ ~Listed(th[t].room)
        /\ Crash(t)
    BY <1>6, TakeChatsDoes DEF In, At
  <2>2. QED
    BY <1>1, <2>1 DEF BadAccess
<1>7. ASSUME NEW t \in Threads, Copy(t)
      PROVE  Stays /\ crashed' \in Threads /\ BadAccess(crashed')
  <2>1. At(t, "copy") /\ Len(th[t].got) > Len(list[th[t].kind].data.items) /\ Crash(t)
    BY <1>7, CopyDoes
  <2>2. QED
    BY <1>1, <2>1 DEF BadAccess
<1>8. ASSUME NEW t \in Threads, DrawItem(t)
      PROVE  Stays /\ crashed' \in Threads /\ BadAccess(crashed')
  <2>1. /\ At(t, "item") /\ Element(th[t].kind, th[t].i) = Junk
        /\ ~(th[t].kind = "chats" /\ list["chats"].data.ptr = "null") /\ Crash(t)
    BY <1>8, DrawItemDoes
  <2>2. QED
    BY <1>1, <2>1 DEF BadAccess
<1>9. QED
  BY <1>2, <1>3, <1>4, <1>5, <1>6, <1>7, <1>8 DEF Next

(* The list of rooms is whole, but for a thread between its assignments.   *)
LEMMA RoomsWhole ==
  ASSUME Typed, Shape, RoomsMemory, CalmRooms, NEW t \in Threads,
         th[t].pc \notin {"copy"} \cup Drops, ~Fills(t, "rooms"),
         th[Other(t)].pc \notin {"alloc", "copy", "zero"},
         list["rooms"].size > 0
  PROVE  /\ Settled /\ list["rooms"].data.ptr = "heap" /\ Len(Rows) = list["rooms"].size
         /\ \A i \in DOMAIN Rows : \E r \in Rooms : Rows[i] = RoomItem(r)
<1>1. \A u \in Threads : u = t \/ u = Other(t)
  BY DEF Threads, Other
<1>2. "gtk" \in Threads /\ "sse" \in Threads
  BY DEF Threads
<1>3. ~Fills("gtk", "rooms") /\ ~In("gtk", "rooms", {"zero"})
  BY <1>1, <1>2 DEF Fills, In, Drops
<1>4. ~In("sse", "rooms", Drops)
  <2>1. list["rooms"].size # 0
    BY DEF Typed, Lists
  <2>2. QED
    BY <2>1 DEF CalmRooms
<1>5. Settled
  BY <1>3, <1>4 DEF Settled
<1>6. QED
  BY <1>5 DEF RoomsMemory

(* So is the list of messages. *)
LEMMA ChatsWhole ==
  ASSUME Typed, CalmChats, th["gtk"].pc \notin {"alloc", "copy"},
         th["sse"].pc \notin {"alloc", "copy"}
  PROVE  /\ Messages(Lines, curr, list["chats"].size)
         /\ list["chats"].size > 0 => list["chats"].data.ptr = "heap"
<1>1. \A u \in Threads : ~Fills(u, "chats")
  BY DEF Fills, In, Threads
<1>2. QED
  BY <1>1 DEF CalmChats

(* Without a meeting, nothing of this happens. *)
LEMMA NoBadAccess ==
  ASSUME Typed, Shape, RoomsMemory, RoomsKept, ~Tangle, CalmRooms, LoadAlone, spoiled = "no",
         CalmChats, ShownChats, NEW t \in Threads,
         th[Other(t)].pc \notin {"alloc", "copy", "zero"}
  PROVE  ~BadAccess(t)
<1>0. /\ "gtk" \in Threads /\ "sse" \in Threads /\ "rooms" \in Lists /\ "chats" \in Lists
      /\ \A u \in Threads : u = "gtk" \/ u = "sse"
      /\ th[t] \in Thread /\ th[t].got \in Seq(Items) /\ Other("gtk") = "sse" /\ Other("sse") = "gtk"
      /\ list["rooms"].size \in Nat /\ list["chats"].size \in Nat
      /\ list["rooms"].data.ptr \in {"wild", "null", "heap"}
      /\ Rows \in Seq(Items) /\ Lines \in Seq(Items)
      /\ th[t].kind \in Lists
      /\ \A k \in Lists : k = "rooms" \/ k = "chats"
  BY DEF Typed, Thread, Data, Threads, Lists, Other, Rows, Lines
<1>1. ASSUME In(t, "chats", {"answer"}), list["rooms"].data.ptr # "null", ~Listed(th[t].room)
      PROVE  FALSE
  <2>1. In(t, "chats", Asks) /\ ~Fills(t, "rooms") /\ th[t].pc \notin {"copy"} \cup Drops
    BY <1>1 DEF In, Asks, Fills, Drops
  <2>2. PICK r \in Rooms : r = th[t].room
    BY <2>1 DEF Shape
  <2>3. RoomKept(r)
    BY <2>1, <2>2 DEF RoomsKept, Wanted
  <2>4. list["rooms"].data.ptr = "heap"
    BY <1>0, <1>1, <2>3 DEF RoomKept
  <2>5. ~Fills("gtk", "rooms")
    BY <1>0, <2>1 DEF Fills, In
  <2>6. list["rooms"].size > 0
    BY <1>0, <2>4, <2>5 DEF CalmRooms
  <2>7. Settled /\ Len(Rows) = list["rooms"].size
    BY <2>1, <2>6, RoomsWhole
  <2>8. PICK i \in DOMAIN Rows : Rows[i] = RoomItem(r)
    BY <2>3, <2>6, <2>7 DEF RoomKept
  <2>9. i \in 1 .. list["rooms"].size /\ Element("rooms", i) = RoomItem(r)
    BY <1>0, <2>7, <2>8 DEF Element, Rows
  <2>10. QED
    BY <1>1, <2>2, <2>9 DEF Listed
<1>2. ASSUME At(t, "copy"), Len(th[t].got) > Len(list[th[t].kind].data.items)
      PROVE  FALSE
  <2>1. list[th[t].kind].data = Malloc(Len(th[t].got))
    <3>1. CASE th[t].kind = "rooms"
      <4>1. t = "gtk"
        BY <1>0, <1>2, <3>1 DEF Shape, At, Asks
      <4>2. QED
        BY <1>2, <3>1, <4>1 DEF CalmRooms, In, At
    <3>2. CASE th[t].kind = "chats"
      BY <1>2, <3>2 DEF LoadAlone, In, At
    <3>3. QED
      BY <1>0, <3>1, <3>2
  <2>2. Len(th[t].got) \in Nat
    BY <1>0
  <2>3. QED
    BY <1>2, <2>1, <2>2, MallocFacts
<1>3. ASSUME At(t, "item"), Element(th[t].kind, th[t].i) = Junk
      PROVE  FALSE
  <2>1. th[t].i \in 1 .. th[t].len /\ th[t].len \in Nat
    BY <1>0, <1>3 DEF Shape, At, Thread
  <2>2. CASE th[t].kind = "rooms"
    <3>1. th[t].len = list["rooms"].size /\ th[t].pc \notin {"copy"} \cup Drops /\ ~Fills(t, "rooms")
      BY <1>3, <2>2 DEF CalmRooms, In, At, Fills, Drops
    <3>2. list["rooms"].size > 0
      BY <1>0, <2>1, <3>1
    <3>3. /\ Len(Rows) = list["rooms"].size
          /\ \A i \in DOMAIN Rows : \E r \in Rooms : Rows[i] = RoomItem(r)
      BY <3>1, <3>2, RoomsWhole
    <3>4. th[t].i \in DOMAIN Rows
      BY <1>0, <2>1, <3>1, <3>3
    <3>5. PICK r \in Rooms : Rows[th[t].i] = RoomItem(r)
      BY <3>3, <3>4
    <3>6. Element("rooms", th[t].i) = RoomItem(r)
      BY <3>4, <3>5 DEF Element, Rows
    <3>7. QED
      BY <1>3, <2>2, <3>5, <3>6, ItemFacts
  <2>3. CASE th[t].kind = "chats"
    <3>1. t = "gtk" /\ In("gtk", "chats", {"item"})
      BY <1>0, <1>3, <2>3 DEF Shape, At, In, Draws
    <3>2. th["gtk"].len <= list["chats"].size
      BY <3>1 DEF ShownChats
    <3>3. Messages(Lines, curr, list["chats"].size)
      BY <1>0, <3>1, ChatsWhole DEF In
    <3>4. th["gtk"].i \in 1 .. list["chats"].size
      BY <1>0, <2>1, <3>1, <3>2
    <3>5. Element("chats", th["gtk"].i) = <<curr, th["gtk"].i - 1>>
      BY <1>0, <3>3, <3>4, LineIs
    <3>6. th["gtk"].i - 1 # None
      BY <1>0, <3>4 DEF None
    <3>7. QED
      BY <1>3, <2>3, <3>1, <3>5, <3>6 DEF Junk
  <2>4. QED
    BY <1>0, <2>2, <2>3
<1>4. ASSUME t = "sse", At(t, "idle"), Unreadable("rooms")
      PROVE  FALSE
  BY <1>0, <1>4, RoomsWhole DEF Unreadable, At, Fills, In, Drops
<1>5. ASSUME t = "gtk", At(t, "idle"), Unreadable("chats")
      PROVE  FALSE
  BY <1>0, <1>5, ChatsWhole DEF Unreadable, At
<1>6. QED
  BY <1>1, <1>2, <1>3, <1>4, <1>5 DEF BadAccess

(* So a crash is where the threads met. *)
LEMMA CrashWasRacedKept ==
  ASSUME Typed, Shape, RoomsMemory, RoomsKept, RoomsCalm, LoadAlone, ChatsCalm, ChatsShown,
         Next, Remember
  PROVE  CrashWasRaced'
<1>1. SUFFICES ASSUME crashed' # "no", ~Spoiled', ~tangled',
                      th'[Other(crashed')].pc \notin {"alloc", "copy", "zero"}
               PROVE  FALSE
  BY DEF CrashWasRaced
<1>2. crashed = "no"
  BY DEF Remember
<1>3. Stays /\ crashed' \in Threads /\ BadAccess(crashed')
  BY <1>1, <1>2, CrashForms
<1>4. ~tangled
  <2>1. ~DrawBegins
    BY <1>3 DEF Stays, DrawBegins, At
  <2>2. QED
    BY <1>1, <2>1, CalmHistory
<1>5. spoiled = "no"
  <2>1. spoiled' = "no"
    BY <1>1 DEF Spoiled
  <2>2. ~ \E t \in Threads : Copies(t, "chats")
    BY <1>3, IdleFields DEF Stays, Copies, In
  <2>3. QED
    BY <2>1, <2>2, GoodAgain
<1>6. th[Other(crashed')].pc \notin {"alloc", "copy", "zero"}
  BY <1>1, <1>3 DEF Stays
<1>7. QED
  BY <1>3, <1>4, <1>5, <1>6, NoBadAccess DEF RoomsCalm, ChatsCalm, ChatsShown

-----------------------------------------------------------------------------
(* The invariant.                                                          *)

(* The client starts with empty lists and asks for the rooms. *)
LEMMA InitInv ==
  ASSUME Init
  PROVE  PageInv
<1>0. /\ "gtk" \in Threads /\ "sse" \in Threads /\ "rooms" \in Lists /\ "chats" \in Lists
      /\ \A t \in Threads : t = "gtk" \/ t = "sse"
  BY DEF Threads, Lists
<1>1. /\ Asking("rooms", None) \in Thread
      /\ Asking("rooms", None).pc = "asked" /\ Asking("rooms", None).kind = "rooms"
      /\ Asking("rooms", None).room = None /\ Asking("rooms", None).got = <<>>
  BY <1>0, AskingFields
<1>2. /\ th \in [Threads -> Thread]
      /\ th["gtk"].pc = "asked" /\ th["gtk"].kind = "rooms" /\ th["gtk"].got = <<>>
      /\ th["sse"].pc = "idle" /\ th["sse"].kind = "chats"
  <2>1. th = [gtk |-> Asking("rooms", None), sse |-> Idle]
    BY DEF Init
  <2>2. th["gtk"] = Asking("rooms", None) /\ th["sse"] = Idle /\ DOMAIN th = Threads
    BY <2>1 DEF Threads
  <2>3. th = [t \in Threads |-> th[t]]
    BY <2>1, <2>2
  <2>4. \A t \in Threads : th[t] \in Thread
    BY <1>0, <1>1, <2>2, IdleFields
  <2>5. th \in [Threads -> Thread]
    BY <2>3, <2>4
  <2>6. QED
    BY <1>1, <2>2, <2>5, IdleFields
<1>3. /\ list \in [Lists -> [size : Nat, data : Data]]
      /\ list["rooms"].size = 0 /\ list["chats"].size = 0
      /\ list["rooms"].data.ptr = "wild" /\ Rows = <<>> /\ Lines = <<>>
  <2>1. Pointer("wild") \in Data /\ Pointer("wild").ptr = "wild" /\ Pointer("wild").items = <<>>
    BY PointerFacts
  <2>2. list = [k \in Lists |-> [size |-> 0, data |-> Pointer("wild")]]
    BY DEF Init
  <2>3. QED
    BY <1>0, <2>1, <2>2 DEF Rows, Lines
<1>4. box \in [Lists -> Seq(Items)] /\ box["rooms"] = <<>> /\ box["chats"] = <<>>
  BY <1>0 DEF Init
<1>5. /\ queued = {} /\ curr = None /\ menu = NoMenu /\ joined = FirstRooms
      /\ count = [r \in Rooms |-> 0] /\ pushes = <<>> /\ crashed = "no" /\ clicked = NoClick
      /\ spoiled = "no" /\ tangled = FALSE
  BY DEF Init
<1>6. Typed
  <2>1. NoClick \in [item : Items, stale : BOOLEAN]
    BY ItemFacts DEF NoClick
  <2>2. count \in [Rooms -> 0 .. MaxChats]
    BY <1>5, BoundsAssumption
  <2>3. joined \in Seq(Rooms) /\ pushes \in Seq(Rooms)
    BY <1>5, RoomsAssumption
  <2>4. /\ menu \in [open : {"none", "chat", "mark"}, chat : Chats, named : Chats]
        /\ clicked \in [item : Items, stale : BOOLEAN]
    BY <1>5, <2>1, NoMenuFacts
  <2>5. /\ queued \subseteq Lists /\ curr \in Rooms \cup {None}
        /\ crashed \in Threads \cup {"no"}
        /\ spoiled \in {"no", "yes", "reloading"} /\ tangled \in BOOLEAN
    BY <1>5
  <2>6. QED
    BY <1>2, <1>3, <1>4, <2>2, <2>3, <2>4, <2>5 DEF Typed
<1>7. Shape
  BY <1>0, <1>2 DEF Shape, In, Fills, Asks, Draws, Drops
<1>8. Unopened
  BY <1>0, <1>2, <1>3, <1>4, <1>5, NoMenuFacts DEF Unopened, In, Fills
<1>9. Bounded
  <2>1. 0 <= MaxChats /\ Len(<<>>) = 0
    BY BoundsAssumption
  <2>2. \A t \in Threads : ~In(t, "chats", {"answer", "alloc", "copy"})
    BY <1>0, <1>2 DEF In
  <2>3. ~In("gtk", "chats", {"item"})
    BY <1>2 DEF In
  <2>4. QED
    BY <1>3, <1>4, <2>1, <2>2, <2>3 DEF Bounded
<1>10. RoomsMemory
  BY <1>2, <1>3 DEF RoomsMemory, In, Fills
<1>11. RoomsKept
  <2>1. \A r \in Rooms : ~Wanted(r)
    <3>1. \A t \in Threads : ~In(t, "chats", Asks)
      BY <1>0, <1>2 DEF In, Asks
    <3>2. \A r \in Rooms : r # curr
      BY <1>5, ItemFacts
    <3>3. DOMAIN box["rooms"] = {} /\ DOMAIN Rows = {}
      BY <1>3, <1>4
    <3>4. QED
      BY <3>1, <3>2, <3>3 DEF Wanted
  <2>2. QED
    BY <1>2, <2>1 DEF RoomsKept, In
<1>12. RoomsCalm
  <2>1. ~Tangle
    BY <1>0, <1>2 DEF Tangle
  <2>2. CalmRooms
    BY <1>0, <1>2, <1>3, <1>4 DEF CalmRooms, In, Fills, Shows, AtRooms, Drops
  <2>3. QED
    BY <2>1, <2>2 DEF RoomsCalm
<1>13. LoadAlone
  BY <1>0, <1>2, <1>5 DEF LoadAlone, In, Fills, Meet, Reloading, At
<1>14. ChatsCalm /\ ChatsShown
  <2>1. Messages(<<>>, curr, 0)
    BY DEF Messages
  <2>2. CalmChats
    BY <1>0, <1>2, <1>3, <1>5, <2>1 DEF CalmChats, In, Fills, At, Asks, Drops
  <2>3. ShownChats
    BY <1>0, <1>2, <1>3, <1>4, <1>5, <2>1 DEF ShownChats, In
  <2>4. QED
    BY <2>2, <2>3 DEF ChatsCalm, ChatsShown
<1>15. MenuClicked /\ CrashWasRaced
  BY <1>5, NoMenuFacts DEF MenuClicked, CrashWasRaced
<1>16. QED
  BY <1>6, <1>7, <1>8, <1>9, <1>10, <1>11, <1>12, <1>13, <1>14, <1>15 DEF PageInv

(* Every step keeps it, part by part. *)
LEMMA StepInv ==
  ASSUME PageInv, [Next]_vars
  PROVE  PageInv'
<1>1. CASE Next
  <2>1. Remember
    BY <1>1, AsideTypes DEF Next, PageInv, Aside
  <2>2. QED
    BY <1>1, <2>1, TypedKept, ShapeKept, UnopenedKept, BoundedKept, RoomsMemoryKept,
       RoomsKeptKept, RoomsCalmKept, LoadAloneKept, ChatsCalmKept, ChatsShownKept,
       MenuClickedKept, CrashWasRacedKept DEF PageInv
<1>2. CASE UNCHANGED vars
  <2>1. UNCHANGED <<th, list, box, queued, curr, menu, joined, count, pushes, crashed,
                    clicked, spoiled, tangled>>
    BY <1>2 DEF vars, page, server, history
  <2>2. Typed' /\ Shape' /\ Unopened' /\ Bounded'
    BY <2>1 DEF PageInv, Typed, Shape, Unopened, Bounded, In, Fills
  <2>3. RoomsMemory' /\ RoomsKept'
    BY <2>1 DEF PageInv, RoomsMemory, RoomsKept, Settled, Rows, Wanted, RoomKept, In, Fills
  <2>4. RoomsCalm'
    BY <2>1 DEF PageInv, RoomsCalm, Tangle, CalmRooms, AtRooms, Shows, Rows, In, Fills
  <2>5. LoadAlone'
    BY <2>1 DEF PageInv, LoadAlone, Meet, Reloading, Pushed, In, Fills, At
  <2>6. ChatsCalm'
    BY <2>1 DEF PageInv, ChatsCalm, CalmChats, BusyWith, Pushed, Lines, OfRoom, In, Fills, At
  <2>7. ChatsShown' /\ MenuClicked' /\ CrashWasRaced'
    BY <2>1 DEF PageInv, ChatsShown, ShownChats, MenuClicked, CrashWasRaced, Spoiled, OfRoom,
       In, Fills
  <2>8. QED
    BY <2>2, <2>3, <2>4, <2>5, <2>6, <2>7 DEF PageInv
<1>3. QED
  BY <1>1, <1>2

(* The invariant holds in every state the page reaches. *)
THEOREM Invariant == Spec => []PageInv
BY InitInv, StepInv, PTL DEF Spec

(* The lists, widgets and menus keep their types, and the page never shows *)
(* more messages than there are: every draw removes the widgets first.     *)
THEOREM TypeCorrect == Spec => []TypeOK
<1>1. PageInv => TypeOK
  <2>1. SUFFICES ASSUME PageInv PROVE TypeOK
    OBVIOUS
  <2>2. Typed /\ Bounded
    BY <2>1 DEF PageInv
  <2>3. \A k \in Lists : \A i \in DOMAIN box[k] : box[k][i] \in Items
    <3>1. \A k \in Lists : box[k] \in Seq(Items)
      BY <2>2 DEF Typed
    <3>2. QED
      BY <3>1
  <2>4. QED
    BY <2>2, <2>3 DEF TypeOK, Typed, Bounded, Chats
<1>2. QED
  BY <1>1, Invariant, PTL

(* What is drawn from a list is the list. *)
LEMMA ShownIsSeen ==
  ASSUME Typed, NEW k \in Lists,
         Len(box[k]) = list[k].size,
         \A i \in 1 .. list[k].size : box[k][i] = list[k].data.items[i] /\ i \in DOMAIN list[k].data.items
  PROVE  box[k] = Seen(k)
<1>1. box[k] \in Seq(Items) /\ list[k].size \in Nat
  BY DEF Typed
<1>2. DOMAIN box[k] = 1 .. list[k].size /\ box[k] = [i \in 1 .. list[k].size |-> box[k][i]]
  BY <1>1
<1>3. \A i \in 1 .. list[k].size : Element(k, i) = box[k][i]
  BY DEF Element
<1>4. QED
  BY <1>2, <1>3 DEF Seen

(* At rest the widgets of both lists are those that were loaded, unless    *)
(* the two threads met at the list: the three assignments of a load, the   *)
(* draws of either thread and the failures of the server leave no other    *)
(* trace.                                                                  *)
THEOREM LoadedIsShown == Spec => []ScreenIsLoaded
<1>1. PageInv => ScreenIsLoaded
  <2>1. SUFFICES ASSUME PageInv, AtRest
                 PROVE  /\ box["chats"] = Seen("chats") \/ Spoiled
                        /\ box["rooms"] = Seen("rooms") \/ tangled
    BY DEF ScreenIsLoaded
  <2>2. /\ Typed /\ queued = {} /\ "chats" \in Lists /\ "rooms" \in Lists
        /\ \A t \in Threads : th[t].pc = "idle"
        /\ "gtk" \in Threads /\ "sse" \in Threads
        /\ Rows \in Seq(Items) /\ Lines \in Seq(Items)
        /\ list["rooms"].size \in Nat /\ list["chats"].size \in Nat
    BY <2>1 DEF PageInv, AtRest, Lists, Threads, At, Typed, Rows, Lines, Data
  <2>3. ASSUME ~Spoiled
        PROVE  box["chats"] = Seen("chats")
    <3>1. CalmChats /\ ShownChats
      BY <2>1, <2>3 DEF PageInv, ChatsCalm, ChatsShown, Spoiled
    <3>2. Messages(box["chats"], curr, list["chats"].size)
      BY <2>2, <3>1 DEF ShownChats, In, Fills
    <3>3. Messages(Lines, curr, list["chats"].size)
      BY <2>2, <3>1, ChatsWhole
    <3>4. Lines = list["chats"].data.items
      BY DEF Lines
    <3>5. /\ Len(box["chats"]) = list["chats"].size /\ Len(Lines) = list["chats"].size
          /\ \A i \in 1 .. list["chats"].size : box["chats"][i] = Lines[i]
      BY <3>2, <3>3 DEF Messages
    <3>6. \A i \in 1 .. list["chats"].size : i \in DOMAIN Lines
      BY <2>2, <3>5
    <3>7. QED
      BY <2>2, <3>4, <3>5, <3>6, ShownIsSeen
  <2>4. ASSUME ~tangled
        PROVE  box["rooms"] = Seen("rooms")
    <3>1. CalmRooms /\ RoomsMemory
      BY <2>1, <2>4 DEF PageInv, RoomsCalm
    <3>2. Shows(box["rooms"], Rows, list["rooms"].size)
      BY <2>2, <3>1 DEF CalmRooms, AtRooms, In
    <3>3. Settled
      BY <2>2 DEF Settled, Fills, In, Drops
    <3>4. list["rooms"].size > 0 => Len(Rows) = list["rooms"].size
      BY <3>1, <3>3 DEF RoomsMemory
    <3>5. Rows = list["rooms"].data.items
      BY DEF Rows
    <3>6. \A i \in 1 .. list["rooms"].size : i \in DOMAIN Rows
      BY <2>2, <3>4
    <3>7. QED
      BY <2>2, <3>2, <3>5, <3>6, ShownIsSeen DEF Shows
  <2>5. QED
    BY <2>3, <2>4
<1>2. QED
  BY <1>1, Invariant, PTL

(* At rest, with no push on its way, the messages on the page are those    *)
(* the server has for the open room, unless the threads met or the server  *)
(* failed since the last good load: IfCurrent reloads after every push.    *)
THEOREM CurrentIsShown == Spec => []QuietIsCurrent
<1>1. PageInv => QuietIsCurrent
  <2>1. SUFFICES ASSUME PageInv, AtRest, pushes = <<>>, curr # None, ~Spoiled
                 PROVE  box["chats"] = Snapshot("chats", curr)
    BY DEF QuietIsCurrent
  <2>2. /\ Typed /\ queued = {} /\ "chats" \in Lists
        /\ \A t \in Threads : th[t].pc = "idle"
        /\ "gtk" \in Threads /\ "sse" \in Threads
        /\ box["chats"] \in Seq(Items) /\ list["chats"].size \in Nat
        /\ CalmChats /\ ShownChats /\ curr \in Rooms
    BY <2>1 DEF PageInv, AtRest, Lists, Threads, At, Typed, ChatsCalm, ChatsShown, Spoiled
  <2>3. \A t \in Threads : ~Fills(t, "chats")
    BY <2>2 DEF Fills, In
  <2>4. list["chats"].size = count[curr]
    <3>1. ~Pushed(curr) /\ ~BusyWith(curr)
      BY <2>1, <2>2 DEF Pushed, BusyWith, At
    <3>2. QED
      BY <2>1, <2>2, <2>3, <3>1 DEF CalmChats
  <2>5. Messages(box["chats"], curr, count[curr])
    BY <2>2, <2>3, <2>4 DEF ShownChats, In
  <2>6. /\ DOMAIN box["chats"] = 1 .. count[curr]
        /\ box["chats"] = [i \in 1 .. count[curr] |-> box["chats"][i]]
    BY <2>2, <2>4, <2>5 DEF Messages
  <2>7. \A i \in 1 .. count[curr] : box["chats"][i] = <<curr, i - 1>>
    BY <2>5 DEF Messages
  <2>8. QED
    BY <2>6, <2>7 DEF Snapshot
<1>2. QED
  BY <1>1, Invariant, PTL

(* A bad access ends the client only where the threads met, or with the    *)
(* other thread between two assignments to a list: neither thread alone    *)
(* reads memory it has not filled, with any rooms, messages and failures.  *)
THEOREM CrashesAreRaces == Spec => []CrashWasRaced
<1>1. PageInv => CrashWasRaced
  BY DEF PageInv
<1>2. QED
  BY <1>1, Invariant, PTL

(* A deletion or reaction is sent with the number of the widget clicked,   *)
(* and in its room, whatever was drawn or loaded below the two menus.      *)
THEOREM ClickedIsNamed == Spec => []NamesTheClicked
<1>1. PageInv => NamesTheClicked
  BY DEF PageInv, MenuClicked, NamesTheClicked, Spoiled, Typed
<1>2. QED
  BY <1>1, Invariant, PTL

=============================================================================
