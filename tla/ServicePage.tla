---------------------------- MODULE ServicePage -----------------------------
(***************************************************************************)
(* The service page of the GTK client: the two lists it has loaded, the    *)
(* widgets drawn from them, and the menus on a message.  The GTK thread    *)
(* runs callbacks and, when it is idle, the draw functions queued with     *)
(* g_idle_add; the SSE thread handles pushes.  Neither takes a lock, and   *)
(* every assignment to the lists is a step.                                *)
(*                                                                         *)
(* The server answers a reload with the rooms or messages of that moment   *)
(* and pushes every change of a room.  A request is taken up when it is    *)
(* sent.  Each thread gets the reply to its own request: that they take    *)
(* each other's is the subject of ClientRpc.                               *)
(*                                                                         *)
(* Left out: what an item shows besides its number; the reply box; the     *)
(* search and emoji windows.  A callback reads a list in one step.         *)
(***************************************************************************)
EXTENDS Integers, Sequences

CONSTANTS
    Rooms,      \* ids of the rooms the user may come to be in
    FirstRooms, \* the rooms of the user at the login, in the order of the list
    MaxChats,   \* bound: messages of a room
    MaxPushes,  \* bound: pushes on their way
    Failing     \* the reloads the server may fail to answer, or to read a table for

ASSUME RoomsAssumption == Rooms \subseteq Nat /\ FirstRooms \in Seq(Rooms)
ASSUME BoundsAssumption == MaxChats \in Nat /\ MaxPushes \in Nat
ASSUME FailingAssumption == Failing \subseteq {"rooms", "chats"}

VARIABLES
    th,      \* per thread: where it is, and the locals of its function
    list,    \* room_list_size and _data, chat_list_size and _data
    box,     \* the widgets in service_page->room_list and ->chat_list
    queued,  \* draw functions added with g_idle_add
    curr,    \* curr_room_id
    menu,    \* the menu that is up, curr_chat_id of the first and of the second
    joined,  \* server: the rooms of the user
    count,   \* server: the number of messages of each room
    pushes,  \* CHAT_UPDATED on their way, by room
    crashed, \* the thread that ended the client by a bad access
    clicked, \* history: the widget the menu is for, and was it out of date?
    spoiled, \* history: threads met at the messages, or the server failed
    tangled  \* history: both threads were at the list of rooms

page == <<th, list, box, queued, curr>>
server == <<joined, count, pushes>>
history == <<clicked, spoiled, tangled>>
vars == <<page, menu, server, crashed, history>>

Threads == {"gtk", "sse"}
Other(t) == IF t = "gtk" THEN "sse" ELSE "gtk"
Lists == {"rooms", "chats"}

(* An item of either list, and so a widget: a room, or a message of one.   *)
None == -1
Junk == <<None, None>>
RoomItem(r) == <<r, None>>
Items == {<<r, n>> : r \in Rooms, n \in {None} \cup 0 .. MaxChats - 1} \cup {Junk}

(* The memory room_list_data or chat_list_data points to.                  *)
Pointer(p) == [ptr |-> p, items |-> <<>>]
Malloc(n) == [ptr |-> "heap", items |-> [i \in 1 .. n |-> Junk]]

Idle == [pc |-> "idle", kind |-> "chats", room |-> None, got |-> <<>>, i |-> 0, len |-> 0]
Asking(kind, r) == [Idle EXCEPT !.pc = "asked", !.kind = kind, !.room = r]

NoMenu == [open |-> "none", chat |-> None, named |-> None]
NoClick == [item |-> Junk, stale |-> FALSE]

(* recv_cmd_login has started the SSE thread and calls reload_service_page.*)
Init ==
    /\ th = [gtk |-> Asking("rooms", None), sse |-> Idle]
    /\ list = [k \in Lists |-> [size |-> 0, data |-> Pointer("wild")]]
    /\ box = [k \in Lists |-> <<>>]
    /\ queued = {}
    /\ curr = None
    /\ menu = NoMenu
    /\ joined = FirstRooms
    /\ count = [r \in Rooms |-> 0]
    /\ pushes = <<>>
    /\ crashed = "no"
    /\ clicked = NoClick
    /\ spoiled = "no"
    /\ tangled = FALSE

At(t, p) == th[t].pc = p
Goto(t, p) == th' = [th EXCEPT ![t].pc = p]
Rest(t) == th' = [th EXCEPT ![t] = Idle]
Crash(t) == crashed' = t /\ UNCHANGED page

Unreadable(k) == list[k].size > 0 /\ list[k].data.ptr # "heap"
Element(k, i) ==
    IF i \in DOMAIN list[k].data.items THEN list[k].data.items[i] ELSE Junk
Listed(r) == \E i \in 1 .. list["rooms"].size : Element("rooms", i) = RoomItem(r)
-----------------------------------------------------------------------------
(* The server: an answer, and changes made by others, or by this user.     *)
Snapshot(kind, r) ==
    IF kind = "rooms" THEN [i \in DOMAIN joined |-> RoomItem(joined[i])]
    ELSE [i \in 1 .. count[r] |-> <<r, i - 1>>]

(* A table that cannot be read gives an empty list and the answer OK.      *)
Serve(t) ==
    /\ At(t, "asked")
    /\ \/ th' = [th EXCEPT ![t].pc = "answer",
                           ![t].got = Snapshot(th[t].kind, th[t].room)]
       \/ th[t].kind \in Failing /\ Goto(t, "answer")
       \/ th[t].kind \in Failing /\ Goto(t, "failed")
    /\ UNCHANGED <<list, box, queued, curr, menu, server, crashed>>

(* A message (new), or a reaction or deletion, in room r. *)
Change(r, new) ==
    /\ Len(pushes) < MaxPushes
    /\ pushes' = Append(pushes, r)
    /\ IF new THEN count[r] < MaxChats /\ count' = [count EXCEPT ![r] = @ + 1]
       ELSE UNCHANGED count
    /\ UNCHANGED joined

OthersChange ==
    /\ \E i \in DOMAIN joined, new \in BOOLEAN : Change(joined[i], new)
    /\ UNCHANGED <<page, menu, crashed>>

NewRoom == \E r \in Rooms :
    /\ \A i \in DOMAIN joined : joined[i] < r
    /\ joined' = Append(joined, r)

Invited ==
    /\ NewRoom
    /\ UNCHANGED <<page, menu, count, pushes, crashed>>
-----------------------------------------------------------------------------
(* reload_room_list and reload_chat_list.                                  *)
Fail(t) ==
    /\ At(t, "failed")
    /\ Rest(t)
    /\ box' = [k \in Lists |-> IF k \in {"chats", th[t].kind} THEN <<>> ELSE box[k]]
    /\ UNCHANGED <<list, queued, curr, menu, server, crashed>>

(* Rooms: the widgets go; an empty answer drops the list.                  *)
SetSize(t) == list' = [list EXCEPT ![th[t].kind].size = Len(th[t].got)]

TakeRooms(t) ==
    /\ At(t, "answer") /\ th[t].kind = "rooms"
    /\ box' = [box EXCEPT !["rooms"] = <<>>]
    /\ IF th[t].got = <<>> THEN Goto(t, "null") /\ UNCHANGED list
       ELSE Goto(t, "alloc") /\ SetSize(t)
    /\ UNCHANGED <<queued, curr, menu, server, crashed>>

(* Messages: the room is switched, and its name looked for in the list of  *)
(* rooms.  Without that list there are no messages either; without the     *)
(* room in it the name is an uninitialised pointer.                        *)
TakeChats(t) ==
    /\ At(t, "answer") /\ th[t].kind = "chats"
    /\ \/ /\ list["rooms"].data.ptr = "null"
          /\ curr' = th[t].room
          /\ box' = [box EXCEPT !["chats"] = <<>>]
          /\ Rest(t)
          /\ UNCHANGED <<list, queued, crashed>>
       \/ /\ list["rooms"].data.ptr # "null" /\ ~Unreadable("rooms")
          /\ curr' = th[t].room
          /\ SetSize(t)
          /\ Goto(t, "alloc")
          /\ UNCHANGED <<box, queued, crashed>>
       \/ /\ list["rooms"].data.ptr # "null" /\ ~Listed(th[t].room)
          /\ Crash(t)
    /\ UNCHANGED <<menu, server>>

SetData(t) ==
    /\ At(t, "alloc")
    /\ list' = [list EXCEPT ![th[t].kind].data = Malloc(Len(th[t].got))]
    /\ Goto(t, "copy")
    /\ UNCHANGED <<box, queued, curr, menu, server, crashed>>

(* memcpy to wherever the pointer leads by now, and g_idle_add.            *)
Copied(t) ==
    LET data == list[th[t].kind].data IN
    [i \in 1 .. IF Len(data.items) > Len(th[t].got) THEN Len(data.items) ELSE Len(th[t].got)
       |-> IF i \in DOMAIN th[t].got THEN th[t].got[i] ELSE data.items[i]]

(* After the rooms the messages of the first one, if its id is above 0.    *)
AfterLoad(t) ==
    IF th[t].kind = "rooms" /\ Head(th[t].got)[1] > 0
    THEN Asking("chats", Head(th[t].got)[1]) ELSE Idle

(* Slip: the new messages are not drawn. *)
CopyUndrawn(t) ==
    /\ At(t, "copy") /\ list[th[t].kind].data.ptr = "heap"
    /\ list' = [list EXCEPT ![th[t].kind].data.items = Copied(t)]
    /\ th' = [th EXCEPT ![t] = AfterLoad(t)]
    /\ UNCHANGED <<box, queued, curr, crashed, menu, server>>

Copy(t) ==
    LET data == list[th[t].kind].data
        got == th[t].got
    IN
    /\ At(t, "copy")
    /\ \/ /\ data.ptr = "heap" \/ got = <<>>
          /\ list' = [list EXCEPT ![th[t].kind].data.items = Copied(t)]
          /\ queued' = queued \cup {th[t].kind}
          /\ th' = [th EXCEPT ![t] = AfterLoad(t)]
          /\ UNCHANGED <<box, curr, crashed>>
       \/ Len(got) > Len(data.items) /\ Crash(t)
    /\ UNCHANGED <<menu, server>>
-----------------------------------------------------------------------------
(* draw_room_list and draw_chat_list. *)
(* Slip: the widgets are not removed first. *)
BeginOnTop(t, k, r) ==
    /\ th' = [th EXCEPT ![t] = [@ EXCEPT !.pc = IF list[k].size = 0 THEN "null" ELSE "item",
                                         !.kind = k, !.room = r, !.i = 1, !.len = list[k].size]]
    /\ UNCHANGED <<box, list, curr, menu, joined, count, crashed>>

Begin(t, k, r) ==
    /\ box' = [box EXCEPT ![k] = <<>>]
    /\ th' = [th EXCEPT ![t] = [@ EXCEPT !.pc = IF list[k].size = 0 THEN "null" ELSE "item",
                                         !.kind = k, !.room = r, !.i = 1, !.len = list[k].size]]
    /\ UNCHANGED <<list, curr, menu, joined, count, crashed>>

AfterDraw(t) == [Idle EXCEPT !.pc = IF t = "sse" THEN "drawn" ELSE "idle", !.room = th[t].room]

(* Reading behind the end of the array may end the client or give junk.    *)
DrawItem(t) ==
    LET k == th[t].kind
        item == Element(k, th[t].i)
        past == [th[t] EXCEPT !.i = th[t].i + 1]
        next == [th EXCEPT ![t] = IF @.i = @.len THEN AfterDraw(t) ELSE past]
    IN
    /\ At(t, "item")
    /\ \/ /\ list[k].data.ptr = "heap"
          /\ box' = [box EXCEPT ![k] = Append(@, item)]
          /\ th' = next
          /\ UNCHANGED <<list, queued, curr, crashed>>
       \/ /\ k = "chats" /\ list[k].data.ptr = "null"
          /\ th' = next
          /\ UNCHANGED <<box, list, queued, curr, crashed>>
       \/ /\ item = Junk /\ ~(k = "chats" /\ list[k].data.ptr = "null")
          /\ Crash(t)
    /\ UNCHANGED <<menu, server>>

(* An empty list: the pointer first, then the size. *)
DropData(t) ==
    /\ At(t, "null")
    /\ list' = [list EXCEPT ![th[t].kind].data = Pointer("null")]
    /\ Goto(t, "zero")
    /\ UNCHANGED <<box, queued, curr, menu, server, crashed>>

(* Slip: the size stays. *)
KeepSize(t) ==
    /\ At(t, "zero")
    /\ th' = [th EXCEPT ![t] = AfterDraw(t)]
    /\ UNCHANGED <<list, box, queued, curr, menu, server, crashed>>

ZeroSize(t) ==
    /\ At(t, "zero")
    /\ list' = [list EXCEPT ![th[t].kind].size = 0]
    /\ th' = [th EXCEPT ![t] = AfterDraw(t)]
    /\ UNCHANGED <<box, queued, curr, menu, server, crashed>>

(* The GTK thread draws when it has nothing else to do, under a menu too.  *)
IdleDraw ==
    /\ At("gtk", "idle")
    /\ \E k \in queued : Begin("gtk", k, None) /\ queued' = queued \ {k}
    /\ UNCHANGED pushes
-----------------------------------------------------------------------------
(* recv_cmd_chat_updated: the room is looked for in the list, the list     *)
(* drawn at once, and the messages loaded if the room is the current one.  *)
HearPush ==
    /\ At("sse", "idle") /\ pushes # <<>>
    /\ \/ /\ ~Unreadable("rooms")
          /\ pushes' = Tail(pushes)
          /\ Begin("sse", "rooms", Head(pushes))
          /\ UNCHANGED queued
       \/ /\ Unreadable("rooms")
          /\ Crash("sse")
          /\ UNCHANGED <<menu, server>>

(* Slip: the room list is thought to be enough. *)
LeaveMessages ==
    /\ At("sse", "drawn")
    /\ Rest("sse")
    /\ UNCHANGED <<list, box, queued, curr, menu, server, crashed>>

IfCurrent ==
    /\ At("sse", "drawn")
    /\ th' = [th EXCEPT !["sse"] = IF @.room = curr THEN Asking("chats", curr) ELSE Idle]
    /\ UNCHANGED <<list, box, queued, curr, menu, server, crashed>>
-----------------------------------------------------------------------------
(* Callbacks of the page: a room is clicked, or a new one asked for.       *)
Spoiled == spoiled # "no"

Free == At("gtk", "idle") /\ menu.open = "none"

SelectRoom ==
    /\ Free
    /\ \E i \in DOMAIN box["rooms"] :
          /\ box["rooms"][i] # Junk
          /\ th' = [th EXCEPT !["gtk"] = Asking("chats", box["rooms"][i][1])]
    /\ UNCHANGED <<list, box, queued, curr, menu, server, crashed>>

AddRoom ==
    /\ Free
    /\ Goto("gtk", "create")
    /\ UNCHANGED <<list, box, queued, curr, menu, server, crashed>>

(* The server answers OK also when it could not insert the room: left out, *)
(* as the same rooms are only loaded again.                                *)
RoomCreated ==
    /\ At("gtk", "create")
    /\ \/ NewRoom /\ th' = [th EXCEPT !["gtk"] = Asking("rooms", None)]
       \/ Failing # {} /\ UNCHANGED joined /\ Rest("gtk")
    /\ UNCHANGED <<list, box, queued, curr, menu, count, pushes, crashed>>

(* Messages are sent once a room is shown: before, curr_room_id holds      *)
(* whatever was there.                                                     *)
SendChat ==
    /\ Free /\ curr # None
    /\ Change(curr, TRUE)
    /\ UNCHANGED <<page, menu, crashed>>
-----------------------------------------------------------------------------
(* The menus on a message.  While one is up the page gets no clicks, but   *)
(* the lists may be drawn and loaded below it.                             *)
RightClick ==
    /\ Free
    /\ \E i \in DOMAIN box["chats"] :
          /\ box["chats"][i] # Junk
          /\ menu' = [menu EXCEPT !.open = "chat", !.chat = box["chats"][i][2]]
          /\ clicked' = [item |-> box["chats"][i], stale |-> Spoiled \/ "chats" \in queued]
    /\ UNCHANGED <<page, server, crashed>>

Picking == menu.open = "chat" /\ At("gtk", "idle")

(* The callbacks look for the message in the list, which need not be what  *)
(* is on the screen.                                                       *)
Places(id) == {i \in 1 .. list["chats"].size : Element("chats", i)[2] = id}

(* Slip: the number is read when the first menu has closed and cleared it. *)
PickLate ==
    /\ Picking
    /\ IF Unreadable("chats") THEN Crash("gtk") /\ UNCHANGED menu
       ELSE /\ menu' = [open |-> "mark", chat |-> None, named |-> None]
            /\ UNCHANGED <<page, crashed>>
    /\ UNCHANGED server

(* Delete opens a second menu; react opens a popover that hangs on the     *)
(* widget at the place of the message in the list, if there is one.        *)
PickDelete ==
    /\ Picking
    /\ IF Unreadable("chats") THEN Crash("gtk") /\ UNCHANGED menu
       ELSE /\ menu' = [open |-> "mark", chat |-> None, named |-> menu.chat]
            /\ UNCHANGED <<page, crashed>>
    /\ UNCHANGED server

Anchor(id) == Places(id) \cap DOMAIN box["chats"]
ShowReactions == menu' = [open |-> "mark", chat |-> None, named |-> menu.chat]

PickReact ==
    /\ Picking
    /\ IF Unreadable("chats") THEN Crash("gtk") /\ UNCHANGED menu
       ELSE /\ IF Anchor(menu.chat) = {} THEN menu' = NoMenu ELSE ShowReactions
            /\ UNCHANGED <<page, crashed>>
    /\ UNCHANGED server

Dismiss ==
    /\ menu.open # "none" /\ At("gtk", "idle")
    /\ menu' = NoMenu
    /\ UNCHANGED <<page, server, crashed>>

(* A reaction, or a deletion, of curr_chat_id of that menu in curr_room_id.*)
SendMark ==
    /\ menu.open = "mark" /\ At("gtk", "idle")
    /\ Change(curr, FALSE)
    /\ menu' = NoMenu
    /\ UNCHANGED <<page, crashed>>
-----------------------------------------------------------------------------
(* History.  The threads meet when the GTK thread loads the messages, or   *)
(* drops them, while the SSE thread is at work; a load that begins with    *)
(* nothing left to draw, and ends without a meeting, makes that good.  For *)
(* the rooms it is the next draw of a list that is not empty.              *)
Reloading(t, k) == th[t].kind = k /\ th[t].pc \notin {"idle", "create", "drawn", "item"}
Meet == Reloading("gtk", "chats") /\ ~At("sse", "idle")
Tangle == \A t \in Threads :
    th[t].kind = "rooms" /\ th[t].pc \in {"alloc", "copy", "null", "zero", "item"}

Failed == \E t \in Threads :
    \/ At(t, "asked") /\ th'[t].pc = "answer" /\ th'[t].got # Snapshot(th[t].kind, th[t].room)
    \/ th[t].pc \in {"failed", "answer"} /\ th'[t].pc = "idle"

LoadBegins == \E t \in Threads : ~At(t, "asked") /\ th'[t].pc = "asked" /\ th'[t].kind = "chats"
DrawBegins == \E t \in Threads :
    ~At(t, "item") /\ th'[t].pc = "item" /\ th'[t].kind = "rooms"

AtEase == menu.open = "none" /\ "chats" \notin queued /\ ~At("gtk", "item")
Loaded == \E t \in Threads : At(t, "copy") /\ th[t].kind = "chats" /\ "chats" \in queued'

Remember ==
    /\ crashed = "no"
    /\ spoiled' = IF Meet' \/ Failed THEN "yes"
                  ELSE IF spoiled = "yes" /\ LoadBegins /\ AtEase THEN "reloading"
                  ELSE IF spoiled = "reloading" /\ Loaded THEN "no"
                  ELSE spoiled
    /\ tangled' = (Tangle' \/ Failed \/ (tangled /\ ~DrawBegins))

Aside == clicked' = (IF menu'.open = "none" THEN NoClick ELSE clicked) /\ Remember

Next ==
    \/ (OthersChange /\ Aside) \/ (Invited /\ Aside)
    \/ (HearPush /\ Aside) \/ (IfCurrent /\ Aside)
    \/ (IdleDraw /\ Aside)
    \/ (SelectRoom /\ Aside) \/ (AddRoom /\ Aside) \/ (RoomCreated /\ Aside)
    \/ (SendChat /\ Aside)
    \/ (RightClick /\ Remember)
    \/ (PickDelete /\ Aside) \/ (PickReact /\ Aside)
    \/ (Dismiss /\ Aside) \/ (SendMark /\ Aside)
    \/ \E t \in Threads :
          \/ (Serve(t) /\ Aside) \/ (Fail(t) /\ Aside)
          \/ (TakeRooms(t) /\ Aside) \/ (TakeChats(t) /\ Aside)
          \/ (SetData(t) /\ Aside) \/ (Copy(t) /\ Aside)
          \/ (DrawItem(t) /\ Aside) \/ (DropData(t) /\ Aside) \/ (ZeroSize(t) /\ Aside)

Spec == Init /\ [][Next]_vars
-----------------------------------------------------------------------------
(* The types, and that the page never shows more messages than there are:  *)
(* remove_all_children goes before every draw (gtk_utils.c:409).           *)
TypeOK ==
    /\ curr \in Rooms \cup {None}
    /\ queued \subseteq Lists
    /\ \A k \in Lists : \A i \in DOMAIN box[k] : box[k][i] \in Items
    /\ Len(box["chats"]) <= MaxChats
    /\ menu.open \in {"none", "chat", "mark"}
    /\ {menu.chat, menu.named} \subseteq {None} \cup 0 .. MaxChats - 1
    /\ crashed \in Threads \cup {"no"}

AtRest == crashed = "no" /\ queued = {} /\ \A t \in Threads : At(t, "idle")
Seen(k) == [i \in 1 .. list[k].size |-> Element(k, i)]

(* When neither thread runs and no draw is queued, the widgets show the    *)
(* lists that were loaded, item by item: size, pointer and contents, set   *)
(* one after the other (gtk_utils.c:110), agree by then.                   *)
ScreenIsLoaded == AtRest =>
    /\ box["chats"] = Seen("chats") \/ Spoiled
    /\ box["rooms"] = Seen("rooms") \/ tangled

(* When besides no push is on its way, the messages shown are those the    *)
(* server has for curr_room_id: pushes alone keep the page up to date.     *)
QuietIsCurrent == AtRest /\ pushes = <<>> /\ curr # None /\ ~Spoiled =>
    box["chats"] = Snapshot("chats", curr)

(* Without a lock the client dies of a bad access only when the other      *)
(* thread is, or was, between the assignments to the size and the pointer; *)
(* one thread alone never reads a list it has not filled.                  *)
CrashWasRaced == crashed # "no" =>
    Spoiled \/ tangled \/ th[Other(crashed)].pc \in {"alloc", "copy", "zero"}

(* The number a deletion or reaction is sent with is that of the widget    *)
(* clicked, and curr_room_id still its room, whatever was loaded or drawn  *)
(* below the menu: get_clicked_chat_id and the copies of curr_chat_id.     *)
NamesTheClicked == menu.open = "mark" =>
    /\ menu.named = clicked.item[2]
    /\ clicked.item[1] = curr \/ clicked.stale \/ Spoiled
=============================================================================
