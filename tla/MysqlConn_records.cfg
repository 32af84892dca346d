CONSTANTS
    Users = {u1}
    Rooms = {0}
    ChatNos = {0}
    Passwords = {p1, p2}
    Reacts = {love, like}
    Threads = {t1, t2}
    NoThread = NoThread
    CallNames <- RecordCalls
    MaxChats = 1
    MaxRooms = 2
    Faulty = TRUE
SPECIFICATION Spec
INVARIANTS
    RoomIdsPrivate
PROPERTIES
    ReactionKept
    HistoryGrows
    PasswordKept
    LockReleased
