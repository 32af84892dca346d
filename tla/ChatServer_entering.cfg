CONSTANTS
    u1 = u1
    u2 = u2
    p1 = p1
    c1 = c1
    c2 = c2
    Users = {u1, u2}
    Rooms = {0, 1}
    ChatNos = {0}
    Passwords = {p1}
    Reacts = {love}
    Fds = {4, 5, 6, 7}
    Clients = {c1, c2}
    Person <- SecondContested
    NoUser = NoUser
    Freed = Freed
    Types <- Entering
    InitDb <- OneAccount
    MaxStarts = 2
    MaxSessions = 2
    MaxChats = 1
    MaxRooms = 2
    DbFaulty = TRUE
    Leaving = FALSE
SPECIFICATION Spec
CHECK_DEADLOCK FALSE
INVARIANTS
    SessionsRegistered
    RoomFilled
    ActsAsOwner
