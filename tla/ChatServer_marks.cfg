CONSTANTS
    u1 = u1
    u2 = u2
    p1 = p1
    c1 = c1
    c2 = c2
    Users = {u1, u2}
    Rooms = {0}
    ChatNos = {0}
    Passwords = {p1}
    Reacts = {love, like}
    Fds = {4, 5, 6, 7}
    Clients = {c1, c2}
    Person <- OnePersonEach
    NoUser = NoUser
    Freed = Freed
    Types <- Marking
    InitDb <- OneMessage
    MaxStarts = 2
    MaxSessions = 2
    MaxChats = 1
    MaxRooms = 1
    DbFaulty = FALSE
    Leaving = FALSE
SPECIFICATION Spec
CHECK_DEADLOCK FALSE
INVARIANTS
    ChangeStored
    
