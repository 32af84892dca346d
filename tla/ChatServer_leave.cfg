CONSTANTS
    u1 = u1
    u2 = u2
    p1 = p1
    c1 = c1
    c2 = c2
    Users = {u1, u2}
    Rooms = {0}
    ChatNos = {0, 1}
    Passwords = {p1}
    Reacts = {love}
    Fds = {4, 5, 6, 7}
    Clients = {c1, c2}
    Person <- OnePersonEach
    NoUser = NoUser
    Freed = Freed
    Types <- Chatting
    InitDb <- OneRoom
    MaxStarts = 2
    MaxSessions = 2
    MaxChats = 2
    MaxRooms = 1
    DbFaulty = FALSE
    Leaving = TRUE
SPECIFICATION Spec
CHECK_DEADLOCK FALSE
INVARIANTS
    ActsAsOwner
    
    
