CONSTANTS
    Users = {u1, u2}
    Rooms = {0}
    ChatNos = {0, 1}
    Passwords = {p1}
    Reacts = {love}
    Threads = {t1, t2}
    NoThread = NoThread
    CallNames <- ChatCalls
    MaxChats = 2
    MaxRooms = 1
    Faulty = TRUE
SPECIFICATION Spec
SYMMETRY Symmetry
INVARIANTS
    TypeOK
    OwnerInside
    MaxIdIsMine
    ChatIdsDense
    LastReadInRange

    
