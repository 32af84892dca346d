CONSTANTS
    Rooms <- RoomIds
    NoRoom <- Nowhere
    Types = {"UPDATE_CHAT_LIST", "CREATE_ROOM", "SEND_CHAT"}
    QueueCap = 2
    PushCap = 1
    MaxSurplus = 1
    Failing = TRUE
SPECIFICATION Spec
CHECK_DEADLOCK FALSE
INVARIANTS
    TypeOK
    Balance
    AloneGetsOwn
PROPERTIES
    OneGetsThrough
