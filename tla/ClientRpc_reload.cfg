CONSTANTS
    Rooms <- RoomIds
    NoRoom <- Nowhere
    Types = {"UPDATE_CHAT_LIST", "SEND_CHAT"}
    QueueCap = 2
    PushCap = 1
    MaxSurplus = 0
    Failing = FALSE
SPECIFICATION Spec
CHECK_DEADLOCK FALSE
PROPERTIES
    CurrentRoomUpdated
