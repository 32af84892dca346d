SPECIFICATION Spec
CONSTANTS
    Rooms <- TwoRooms
    FirstRooms <- OneRoom
    MaxChats = 1
    MaxPushes = 1
    Failing = {"rooms", "chats"}
INVARIANTS
    TypeOK
    ScreenIsLoaded
    QuietIsCurrent
    
    
CHECK_DEADLOCK FALSE
