CONSTANTS
    Logins = {s1, s2, s3, s4}
    NULL = NULL
SPECIFICATION Spec
CHECK_DEADLOCK FALSE
INVARIANTS
    TypeOK
    NextIsYounger
    SoloStays
PROPERTIES
    LoopsEnd
