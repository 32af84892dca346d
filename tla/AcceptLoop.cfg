CONSTANTS
    Conns = {k1, k2, k3, k4}
    None = None
    MaxClient = 4
SPECIFICATION Spec
CHECK_DEADLOCK FALSE
INVARIANTS
    TypeOK
    
    WorkersLimited
PROPERTIES
    ConnectionsAccepted
