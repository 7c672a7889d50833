SPECIFICATION Spec
CONSTANTS
    MaxConn = 2
    MaxQueue = 3
INVARIANT DisconnectedWhenReleased
CHECK_DEADLOCK FALSE
