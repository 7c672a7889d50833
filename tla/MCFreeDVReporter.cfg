SPECIFICATION Spec
CONSTANTS
    NFields = 2
    MaxConn = 2
    MaxEdits = 3
INVARIANTS TypeOK ConvergedWhenSettled
PROPERTIES ImplementsView EventuallyReported
CHECK_DEADLOCK FALSE
