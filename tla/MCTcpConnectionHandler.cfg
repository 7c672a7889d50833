SPECIFICATION Spec
CONSTANTS
    MaxConn = 2
    MaxQueue = 3
INVARIANTS TypeOK SingleAttempt NeverTerminates RetryPending 
PROPERTIES KeepsTrying 
CHECK_DEADLOCK FALSE
