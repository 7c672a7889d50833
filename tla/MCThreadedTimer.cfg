SPECIFICATION Spec
CONSTANTS
    ping = ping
    reconnect = reconnect
    Timers <- MCTimers
    Repeating <- MCRepeating
    Timeout <- MCTimeout
    MaxLate = 1
    MaxCopies = 2
INVARIANTS TypeOK OneShotConsistent StopLeavesAtMostOneCall
PROPERTY NoTimerForgotten
