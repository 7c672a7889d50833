SPECIFICATION PttSpec
CONSTANTS
    FullDuplex = TRUE
    Monitor = TRUE
    Repeats = 1
    Inputs = {"ptt"}
INVARIANT AudioOnlyWhenKeyed
CHECK_DEADLOCK FALSE
