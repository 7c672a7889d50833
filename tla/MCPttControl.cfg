SPECIFICATION PttSpec
CONSTANTS
    FullDuplex = TRUE
    Monitor = TRUE
    Repeats = 1
    Inputs = {"ptt", "space", "keyer", "tune", "close"}
INVARIANTS PttTypeOK ControlsAgree RigFollowsTx
 
CHECK_DEADLOCK FALSE
