----------------------------- MODULE MCEndOfOver -----------------------------
(* Small instance of EndOfOver: the EOO is longer than a frame of speech, as *)
(* it is in RADE, and outfifo1 has room for one frame besides it.            *)
EXTENDS EndOfOver
=============================================================================
