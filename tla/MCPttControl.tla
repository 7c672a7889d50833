---------------------------- MODULE MCPttControl ----------------------------
(* Small instances of PttControl: one repeat of the voice keyer file.        *)
EXTENDS PttControl
=============================================================================
