---------------------------- MODULE MCRigControl ----------------------------
(* Small instances of RigControl: two frequencies with a mode each.          *)
EXTENDS RigControl

MCModeOf == [f \in 1..2 |-> IF f = 1 THEN 11 ELSE 12]
=============================================================================
