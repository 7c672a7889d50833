---------------------------- MODULE MCModemOnOff ----------------------------
(* Instances of ModemOnOff: one or two sound cards, or always two.           *)
EXTENDS ModemOnOff
=============================================================================
