-------------------------- MODULE MCFreeDVReporter --------------------------
(***************************************************************************)
(* FreeDVReporter with two fields, two connections and three calls of the  *)
(* user interface at any moments.                                          *)
(***************************************************************************)
EXTENDS FreeDVReporter
=============================================================================
