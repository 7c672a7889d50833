--------------------------- MODULE MCGenericFIFO ---------------------------
(***************************************************************************)
(* GenericFIFO with three or four cells, written and read in blocks of one *)
(* and two, so that blocks wrap around the end of the buffer.              *)
(***************************************************************************)
EXTENDS GenericFIFO
=============================================================================
