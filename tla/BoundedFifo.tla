---------------------------- MODULE BoundedFifo ----------------------------
(***************************************************************************)
(* What the audio FIFO promises one writer, one reader and whoever resets  *)
(* it: a bounded first-in first-out queue.  The elements put are numbered  *)
(* in their order, so what comes out can be compared with what went in.  A *)
(* reset that overlaps neither a write nor a read empties the queue; one   *)
(* that does leaves it undefined until the next that does not.             *)
(***************************************************************************)
EXTENDS Naturals, Sequences

CONSTANT Capacity

VARIABLES items,   \* what has been put and not yet got
          put,     \* number of elements put
          out,     \* what the last Get returned
          intact   \* the queue is defined

vars == <<items, put, out, intact>>

Init == items = << >> /\ put = 0 /\ out = << >> /\ intact = TRUE

Put ==
    /\ intact
    /\ \E n \in 1..(Capacity - Len(items)) :
          /\ items' = items \o [i \in 1..n |-> put + i]
          /\ put' = put + n
    /\ UNCHANGED <<out, intact>>

Get ==
    /\ intact
    /\ \E n \in 1..Len(items) :
          /\ out' = SubSeq(items, 1, n)
          /\ items' = SubSeq(items, n + 1, Len(items))
    /\ UNCHANGED <<put, intact>>

Clear == items' = << >> /\ intact' = TRUE /\ UNCHANGED <<put, out>>

Break == items' = << >> /\ intact' = FALSE /\ UNCHANGED <<put, out>>

Undefined == ~intact /\ UNCHANGED <<items, intact>>

Next == Put \/ Get \/ Clear \/ Break \/ Undefined

Spec == Init /\ [][Next]_vars
=============================================================================
