---------------------------- MODULE StationView ----------------------------
(***************************************************************************)
(* What a station that reports itself to FreeDV Reporter promises about    *)
(* the picture the server has of it.  The station edits its own fields     *)
(* (each edit is a new version, numbered from 1) and hides or shows        *)
(* itself; the server's picture starts empty with every session and then   *)
(* only moves forward, towards what the station wants at that moment.      *)
(***************************************************************************)
EXTENDS Naturals

CONSTANT Fields

VARIABLES wanted,   \* for each field, the version the station wants shown
          hidden,   \* whether it wants to be hidden
          seen,     \* for each field, the version the server has, or 0
          shown     \* whether the server shows the station

vars == <<wanted, hidden, seen, shown>>

Blank == [f \in Fields |-> 0]

Init ==
    /\ wanted = [f \in Fields |-> 1]
    /\ hidden \in BOOLEAN
    /\ seen = Blank
    /\ shown = TRUE

Edit(f) ==
    /\ wanted'[f] \in Nat /\ wanted'[f] > wanted[f]
    /\ wanted' = [wanted EXCEPT ![f] = wanted'[f]]
    /\ UNCHANGED <<hidden, seen, shown>>

Hide == hidden' = TRUE /\ UNCHANGED <<wanted, seen, shown>>
Show == hidden' = FALSE /\ UNCHANGED <<wanted, seen, shown>>

(* A lost connection takes the picture with it.                            *)
NewSession ==
    /\ seen' = Blank
    /\ shown' = TRUE
    /\ UNCHANGED <<wanted, hidden>>

(* The server learns a version the station has wanted, never an older one  *)
(* than it already has.                                                    *)
Learn(f) ==
    /\ \E v \in seen[f]..wanted[f] : seen' = [seen EXCEPT ![f] = v]
    /\ UNCHANGED <<wanted, hidden, shown>>

LearnHidden == shown' = FALSE /\ UNCHANGED <<wanted, hidden, seen>>
LearnShown == shown' = TRUE /\ UNCHANGED <<wanted, hidden, seen>>

Next ==
    \/ \E f \in Fields : Edit(f) \/ Learn(f)
    \/ Hide \/ Show \/ NewSession \/ LearnHidden \/ LearnShown

Spec == Init /\ [][Next]_vars
=============================================================================
