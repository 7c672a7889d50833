-------------------------- MODULE MCThreadedTimer --------------------------
(* ThreadedTimer with one repeating and one one-shot timer, as the ping    *)
(* timer and the reconnect timer of a reporting connection.                *)
EXTENDS ThreadedTimer

CONSTANTS ping, reconnect

MCTimers == {ping, reconnect}
MCRepeating == {ping}
MCTimeout == [t \in MCTimers |-> IF t = ping THEN 2 ELSE 1]
=============================================================================
