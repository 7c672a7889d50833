SPECIFICATION Spec
CONSTANT Cards = {1, 2}
INVARIANTS TypeOK WorkersAreServed 
PROPERTIES Completes
\* The window may be destroyed.
CHECK_DEADLOCK FALSE
