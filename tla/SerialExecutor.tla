--------------------------- MODULE SerialExecutor ---------------------------
(***************************************************************************)
(* What a ThreadedObject promises to the classes derived from it           *)
(* (src/src/util/ThreadedObject.h): code handed to enqueue_ runs on one    *)
(* other thread, one task at a time, in the order in which it was          *)
(* accepted and at most once; once the executor is closed no further task  *)
(* begins, and what was still pending is discarded.                        *)
(*                                                                         *)
(* This is the abstract specification.  ThreadedObject (deque, mutex,      *)
(* condition variable, destructor) implements it.                          *)
(***************************************************************************)
EXTENDS Naturals, Sequences

CONSTANTS Tasks,   \* the pieces of code that may be submitted
          None     \* "no task", not a member of Tasks

VARIABLES submitted,  \* every task accepted so far, in order
          pending,    \* accepted, not begun, in order
          begun,      \* every task begun so far, in order
          running,    \* the task being run, or None
          closed      \* no further task may begin

vars == <<submitted, pending, begun, running, closed>>

Init ==
    /\ submitted = << >>
    /\ pending = << >>
    /\ begun = << >>
    /\ running = None
    /\ closed = FALSE

(* A task is accepted at most once. *)
Submit(t) ==
    /\ \A i \in 1..Len(submitted) : submitted[i] # t
    /\ submitted' = Append(submitted, t)
    /\ pending' = Append(pending, t)
    /\ UNCHANGED <<begun, running, closed>>

Start ==
    /\ ~closed
    /\ running = None
    /\ pending # << >>
    /\ running' = Head(pending)
    /\ begun' = Append(begun, Head(pending))
    /\ pending' = Tail(pending)
    /\ UNCHANGED <<submitted, closed>>

Finish ==
    /\ running # None
    /\ running' = None
    /\ UNCHANGED <<submitted, pending, begun, closed>>

(* Closing discards what is pending, save perhaps the task that was about  *)
(* to begin, which Discard takes care of.                                  *)
Close ==
    /\ ~closed
    /\ closed' = TRUE
    /\ \/ pending' = << >>
       \/ pending # << >> /\ pending' = <<Head(pending)>>
    /\ UNCHANGED <<submitted, begun, running>>

Discard ==
    /\ closed
    /\ pending # << >>
    /\ pending' = Tail(pending)
    /\ UNCHANGED <<submitted, begun, running, closed>>

Next ==
    \/ \E t \in Tasks : Submit(t)
    \/ Start
    \/ Finish
    \/ Close
    \/ Discard

Spec == Init /\ [][Next]_vars

-----------------------------------------------------------------------------

(* Until it is closed the executor neither loses, duplicates nor reorders  *)
(* a task: what was accepted is what has begun followed by what is pending.*)
ServedInOrder == ~closed => submitted = begun \o pending
=============================================================================
