------------------------ MODULE ThreadedTimer_proofs ------------------------
(***************************************************************************)
(* Proofs about ThreadedTimer, for any set of timers, any timeouts and any *)
(* bounds: type correctness, and what the lock-free windows of eventLoop_  *)
(* leave true of one-shot timers.                                          *)
(***************************************************************************)
EXTENDS ThreadedTimer, TLAPS

(* Where a one-shot timer is, for each place its owner may have reached:   *)
(* only between Arm and Register is it marked as running without being in  *)
(* the queue, and only eventLoop_ takes it out while the owner is idle or  *)
(* about to enter unregisterTimer.                                         *)
Placed(t) ==
    /\ owner[t] \in {"idle", "unregister"} =>
          queued[t] = IF isRunning[t] THEN 1 ELSE 0
    /\ owner[t] \in {"clear", "arm", "register"} => queued[t] = 0
    /\ owner[t] = "arm" => ~isRunning[t]
    /\ owner[t] = "register" => isRunning[t]

(* A stopped one-shot timer is out of the queue, so the only callback that *)
(* can still begin is the one the server has already decided on.           *)
Spent(t) ==
    /\ stopped[t] => owner[t] = "idle" /\ ~isRunning[t]
    /\ late[t] <= 1
    /\ stopped[t] /\ late[t] = 1 => ~(server = "call" /\ serving = t)

(* Only repeating timers are rearmed.                                      *)
RearmsRepeating == server \in {"rearm", "repush"} => serving \in Repeating

(* The inductive invariant.                                                *)
TimerInv ==
    /\ TypeOK
    /\ RearmsRepeating
    /\ EmptyWaitIsSafe
    /\ \A t \in OneShot : Placed(t) /\ Spent(t)

-----------------------------------------------------------------------------
(* The initial state satisfies the inductive invariant.                    *)
LEMMA InitTimerInv == Init => TimerInv
  BY RepeatingAreTimers
  DEF Init, TimerInv, TypeOK, RearmsRepeating, EmptyWaitIsSafe, InQueue,
      OneShot, Placed, Spent

(* Every step preserves the types.                                         *)
LEMMA TypeStep == TypeOK /\ [Next]_vars => TypeOK'
<1> SUFFICES ASSUME TypeOK, [Next]_vars PROVE TypeOK'
  OBVIOUS
<1> USE DEF TypeOK, ownerVars, serverVars
<1>a. ASSUME NEW t \in Timers, Stopped(t)
      PROVE  stopped' \in [Timers -> BOOLEAN] /\ late' \in [Timers -> 0..2]
  BY <1>a DEF Stopped
<1>b. \A t \in Timers : Timeout[t] \in Int
  BY TimeoutsPositive
<1>1. CASE Tick
  BY <1>1, BoundsAreNat DEF Tick, Closer
<1>2. CASE \E t \in Timers : BeginStart(t)
  BY <1>2 DEF BeginStart
<1>3. CASE \E t \in Timers : BeginStop(t)
  <2> PICK t \in Timers : BeginStop(t)
    BY <1>3
  <2>1. stopped' \in [Timers -> BOOLEAN] /\ late' \in [Timers -> 0..2]
    BY <1>a DEF BeginStop
  <2>2. owner' \in [Timers -> {"idle", "unregister", "clear", "arm", "register"}]
    BY DEF BeginStop
  <2> QED
    BY <2>1, <2>2 DEF BeginStop
<1>4. CASE \E t \in Timers : Unregister(t)
  BY <1>4 DEF Unregister, Notify
<1>5. CASE \E t \in Timers : Clear(t)
  <2> PICK t \in Timers : Clear(t)
    BY <1>5
  <2>1. stopped' \in [Timers -> BOOLEAN] /\ late' \in [Timers -> 0..2]
    BY <1>a DEF Clear
  <2>2. owner' \in [Timers -> {"idle", "unregister", "clear", "arm", "register"}]
    BY DEF Clear
  <2>3. isRunning' \in [Timers -> BOOLEAN]
    BY DEF Clear
  <2> QED
    BY <2>1, <2>2, <2>3 DEF Clear
<1>6. CASE \E t \in Timers : Arm(t)
  <2> PICK t \in Timers : Arm(t)
    BY <1>6
  <2>1. nextFire' \in [Timers -> Int]
    BY <1>b DEF Arm
  <2>2. isRunning' \in [Timers -> BOOLEAN]
    BY DEF Arm
  <2> QED
    BY <2>1, <2>2 DEF Arm
<1>7. CASE \E t \in Timers : Register(t)
  BY <1>7 DEF Register, Notify
<1>8. CASE TakeDue
  <2> PICK t \in Timers :
          /\ queued[t] > 0
          /\ queued' = [queued EXCEPT ![t] = @ - 1]
          /\ serving' = t
          /\ IF t \in Repeating
             THEN server' = "rearm" /\ UNCHANGED isRunning
             ELSE server' = "call" /\ isRunning' = [isRunning EXCEPT ![t] = FALSE]
    BY <1>8 DEF TakeDue, Top, InQueue
  <2>1. queued' \in [Timers -> Nat]
    OBVIOUS
  <2>2. isRunning' \in [Timers -> BOOLEAN]
    OBVIOUS
  <2> QED
    BY <1>8, <2>1, <2>2 DEF TakeDue
<1>9. CASE LookAhead
  BY <1>9 DEF LookAhead
<1>10. CASE Peek
  BY <1>10 DEF Peek
<1>11. CASE WaitUntil \/ DeadlineReached
  BY <1>11 DEF WaitUntil, DeadlineReached
<1>12. CASE Rearm
  BY <1>12, <1>b DEF Rearm
<1>13. CASE Repush
  BY <1>13 DEF Repush
<1>14. CASE Call
  BY <1>14 DEF Call
<1>15. CASE UNCHANGED vars
  BY <1>15 DEF vars
<1> QED
  BY <1>1, <1>2, <1>3, <1>4, <1>5, <1>6, <1>7, <1>8, <1>9, <1>10, <1>11,
     <1>12, <1>13, <1>14, <1>15 DEF Next, Owner, Server

(* Every step keeps the server from waiting for ever with a timer queued:  *)
(* whoever pushes a timer while it waits wakes it.                         *)
LEMMA EmptyWaitStep ==
    TypeOK /\ EmptyWaitIsSafe /\ [Next]_vars => EmptyWaitIsSafe'
<1> SUFFICES ASSUME TypeOK, EmptyWaitIsSafe, [Next]_vars PROVE EmptyWaitIsSafe'
  OBVIOUS
<1> USE DEF EmptyWaitIsSafe, InQueue
<1>1. CASE \E t \in Timers : Unregister(t) \/ Register(t)
  BY <1>1 DEF Unregister, Register, Notify
<1>2. CASE Tick \/ \E t \in Timers : BeginStart(t) \/ BeginStop(t) \/ Clear(t) \/ Arm(t)
  BY <1>2 DEF Tick, BeginStart, BeginStop, Clear, Arm, serverVars
<1>3. CASE Server
  BY <1>3 DEF Server, TakeDue, LookAhead, Peek, WaitUntil, DeadlineReached,
              Rearm, Repush, Call
<1>4. CASE UNCHANGED vars
  BY <1>4 DEF vars, serverVars
<1> QED
  BY <1>1, <1>2, <1>3, <1>4 DEF Next, Owner

(* Every step keeps RearmsRepeating.                                       *)
LEMMA RearmStep == RearmsRepeating /\ [Next]_vars => RearmsRepeating'
<1> SUFFICES ASSUME RearmsRepeating, [Next]_vars PROVE RearmsRepeating'
  OBVIOUS
<1> USE DEF RearmsRepeating
<1>1. CASE \E t \in Timers : Unregister(t) \/ Register(t)
  BY <1>1 DEF Unregister, Register, Notify
<1>2. CASE Tick \/ \E t \in Timers : BeginStart(t) \/ BeginStop(t) \/ Clear(t) \/ Arm(t)
  BY <1>2 DEF Tick, BeginStart, BeginStop, Clear, Arm, serverVars
<1>3. CASE Server
  BY <1>3 DEF Server, TakeDue, LookAhead, Peek, WaitUntil, DeadlineReached,
              Rearm, Repush, Call
<1>4. CASE UNCHANGED vars
  BY <1>4 DEF vars, serverVars
<1> QED
  BY <1>1, <1>2, <1>3, <1>4 DEF Next, Owner

(* Every step preserves what is said of one one-shot timer: a step of its  *)
(* owner, of another timer's owner, or of the server.                      *)
LEMMA OneShotStep ==
    ASSUME TimerInv, [Next]_vars, NEW t \in OneShot
    PROVE  Placed(t)' /\ Spent(t)'
<1> USE DEF Placed, Spent, TypeOK
<1>0. Placed(t) /\ Spent(t) /\ t \in Timers /\ t \notin Repeating /\ TypeOK /\ RearmsRepeating
  BY DEF TimerInv, OneShot
<1>1. CASE Tick
  BY <1>0, <1>1 DEF Tick, ownerVars
<1>2. ASSUME NEW u \in Timers, BeginStart(u) PROVE Placed(t)' /\ Spent(t)'
  BY <1>0, <1>2 DEF BeginStart, OwnerIdle, serverVars
<1>3. ASSUME NEW u \in Timers, BeginStop(u) PROVE Placed(t)' /\ Spent(t)'
  BY <1>0, <1>3 DEF BeginStop, Stopped, OwnerIdle, serverVars
<1>4. ASSUME NEW u \in Timers, Unregister(u) PROVE Placed(t)' /\ Spent(t)'
  BY <1>0, <1>4 DEF Unregister, Notify
<1>5. ASSUME NEW u \in Timers, Clear(u) PROVE Placed(t)' /\ Spent(t)'
  BY <1>0, <1>5 DEF Clear, Stopped, serverVars
<1>6. ASSUME NEW u \in Timers, Arm(u) PROVE Placed(t)' /\ Spent(t)'
  BY <1>0, <1>6 DEF Arm, serverVars
<1>7. ASSUME NEW u \in Timers, Register(u) PROVE Placed(t)' /\ Spent(t)'
  BY <1>0, <1>7 DEF Register, Notify
<1>8. CASE TakeDue
  BY <1>0, <1>8 DEF TakeDue, Top, InQueue, ownerVars
<1>9. CASE LookAhead \/ Peek \/ WaitUntil \/ DeadlineReached
  BY <1>0, <1>9 DEF LookAhead, Peek, WaitUntil, DeadlineReached, ownerVars
<1>10. CASE Rearm
  BY <1>0, <1>10 DEF Rearm, ownerVars
<1>11. CASE Repush
  BY <1>0, <1>11 DEF Repush, ownerVars, RearmsRepeating
<1>12. CASE Call
  BY <1>0, <1>12 DEF Call, ownerVars
<1>13. CASE UNCHANGED vars
  BY <1>0, <1>13 DEF vars, ownerVars, serverVars
<1> QED
  BY <1>1, <1>2, <1>3, <1>4, <1>5, <1>6, <1>7, <1>8, <1>9, <1>10, <1>11,
     <1>12, <1>13 DEF Next, Owner, Server

(* The invariant is inductive.                                             *)
LEMMA NextTimerInv == TimerInv /\ [Next]_vars => TimerInv'
<1> SUFFICES ASSUME TimerInv, [Next]_vars PROVE TimerInv'
  OBVIOUS
<1>1. TypeOK' /\ EmptyWaitIsSafe' /\ RearmsRepeating'
  BY TypeStep, EmptyWaitStep, RearmStep DEF TimerInv
<1>2. \A t \in OneShot : Placed(t)' /\ Spent(t)'
  BY OneShotStep
<1> QED
  BY <1>1, <1>2 DEF TimerInv, OneShot

(* The invariant holds throughout.                                         *)
THEOREM TimerInductive == SafeSpec => []TimerInv
  BY InitTimerInv, NextTimerInv, PTL DEF SafeSpec

-----------------------------------------------------------------------------
(* The variables keep their types.                                         *)
THEOREM TimerTypes == SafeSpec => []TypeOK
<1>1. TimerInv => TypeOK
  BY DEF TimerInv
<1> QED
  BY <1>1, TimerInductive, PTL

(* When stop() or start() of a one-shot timer has returned, isRunning_ and *)
(* the queue agree about it, whichever window of eventLoop_ they met.      *)
THEOREM OneShotConsistentHolds == SafeSpec => []OneShotConsistent
<1>1. TimerInv => OneShotConsistent
  BY DEF TimerInv, Placed, OneShotConsistent, OwnerIdle
<1> QED
  BY <1>1, TimerInductive, PTL

(* At most the callback that eventLoop_ had already decided on begins      *)
(* after stop() of a one-shot timer has returned.                          *)
THEOREM AtMostOneCallHolds == SafeSpec => []StopLeavesAtMostOneCall
<1>1. TimerInv => StopLeavesAtMostOneCall
  BY DEF TimerInv, Spent, StopLeavesAtMostOneCall
<1> QED
  BY <1>1, TimerInductive, PTL

(* eventLoop_ waits without a deadline only when no timer is queued.       *)
THEOREM EmptyWaitIsSafeHolds == SafeSpec => []EmptyWaitIsSafe
<1>1. TimerInv => EmptyWaitIsSafe
  BY DEF TimerInv
<1> QED
  BY <1>1, TimerInductive, PTL
=============================================================================
