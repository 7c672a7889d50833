--------------------------- MODULE ThreadedTimer ---------------------------
(***************************************************************************)
(* The timers of the program: src/src/util/ThreadedTimer.cpp on all        *)
(* platforms but macOS.  One server thread serves every timer from a       *)
(* priority queue; each timer is started, stopped and restarted by the     *)
(* thread of the object that owns it.                                      *)
(*                                                                         *)
(* No code holds two mutexes at once, so each section under mutex_ (the    *)
(* queue) or under timerMutex_ (one timer) is one action, and whatever the *)
(* code does between two sections is a step boundary.  The priority queue  *)
(* is a bag of timers: only which timer is due first matters.  Time is     *)
(* modelled by the distance to now: Tick brings every time point one unit  *)
(* closer.  The destruction of the server at program exit is not modelled. *)
(***************************************************************************)
EXTENDS Integers

CONSTANTS Timers,     \* every ThreadedTimer
          Repeating,  \* those with repeat_ = true
          Timeout,    \* timeoutMilliseconds_ of each timer
          MaxLate,    \* bound on how late the server may be for a timer
          MaxCopies   \* bound: start() of a timer queued this often is left out

ASSUME RepeatingAreTimers == Repeating \subseteq Timers
ASSUME TimeoutsPositive == Timeout \in [Timers -> Nat \ {0}]
ASSUME BoundsAreNat == MaxLate \in Nat /\ MaxCopies \in Nat

VARIABLES
    queued,     \* timerQueue_: how often each timer is in it
    nextFire,   \* nextFireTime_, as the time left until then
    isRunning,  \* isRunning_
    owner,      \* where the owner's start() or stop() is
    starting,   \* the owner is inside start()
    server,     \* where eventLoop_ is
    serving,    \* tmpTimer
    deadline,   \* the local nextFireTime of eventLoop_, as the time left
    stopped,    \* records that stop() returned and start() was not called since
    late        \* records the callbacks begun since stop() returned, up to 2

ownerVars  == <<owner, starting>>
serverVars == <<server, serving, deadline>>
vars == <<queued, nextFire, isRunning, ownerVars, serverVars, stopped, late>>

OneShot == Timers \ Repeating
OwnerIdle(t) == owner[t] = "idle"

TypeOK ==
    /\ queued \in [Timers -> Nat]
    /\ nextFire \in [Timers -> Int]
    /\ isRunning \in [Timers -> BOOLEAN]
    /\ owner \in [Timers -> {"idle", "unregister", "clear", "arm", "register"}]
    /\ starting \in [Timers -> BOOLEAN]
    /\ server \in {"scan", "waitEmpty", "peek", "relock", "waitUntil",
                   "rearm", "repush", "call"}
    /\ serving \in Timers
    /\ deadline \in Int
    /\ stopped \in [Timers -> BOOLEAN]
    /\ late \in [Timers -> 0..2]

Init ==
    /\ queued = [t \in Timers |-> 0]
    /\ nextFire = [t \in Timers |-> 0]
    /\ isRunning = [t \in Timers |-> FALSE]
    /\ owner = [t \in Timers |-> "idle"]
    /\ starting = [t \in Timers |-> FALSE]
    /\ server = "scan"
    /\ serving \in Timers
    /\ deadline = 0
    /\ stopped = [t \in Timers |-> FALSE]
    /\ late = [t \in Timers |-> 0]

InQueue == {t \in Timers : queued[t] > 0}
Closer(time) == IF time > -MaxLate THEN time - 1 ELSE time

(* A server that can run is never later than MaxLate for a timer in the    *)
(* queue; one that sleeps is as late as it makes itself.                   *)
Asleep == server = "waitEmpty" \/ (server = "waitUntil" /\ deadline > 0)

Tick ==
    /\ Asleep \/ \A t \in InQueue : nextFire[t] > -MaxLate
    /\ nextFire' = [t \in Timers |-> Closer(nextFire[t])]
    /\ deadline' = Closer(deadline)
    /\ UNCHANGED <<queued, isRunning, ownerVars, server, serving, stopped, late>>

-----------------------------------------------------------------------------
(* The owner: stop() is BeginStop [Unregister Clear]; start() is a stop()  *)
(* followed by Arm and Register; restart() is stop() and start().          *)

BeginStart(t) ==
    /\ OwnerIdle(t) /\ queued[t] < MaxCopies
    /\ owner' = [owner EXCEPT ![t] = IF isRunning[t] THEN "unregister" ELSE "arm"]
    /\ starting' = [starting EXCEPT ![t] = TRUE]
    /\ stopped' = [stopped EXCEPT ![t] = FALSE]
    /\ UNCHANGED <<queued, nextFire, isRunning, serverVars, late>>

Stopped(t) ==
    /\ stopped' = [stopped EXCEPT ![t] = TRUE]
    /\ late' = [late EXCEPT ![t] = 0]

BeginStop(t) ==
    /\ OwnerIdle(t)
    /\ IF isRunning[t]
       THEN owner' = [owner EXCEPT ![t] = "unregister"] /\ UNCHANGED <<stopped, late>>
       ELSE Stopped(t) /\ UNCHANGED owner
    /\ UNCHANGED <<queued, nextFire, isRunning, starting, serverVars>>

(* notify_one has an effect only if the server is waiting at that moment.  *)
Notify == server' = IF server \in {"waitEmpty", "waitUntil"} THEN "scan" ELSE server

(* Seeded bug: a timer that is not in the queue is taken out all the same. *)
UnregisterUnchecked(t) ==
    /\ owner[t] = "unregister"
    /\ queued' = [queued EXCEPT ![t] = @ - 1]
    /\ Notify
    /\ owner' = [owner EXCEPT ![t] = "clear"]
    /\ UNCHANGED <<nextFire, isRunning, starting, serving, deadline, stopped, late>>

(* unregisterTimer removes one occurrence of the timer, if there is any.   *)
Unregister(t) ==
    /\ owner[t] = "unregister"
    /\ queued' = [queued EXCEPT ![t] = IF @ > 0 THEN @ - 1 ELSE 0]
    /\ Notify
    /\ owner' = [owner EXCEPT ![t] = "clear"]
    /\ UNCHANGED <<nextFire, isRunning, starting, serving, deadline, stopped, late>>

(* Seeded bug: stop() does not clear isRunning_.                           *)
ClearNothing(t) ==
    /\ owner[t] = "clear"
    /\ owner' = [owner EXCEPT ![t] = IF starting[t] THEN "arm" ELSE "idle"]
    /\ IF starting[t] THEN UNCHANGED <<stopped, late>> ELSE Stopped(t)
    /\ UNCHANGED <<queued, nextFire, isRunning, starting, serverVars>>

Clear(t) ==
    /\ owner[t] = "clear"
    /\ isRunning' = [isRunning EXCEPT ![t] = FALSE]
    /\ owner' = [owner EXCEPT ![t] = IF starting[t] THEN "arm" ELSE "idle"]
    /\ IF starting[t] THEN UNCHANGED <<stopped, late>> ELSE Stopped(t)
    /\ UNCHANGED <<queued, nextFire, starting, serverVars>>

Arm(t) ==
    /\ owner[t] = "arm"
    /\ nextFire' = [nextFire EXCEPT ![t] = Timeout[t]]
    /\ isRunning' = [isRunning EXCEPT ![t] = TRUE]
    /\ owner' = [owner EXCEPT ![t] = "register"]
    /\ UNCHANGED <<queued, starting, serverVars, stopped, late>>

Register(t) ==
    /\ owner[t] = "register"
    /\ queued' = [queued EXCEPT ![t] = @ + 1]
    /\ Notify
    /\ owner' = [owner EXCEPT ![t] = "idle"]
    /\ starting' = [starting EXCEPT ![t] = FALSE]
    /\ UNCHANGED <<nextFire, isRunning, serving, deadline, stopped, late>>

Owner(t) == Unregister(t) \/ Clear(t) \/ Arm(t) \/ Register(t)

-----------------------------------------------------------------------------
(* eventLoop_ *)

Top(t) == t \in InQueue /\ \A u \in InQueue : nextFire[t] <= nextFire[u]

(* Seeded bug: the timer taken stays in the queue.                         *)
TakeAndKeep ==
    /\ server = "scan"
    /\ \E t \in Timers :
          /\ Top(t) /\ nextFire[t] <= 0
          /\ serving' = t
          /\ IF t \in Repeating
             THEN server' = "rearm" /\ UNCHANGED isRunning
             ELSE server' = "call" /\ isRunning' = [isRunning EXCEPT ![t] = FALSE]
    /\ UNCHANGED <<queued, nextFire, ownerVars, deadline, stopped, late>>

(* With mutex_ held and a timer due: take it.  A one-shot timer is marked  *)
(* as stopped at once; a repeating one is rearmed after mutex_ is dropped. *)
TakeDue ==
    /\ server = "scan"
    /\ \E t \in Timers :
          /\ Top(t) /\ nextFire[t] <= 0
          /\ queued' = [queued EXCEPT ![t] = @ - 1]
          /\ serving' = t
          /\ IF t \in Repeating
             THEN server' = "rearm" /\ UNCHANGED isRunning
             ELSE server' = "call" /\ isRunning' = [isRunning EXCEPT ![t] = FALSE]
    /\ UNCHANGED <<nextFire, ownerVars, deadline, stopped, late>>

(* With mutex_ held and none due: wait if there is no timer, else drop     *)
(* mutex_ to read the first timer's time under its own mutex.              *)
LookAhead ==
    /\ server = "scan"
    /\ \A t \in InQueue : nextFire[t] > 0
    /\ IF InQueue = {}
       THEN server' = "waitEmpty" /\ UNCHANGED serving
       ELSE server' = "peek" /\ \E t \in Timers : Top(t) /\ serving' = t
    /\ UNCHANGED <<queued, nextFire, isRunning, ownerVars, deadline, stopped, late>>

Peek ==
    /\ server = "peek"
    /\ deadline' = nextFire[serving]
    /\ server' = "relock"
    /\ UNCHANGED <<queued, nextFire, isRunning, ownerVars, serving, stopped, late>>

WaitUntil ==
    /\ server = "relock"
    /\ server' = "waitUntil"
    /\ UNCHANGED <<queued, nextFire, isRunning, ownerVars, serving, deadline, stopped, late>>

(* Seeded bug: the wait has no deadline.                                   *)
NoDeadline == FALSE /\ UNCHANGED vars

DeadlineReached ==
    /\ server = "waitUntil" /\ deadline <= 0
    /\ server' = "scan"
    /\ UNCHANGED <<queued, nextFire, isRunning, ownerVars, serving, deadline, stopped, late>>

Rearm ==
    /\ server = "rearm"
    /\ nextFire' = [nextFire EXCEPT ![serving] = @ + Timeout[serving]]
    /\ server' = "repush"
    /\ UNCHANGED <<queued, isRunning, ownerVars, serving, deadline, stopped, late>>

Repush ==
    /\ server = "repush"
    /\ queued' = [queued EXCEPT ![serving] = @ + 1]
    /\ server' = "call"
    /\ UNCHANGED <<nextFire, isRunning, ownerVars, serving, deadline, stopped, late>>

(* fn_ runs with no mutex held; then the queue is scanned again.           *)
Call ==
    /\ server = "call"
    /\ late' = [late EXCEPT ![serving] =
                   IF stopped[serving] /\ @ < 2 THEN @ + 1 ELSE @]
    /\ server' = "scan"
    /\ UNCHANGED <<queued, nextFire, isRunning, ownerVars, serving, deadline, stopped>>

Server ==
    \/ TakeDue \/ LookAhead \/ Peek \/ WaitUntil
    \/ DeadlineReached \/ Rearm \/ Repush \/ Call

Next ==
    \/ Tick
    \/ \E t \in Timers : BeginStart(t) \/ BeginStop(t) \/ Owner(t)
    \/ Server

SafeSpec == Init /\ [][Next]_vars

(* Time passes, the server runs when it can, and a start() or stop() that  *)
(* has begun ends.  Nothing obliges an owner to begin one.                 *)
Fairness ==
    /\ WF_vars(Tick)
    /\ WF_vars(Server)
    /\ \A t \in Timers : WF_vars(Owner(t))

Spec == SafeSpec /\ Fairness

-----------------------------------------------------------------------------
(* Properties *)

(* A one-shot timer whose owner is not inside start() or stop() is in the  *)
(* queue exactly once if it is marked as running and not at all otherwise, *)
(* whatever the server does meanwhile: stop() then always finds it.        *)
OneShotConsistent ==
    \A t \in OneShot : OwnerIdle(t) => queued[t] = IF isRunning[t] THEN 1 ELSE 0

(* What stop() gives the owner of a one-shot timer: at most the callback   *)
(* the server was about to make (138-140) begins after stop() returned.    *)
StopLeavesAtMostOneCall == \A t \in OneShot : late[t] <= 1

(* The server waits without a deadline (97) only when there is no timer.   *)
EmptyWaitIsSafe == server = "waitEmpty" => InQueue = {}

Serves(t) == server \in {"rearm", "call"} /\ serving = t

(* No timer is forgotten: one that is in the queue is eventually served    *)
(* unless its owner intervenes, although a notification that arrives while *)
(* the server has dropped mutex_ (102-107) is lost.                        *)
NoTimerForgotten ==
    \A t \in Timers :
        queued[t] > 0 /\ OwnerIdle(t) ~> Serves(t) \/ ~OwnerIdle(t)

=============================================================================
