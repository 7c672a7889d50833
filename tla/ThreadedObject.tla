--------------------------- MODULE ThreadedObject ---------------------------
(***************************************************************************)
(* The event queue every long-lived object of the program is built on:     *)
(* src/src/util/ThreadedObject.{h,cpp}, the implementation used on all     *)
(* platforms but macOS.  One worker thread runs eventLoop_; any number of  *)
(* threads call enqueue_, and so may the task that is running; one thread  *)
(* destroys the object.                                                    *)
(*                                                                         *)
(* eventQueueMutex_ is held only inside the straight-line sections of the  *)
(* code, so each section is one action; a step boundary stands wherever    *)
(* the code holds no lock.  No class of the program passes a parent to the *)
(* constructor, so the object always owns its thread.                      *)
(*                                                                         *)
(* The destructor of a derived class calls waitForAllTasksComplete_ before *)
(* its members die ("derivedWait" .. "derivedGone"); ~ThreadedObject calls *)
(* it once more ("baseWait" .. "baseWaited").                              *)
(***************************************************************************)
EXTENDS Naturals, Sequences

CONSTANTS Clients,   \* threads other than the worker that call enqueue_
          Self,      \* the worker, calling enqueue_ from the task it runs
          Tasks,     \* one value per call of enqueue_ (bounds the model)
          None,      \* "no task"
          MaxPolls   \* MAX_TIMEOUT_COUNT

ASSUME SelfIsNoClient == Self \notin Clients
ASSUME NoneNotTask == None \notin Tasks
ASSUME MaxPollsIsNat == MaxPolls \in Nat

VARIABLES
    queue,       \* eventQueue_
    suppress,    \* suppressEnqueue_
    destroying,  \* isDestroying_
    worker,      \* where eventLoop_ is
    current,     \* fn: the task taken from the queue, or None
    callPc,      \* for each caller, where its enqueue_ is
    callArg,     \* for each caller, the task it is passing
    phase,       \* how far destruction has come
    count,       \* waitForAllTasksComplete_: count
    polls,       \* waitForAllTasksComplete_: timeoutCount
    \* What follows only records what has happened.
    fate,        \* for each task, what became of it
    accepted,    \* the tasks pushed so far, in order
    started,     \* the tasks run so far, in order
    awaited,     \* the tasks accepted before the last wait began
    gaveUp       \* the last wait ran out of polls

queueVars   == <<queue, accepted>>
workerVars  == <<worker, current, started>>
callVars    == <<callPc, callArg>>
destroyVars == <<suppress, destroying, phase, count, polls, awaited, gaveUp>>
vars == <<queueVars, workerVars, callVars, destroyVars, fate>>

Callers == Clients \cup {Self}
InQueue(q, t) == \E i \in 1..Len(q) : q[i] = t

TypeOK ==
    /\ queue \in Seq(Tasks)
    /\ suppress \in BOOLEAN
    /\ destroying \in BOOLEAN
    /\ worker \in {"fetch", "waiting", "fetched", "running", "exited"}
    /\ current \in IF worker \in {"fetched", "running"} THEN Tasks ELSE {None}
    /\ callPc \in [Callers -> {"idle", "push", "notify"}]
    /\ callArg \in [Callers -> Tasks \cup {None}]
    /\ \A c \in Callers : callPc[c] = "push" => callArg[c] \in Tasks
    /\ phase \in {"alive", "derivedWait", "derivedGone", "baseWait",
                  "baseWaited", "joining", "gone"}
    /\ count \in Nat
    /\ polls \in 0..MaxPolls
    /\ fate \in [Tasks -> {"new", "calling", "queued", "taken", "done", "dropped"}]
    /\ accepted \in Seq(Tasks)
    /\ started \in Seq(Tasks)
    /\ awaited \in SUBSET Tasks
    /\ gaveUp \in BOOLEAN

Init ==
    /\ queue = << >>
    /\ suppress = FALSE
    /\ destroying = FALSE
    /\ worker = "fetch"
    /\ current = None
    /\ callPc = [c \in Callers |-> "idle"]
    /\ callArg = [c \in Callers |-> None]
    /\ phase = "alive"
    /\ count = 0
    /\ polls = 0
    /\ fate = [t \in Tasks |-> "new"]
    /\ accepted = << >>
    /\ started = << >>
    /\ awaited = {}
    /\ gaveUp = FALSE

-----------------------------------------------------------------------------
(* enqueue_.  Other threads call it while the derived object exists (its   *)
(* own timers and receive threads still do so during the first wait); the  *)
(* running task may call it at any time.                                   *)

MayCall(c) ==
    /\ callPc[c] = "idle"
    /\ IF c = Self THEN worker = "running" ELSE phase \in {"alive", "derivedWait"}

(* suppressEnqueue_ is read first, without the mutex.                      *)
EnqueueSuppressed(c, t) ==
    /\ MayCall(c) /\ fate[t] = "new"
    /\ suppress
    /\ fate' = [fate EXCEPT ![t] = "dropped"]
    /\ UNCHANGED <<queueVars, workerVars, callVars, destroyVars>>

EnqueueCall(c, t) ==
    /\ MayCall(c) /\ fate[t] = "new"
    /\ ~suppress
    /\ fate' = [fate EXCEPT ![t] = "calling"]
    /\ callPc' = [callPc EXCEPT ![c] = "push"]
    /\ callArg' = [callArg EXCEPT ![c] = t]
    /\ UNCHANGED <<queueVars, workerVars, destroyVars>>

(* A caller that passed a timeout may fail to get the mutex in time: its   *)
(* task is silently not enqueued.                                          *)
EnqueueTimeout(c) ==
    /\ callPc[c] = "push"
    /\ fate' = [fate EXCEPT ![callArg[c]] = "dropped"]
    /\ callPc' = [callPc EXCEPT ![c] = "idle"]
    /\ callArg' = [callArg EXCEPT ![c] = None]
    /\ UNCHANGED <<queueVars, workerVars, destroyVars>>

(* Seeded bug: the push forgets the notification.                          *)
PushWithoutNotify(c) ==
    /\ callPc[c] = "push"
    /\ queue' = Append(queue, callArg[c])
    /\ accepted' = Append(accepted, callArg[c])
    /\ fate' = [fate EXCEPT ![callArg[c]] = "queued"]
    /\ callPc' = [callPc EXCEPT ![c] = "idle"]
    /\ callArg' = [callArg EXCEPT ![c] = None]
    /\ UNCHANGED <<workerVars, destroyVars>>

EnqueuePush(c) ==
    /\ callPc[c] = "push"
    /\ queue' = Append(queue, callArg[c])
    /\ accepted' = Append(accepted, callArg[c])
    /\ fate' = [fate EXCEPT ![callArg[c]] = "queued"]
    /\ callPc' = [callPc EXCEPT ![c] = "notify"]
    /\ callArg' = [callArg EXCEPT ![c] = None]
    /\ UNCHANGED <<workerVars, destroyVars>>

(* notify_one reaches the worker only if it is waiting at that moment.     *)
Wake == worker' = IF worker = "waiting" THEN "fetch" ELSE worker

EnqueueNotify(c) ==
    /\ callPc[c] = "notify"
    /\ Wake
    /\ callPc' = [callPc EXCEPT ![c] = "idle"]
    /\ UNCHANGED <<queueVars, current, started, callArg, destroyVars, fate>>

Enqueue(c) ==
    \/ \E t \in Tasks : EnqueueSuppressed(c, t) \/ EnqueueCall(c, t)
    \/ EnqueueTimeout(c)
    \/ EnqueuePush(c)
    \/ EnqueueNotify(c)

-----------------------------------------------------------------------------
(* eventLoop_ *)

(* With the mutex held: leave the loops, sleep on the condition variable,  *)
(* or take the first task.                                                 *)
WorkerExit ==
    /\ worker = "fetch" /\ destroying
    /\ worker' = "exited"
    /\ UNCHANGED <<queueVars, current, started, callVars, destroyVars, fate>>

WorkerWait ==
    /\ worker = "fetch" /\ ~destroying /\ queue = << >>
    /\ worker' = "waiting"
    /\ UNCHANGED <<queueVars, current, started, callVars, destroyVars, fate>>

WorkerTake ==
    /\ worker = "fetch" /\ ~destroying /\ queue # << >>
    /\ worker' = "fetched"
    /\ current' = Head(queue)
    /\ queue' = Tail(queue)
    /\ fate' = [fate EXCEPT ![Head(queue)] = "taken"]
    /\ UNCHANGED <<accepted, started, callVars, destroyVars>>

(* A condition variable may also wake up by itself; the predicate of the   *)
(* wait is then evaluated again.                                           *)
SpuriousWakeup ==
    /\ worker = "waiting"
    /\ worker' = "fetch"
    /\ UNCHANGED <<queueVars, current, started, callVars, destroyVars, fate>>

(* Seeded bug: isDestroying_ is not read again before fn().                *)
RunWithoutCheck ==
    /\ worker = "fetched"
    /\ worker' = "running"
    /\ started' = Append(started, current)
    /\ UNCHANGED <<queueVars, current, callVars, destroyVars, fate>>

(* isDestroying_ is read again before fn(), without the mutex.  A task     *)
(* that passes this check counts as running.                               *)
WorkerRun ==
    /\ worker = "fetched" /\ ~destroying
    /\ worker' = "running"
    /\ started' = Append(started, current)
    /\ UNCHANGED <<queueVars, current, callVars, destroyVars, fate>>

WorkerSkip ==
    /\ worker = "fetched" /\ destroying
    /\ worker' = "fetch"
    /\ current' = None
    /\ fate' = [fate EXCEPT ![current] = "dropped"]
    /\ UNCHANGED <<queueVars, started, callVars, destroyVars>>

WorkerFinish ==
    /\ worker = "running" /\ callPc[Self] = "idle"
    /\ worker' = "fetch"
    /\ current' = None
    /\ fate' = [fate EXCEPT ![current] = "done"]
    /\ UNCHANGED <<queueVars, started, callVars, destroyVars>>

Worker ==
    \/ WorkerExit \/ WorkerWait \/ WorkerTake
    \/ WorkerRun \/ WorkerSkip \/ WorkerFinish

-----------------------------------------------------------------------------
(* waitForAllTasksComplete_ and ~ThreadedObject, on the destroying thread. *)

Waiting == phase \in {"derivedWait", "baseWait"}

(* By the time the base destructor runs, the derived destructor has ended  *)
(* the calls of other threads; the task that is running it cannot end.     *)
WaitBegin ==
    /\ \/ phase = "alive" /\ phase' = "derivedWait"
       \/ /\ phase = "derivedGone" /\ phase' = "baseWait"
          /\ \A c \in Clients : callPc[c] = "idle"
    /\ suppress' = TRUE
    /\ count' = Len(queue)
    /\ polls' = 0
    /\ awaited' = {t \in Tasks : InQueue(accepted, t)}
    /\ gaveUp' = FALSE
    /\ UNCHANGED <<queueVars, workerVars, callVars, destroying, fate>>

(* Seeded bug: the number of polls has no limit.                           *)
PollForever ==
    /\ Waiting /\ count > 0
    /\ count' = Len(queue)
    /\ polls' = polls + 1
    /\ UNCHANGED <<queueVars, workerVars, callVars, fate,
                   suppress, destroying, phase, awaited, gaveUp>>

WaitPoll ==
    /\ Waiting /\ count > 0 /\ polls < MaxPolls
    /\ count' = Len(queue)
    /\ polls' = polls + 1
    /\ UNCHANGED <<queueVars, workerVars, callVars, fate,
                   suppress, destroying, phase, awaited, gaveUp>>

(* Seeded bug: the wait ends with one task still in the deque.             *)
EndOneTooEarly ==
    /\ Waiting /\ (count <= 1 \/ polls = MaxPolls)
    /\ suppress' = FALSE
    /\ gaveUp' = (count > 1)
    /\ phase' = IF phase = "derivedWait" THEN "derivedGone" ELSE "baseWaited"
    /\ UNCHANGED <<queueVars, workerVars, callVars, fate,
                   destroying, count, polls, awaited>>

WaitEnd ==
    /\ Waiting /\ (count = 0 \/ polls = MaxPolls)
    /\ suppress' = FALSE
    /\ gaveUp' = (count > 0)
    /\ phase' = IF phase = "derivedWait" THEN "derivedGone" ELSE "baseWaited"
    /\ UNCHANGED <<queueVars, workerVars, callVars, fate,
                   destroying, count, polls, awaited>>

(* Seeded bug: the destructor does not notify the worker.                  *)
CloseWithoutNotify ==
    /\ phase = "baseWaited"
    /\ queue' = << >>
    /\ fate' = [t \in Tasks |-> IF InQueue(queue, t) THEN "dropped" ELSE fate[t]]
    /\ destroying' = TRUE
    /\ phase' = "joining"
    /\ UNCHANGED <<accepted, workerVars, callVars,
                   suppress, count, polls, awaited, gaveUp>>

CloseQueue ==
    /\ phase = "baseWaited"
    /\ queue' = << >>
    /\ fate' = [t \in Tasks |-> IF InQueue(queue, t) THEN "dropped" ELSE fate[t]]
    /\ destroying' = TRUE
    /\ Wake
    /\ phase' = "joining"
    /\ UNCHANGED <<accepted, current, started, callVars,
                   suppress, count, polls, awaited, gaveUp>>

(* Seeded bug: the thread is detached instead of joined.                   *)
Detach ==
    /\ phase = "joining"
    /\ phase' = "gone"
    /\ UNCHANGED <<queueVars, workerVars, callVars, fate,
                   suppress, destroying, count, polls, awaited, gaveUp>>

Join ==
    /\ phase = "joining" /\ worker = "exited"
    /\ phase' = "gone"
    /\ UNCHANGED <<queueVars, workerVars, callVars, fate,
                   suppress, destroying, count, polls, awaited, gaveUp>>

Destroy == WaitPoll \/ WaitEnd \/ CloseQueue \/ Join

Next ==
    \/ \E c \in Callers : Enqueue(c)
    \/ Worker
    \/ SpuriousWakeup
    \/ WaitBegin
    \/ Destroy

SafeSpec == Init /\ [][Next]_vars

(* Threads that can run do run: the worker, a call already begun (it never *)
(* blocks for good), and a destructor already begun.  Nothing obliges      *)
(* anyone to enqueue a task or to destroy the object, and no wakeup comes  *)
(* without a notification.                                                 *)
Fairness ==
    /\ WF_vars(Worker)
    /\ \A c \in Callers : WF_vars(EnqueuePush(c)) /\ WF_vars(EnqueueNotify(c))
    /\ WF_vars(Destroy)
    /\ WF_vars(phase = "derivedGone" /\ WaitBegin)

Spec == SafeSpec /\ Fairness
-----------------------------------------------------------------------------
(* The abstract executor this object implements.  The task taken from the  *)
(* deque but not yet past the last check of isDestroying_ is still         *)
(* pending.                                                                *)

Fetched == IF worker = "fetched" THEN <<current>> ELSE << >>
Pending == Fetched \o queue
Running == IF worker = "running" THEN current ELSE None

Executor == INSTANCE SerialExecutor
              WITH submitted <- accepted, pending <- Pending, begun <- started,
                   running <- Running, closed <- destroying

-----------------------------------------------------------------------------
(* Properties *)

(* ThreadedObject implements the serial executor: one task at a time, in   *)
(* the order pushed, at most once, and none begins once isDestroying_ is   *)
(* set, although the flag is read without the mutex (119, 141, 149).       *)
ImplementsExecutor == Executor!Spec

(* Until the destructor clears the deque, no accepted task is lost,        *)
(* duplicated or overtaken, whatever the callers and the worker do.        *)
FifoConservation == Executor!ServedInOrder

(* What waitForAllTasksComplete_ (159-179) really gives the derived        *)
(* destructor when it did not time out: of all tasks accepted before it    *)
(* was called, at most the one the worker holds is unfinished.             *)
WaitLeavesAtMostCurrent ==
    phase \in {"derivedGone", "baseWaited"} /\ ~gaveUp =>
        \A t \in awaited : fate[t] \in {"done", "dropped"} \/ t = current

(* When the destructor has returned (59), the worker has left the object:  *)
(* no task is held or running, and none is in the middle of enqueue_.      *)
QuietWhenGone ==
    phase = "gone" =>
        /\ worker = "exited" /\ current = None
        /\ \A c \in Callers : callPc[c] = "idle"

(* No wakeup is lost: a task in the deque is eventually taken out of it,   *)
(* by the worker or by the destructor's clear.                             *)
NoTaskStuck == \A t \in Tasks : fate[t] = "queued" /\ ~destroying ~> fate[t] # "queued"

(* Destruction, once begun, ends: the bounded wait and the notification    *)
(* given under the mutex let the join succeed.                             *)
DestructorReturns == phase # "alive" ~> phase = "gone"

=============================================================================
