----------------------- MODULE ThreadedObject_proofs -----------------------
(***************************************************************************)
(* Proofs about ThreadedObject for any number of clients and tasks and any *)
(* limit on the polls.                                                     *)
(***************************************************************************)
EXTENDS ThreadedObject, SequenceTheorems, TLAPS

(* A task is in one place at a time, and its fate says which.              *)
OneOwner ==
    /\ current # None => fate[current] = "taken"
    /\ \A t \in Tasks : fate[t] = "taken" => t = current
    /\ \A t \in Tasks : fate[t] = "queued" <=> InQueue(queue, t)
    /\ \A i, j \in 1..Len(queue) : queue[i] = queue[j] => i = j
    /\ \A c \in Callers : callPc[c] = "push" => fate[callArg[c]] = "calling"
    /\ \A c, d \in Callers : callPc[c] = "push" /\ callPc[d] = "push"
          /\ callArg[c] = callArg[d] => c = d
    /\ \A t \in Tasks : InQueue(accepted, t) => fate[t] \notin {"new", "calling"}

(* How far destruction has come bounds who may still be active.            *)
DestructionOrder ==
    /\ destroying <=> phase \in {"joining", "gone"}
    /\ callPc[Self] # "idle" => worker = "running"
    /\ phase \in {"baseWait", "baseWaited", "joining", "gone"} =>
          \A c \in Clients : callPc[c] = "idle"
    /\ phase = "gone" => worker = "exited"

(* Once a poll has seen the deque empty, nothing accepted before the wait  *)
(* is in it any more.                                                      *)
WaitInv ==
    /\ \A t \in awaited : fate[t] \notin {"new", "calling"}
    /\ Waiting /\ count = 0 => \A t \in awaited : fate[t] # "queued"
    /\ phase \in {"derivedGone", "baseWaited"} /\ ~gaveUp =>
          \A t \in awaited : fate[t] # "queued"

IInv == TypeOK /\ OneOwner /\ DestructionOrder /\ WaitInv

-----------------------------------------------------------------------------

(* The initial state has the types.                                        *)
LEMMA InitType == Init => TypeOK
<1> SUFFICES ASSUME Init PROVE TypeOK
  OBVIOUS
<1>1. queue \in Seq(Tasks) /\ accepted \in Seq(Tasks) /\ started \in Seq(Tasks)
  BY EmptySeq DEF Init
<1>2. callPc \in [Callers -> {"idle", "push", "notify"}]
      /\ callArg \in [Callers -> Tasks \cup {None}]
      /\ \A c \in Callers : callPc[c] = "push" => callArg[c] \in Tasks
  BY DEF Init
<1>3. count \in Nat /\ polls \in 0..MaxPolls
  BY MaxPollsIsNat DEF Init
<1> QED
  BY <1>1, <1>2, <1>3 DEF Init, TypeOK

(* Every step preserves the types.                                         *)
LEMMA StepType == TypeOK /\ [Next]_vars => TypeOK'
<1> SUFFICES ASSUME TypeOK, [Next]_vars PROVE TypeOK'
  OBVIOUS
<1> USE DEF TypeOK, queueVars, workerVars, callVars, destroyVars
<1>1. ASSUME NEW c \in Callers, NEW t \in Tasks, EnqueueSuppressed(c, t)
      PROVE TypeOK'
  BY <1>1 DEF EnqueueSuppressed
<1>2. ASSUME NEW c \in Callers, NEW t \in Tasks, EnqueueCall(c, t)
      PROVE TypeOK'
  BY <1>2 DEF EnqueueCall
<1>3. ASSUME NEW c \in Callers, EnqueueTimeout(c)
      PROVE TypeOK'
  BY <1>3 DEF EnqueueTimeout
<1>4. ASSUME NEW c \in Callers, EnqueuePush(c)
      PROVE TypeOK'
  <2>1. callArg[c] \in Tasks
    BY <1>4 DEF EnqueuePush
  <2>2. queue' \in Seq(Tasks) /\ accepted' \in Seq(Tasks)
    BY <1>4, <2>1, AppendProperties DEF EnqueuePush
  <2> QED
    BY <1>4, <2>1, <2>2 DEF EnqueuePush
<1>5. ASSUME NEW c \in Callers, EnqueueNotify(c)
      PROVE TypeOK'
  BY <1>5 DEF EnqueueNotify, Wake
<1>6. CASE Worker
  <2>1. CASE WorkerExit \/ WorkerWait
    BY <2>1 DEF WorkerExit, WorkerWait
  <2>2. CASE WorkerTake
    <3>1. Head(queue) \in Tasks /\ Tail(queue) \in Seq(Tasks)
      BY <2>2, HeadTailProperties DEF WorkerTake
    <3> QED
      BY <2>2, <3>1 DEF WorkerTake
  <2>3. CASE WorkerRun
    <3>1. started' \in Seq(Tasks)
      BY <2>3, AppendProperties DEF WorkerRun
    <3> QED
      BY <2>3, <3>1 DEF WorkerRun
  <2>4. CASE WorkerSkip
    BY <2>4 DEF WorkerSkip
  <2>5. CASE WorkerFinish
    BY <2>5 DEF WorkerFinish
  <2> QED
    BY <1>6, <2>1, <2>2, <2>3, <2>4, <2>5 DEF Worker
<1>7. CASE SpuriousWakeup
  BY <1>7 DEF SpuriousWakeup
<1>8. CASE WaitBegin
  <2>1. count' \in Nat
    BY <1>8, LenProperties DEF WaitBegin
  <2>2. polls' \in 0..MaxPolls
    BY <1>8, MaxPollsIsNat DEF WaitBegin
  <2> QED
    BY <1>8, <2>1, <2>2 DEF WaitBegin
<1>9. CASE WaitPoll
  <2>1. count' \in Nat
    BY <1>9, LenProperties DEF WaitPoll
  <2>2. polls' \in 0..MaxPolls
    BY <1>9, MaxPollsIsNat DEF WaitPoll
  <2> QED
    BY <1>9, <2>1, <2>2 DEF WaitPoll
<1>10. CASE WaitEnd
  <2>1. gaveUp' \in BOOLEAN
    BY <1>10 DEF WaitEnd
  <2> QED
    BY <1>10, <2>1 DEF WaitEnd
<1>11. CASE CloseQueue
  BY <1>11 DEF CloseQueue, Wake
<1>12. CASE Join
  BY <1>12 DEF Join
<1>13. CASE UNCHANGED vars
  BY <1>13 DEF vars
<1> QED
  BY <1>1, <1>2, <1>3, <1>4, <1>5, <1>6, <1>7, <1>8, <1>9, <1>10, <1>11, <1>12, <1>13
     DEF Next, Enqueue, Destroy

(* ThreadedObject: every variable keeps its type (bounds of the poll       *)
(* counter included).                                                      *)
THEOREM TypeCorrect == SafeSpec => []TypeOK
  BY InitType, StepType, PTL DEF SafeSpec

-----------------------------------------------------------------------------

(* The initial state satisfies the inductive invariant.                    *)
LEMMA InitInv == Init => IInv
<1> SUFFICES ASSUME Init PROVE IInv
  OBVIOUS
<1>1. TypeOK
  BY InitType
<1>2. OneOwner
  BY NoneNotTask DEF Init, OneOwner, InQueue
<1>3. DestructionOrder
  BY DEF Init, DestructionOrder, Callers
<1>4. WaitInv
  BY DEF Init, WaitInv, Waiting
<1> QED
  BY <1>1, <1>2, <1>3, <1>4 DEF IInv

(* Where a task that is pushed or taken is found afterwards.               *)
LEMMA InQueueAppend ==
  ASSUME NEW q \in Seq(Tasks), NEW t \in Tasks
  PROVE  \A u : InQueue(Append(q, t), u) <=> InQueue(q, u) \/ u = t
<1>1. /\ Len(Append(q, t)) = Len(q) + 1
      /\ Append(q, t)[Len(q) + 1] = t
      /\ \A i \in 1..Len(q) : Append(q, t)[i] = q[i]
  BY AppendProperties
<1>2. Len(q) \in Nat
  BY LenProperties
<1> QED
  BY <1>1, <1>2 DEF InQueue

(* What is left in a queue of distinct tasks when the first is taken.       *)
LEMMA InQueueTail ==
  ASSUME NEW q \in Seq(Tasks), q # << >>,
         \A i, j \in 1..Len(q) : q[i] = q[j] => i = j
  PROVE  /\ \A u : InQueue(Tail(q), u) <=> InQueue(q, u) /\ u # Head(q)
         /\ \A i, j \in 1..Len(Tail(q)) : Tail(q)[i] = Tail(q)[j] => i = j
<1>1. /\ Len(q) \in Nat /\ Len(q) > 0
      /\ Len(Tail(q)) = Len(q) - 1
      /\ Head(q) = q[1]
      /\ \A i \in 1..Len(Tail(q)) : Tail(q)[i] = q[i + 1]
  BY HeadTailProperties, LenProperties, EmptySeq
<1>2. ASSUME NEW u, InQueue(q, u), u # Head(q) PROVE InQueue(Tail(q), u)
  <2>1. PICK i \in 1..Len(q) : q[i] = u
    BY <1>2 DEF InQueue
  <2>2. i - 1 \in 1..Len(Tail(q)) /\ Tail(q)[i - 1] = q[(i - 1) + 1]
    BY <1>1, <1>2, <2>1
  <2>3. (i - 1) + 1 = i
    OBVIOUS
  <2> QED
    BY <2>1, <2>2, <2>3 DEF InQueue
<1>3. ASSUME NEW u, InQueue(Tail(q), u) PROVE InQueue(q, u) /\ u # Head(q)
  <2>1. PICK i \in 1..Len(Tail(q)) : Tail(q)[i] = u
    BY <1>3 DEF InQueue
  <2>2. i + 1 \in 1..Len(q) /\ q[i + 1] = u /\ i + 1 # 1 /\ 1 \in 1..Len(q)
    BY <1>1, <2>1
  <2> QED
    BY <1>1, <2>2 DEF InQueue
<1>4. ASSUME NEW i \in 1..Len(Tail(q)), NEW j \in 1..Len(Tail(q)), Tail(q)[i] = Tail(q)[j]
      PROVE i = j
  BY <1>1, <1>4
<1> QED
  BY <1>2, <1>3, <1>4

(* A task that is not in the queue may be added to it.                     *)
LEMMA DistinctAppend ==
  ASSUME NEW q \in Seq(Tasks), NEW t \in Tasks, ~InQueue(q, t),
         \A i, j \in 1..Len(q) : q[i] = q[j] => i = j
  PROVE  \A i, j \in 1..Len(Append(q, t)) : Append(q, t)[i] = Append(q, t)[j] => i = j
<1>1. /\ Len(Append(q, t)) = Len(q) + 1
      /\ Append(q, t)[Len(q) + 1] = t
      /\ \A i \in 1..Len(q) : Append(q, t)[i] = q[i]
  BY AppendProperties
<1>2. Len(q) \in Nat
  BY LenProperties
<1> QED
  BY <1>1, <1>2 DEF InQueue

(* One step keeps every task in one place.                                 *)
LEMMA StepOwner == TypeOK /\ TypeOK' /\ OneOwner /\ [Next]_vars => OneOwner'
<1> SUFFICES ASSUME TypeOK, TypeOK', OneOwner, [Next]_vars PROVE OneOwner'
  OBVIOUS
<1> USE NoneNotTask DEF queueVars, workerVars, callVars, destroyVars
<1>1. ASSUME NEW c \in Callers, NEW t \in Tasks, EnqueueSuppressed(c, t)
      PROVE OneOwner'
  BY <1>1 DEF EnqueueSuppressed, OneOwner, TypeOK
<1>2. ASSUME NEW c \in Callers, NEW t \in Tasks, EnqueueCall(c, t)
      PROVE OneOwner'
  BY <1>2 DEF EnqueueCall, MayCall, OneOwner, TypeOK
<1>3. ASSUME NEW c \in Callers, EnqueueTimeout(c)
      PROVE OneOwner'
  BY <1>3 DEF EnqueueTimeout, OneOwner, TypeOK
<1>4. ASSUME NEW c \in Callers, EnqueuePush(c)
      PROVE OneOwner'
  <2> DEFINE t == callArg[c]
  <2>1. t \in Tasks /\ fate[t] = "calling" /\ ~InQueue(queue, t) /\ queue \in Seq(Tasks)
        /\ accepted \in Seq(Tasks)
    BY <1>4 DEF EnqueuePush, OneOwner, TypeOK
  <2>2. \A u : InQueue(queue', u) <=> InQueue(queue, u) \/ u = t
    BY <1>4, <2>1, InQueueAppend DEF EnqueuePush
  <2>3. \A u : InQueue(accepted', u) <=> InQueue(accepted, u) \/ u = t
    BY <1>4, <2>1, InQueueAppend DEF EnqueuePush
  <2>4. \A i, j \in 1..Len(queue') : queue'[i] = queue'[j] => i = j
    BY <1>4, <2>1, DistinctAppend DEF EnqueuePush, OneOwner
  <2>5. fate' = [fate EXCEPT ![t] = "queued"] /\ current' = current
    BY <1>4 DEF EnqueuePush
  <2>6. \A d \in Callers : callPc'[d] = "push" => d # c /\ callPc[d] = "push" /\ callArg'[d] = callArg[d]
    BY <1>4 DEF EnqueuePush, TypeOK
  <2>7. \A d \in Callers : callPc[d] = "push" /\ d # c => callArg[d] # t
    BY <1>4 DEF EnqueuePush, OneOwner
  <2> HIDE DEF t
  <2> QED
    BY <2>1, <2>2, <2>3, <2>4, <2>5, <2>6, <2>7 DEF OneOwner, TypeOK
<1>5. ASSUME NEW c \in Callers, EnqueueNotify(c)
      PROVE OneOwner'
  BY <1>5 DEF EnqueueNotify, Wake, OneOwner, TypeOK
<1>6. CASE WorkerExit \/ WorkerWait \/ WorkerRun
  BY <1>6 DEF WorkerExit, WorkerWait, WorkerRun, OneOwner, TypeOK
<1>7. CASE WorkerTake
  <2> DEFINE t == Head(queue)
  <2>1. queue \in Seq(Tasks) /\ queue # << >> /\ t \in Tasks
        /\ \A i, j \in 1..Len(queue) : queue[i] = queue[j] => i = j
    BY <1>7, HeadTailProperties DEF WorkerTake, OneOwner, TypeOK
  <2>2. /\ \A u : InQueue(queue', u) <=> InQueue(queue, u) /\ u # t
        /\ \A i, j \in 1..Len(queue') : queue'[i] = queue'[j] => i = j
    BY <1>7, <2>1, InQueueTail DEF WorkerTake
  <2>3. fate[t] = "queued"
    BY <2>1, HeadTailProperties, LenProperties, EmptySeq DEF InQueue, OneOwner
  <2>4. fate' = [fate EXCEPT ![t] = "taken"] /\ current' = t /\ current = None
        /\ UNCHANGED <<callPc, callArg, accepted>>
    BY <1>7 DEF WorkerTake, TypeOK
  <2>5. \A u \in Tasks : fate'[u] = IF u = t THEN "taken" ELSE fate[u]
    BY <2>4 DEF TypeOK
  <2> HIDE DEF t
  <2>6. /\ \A u \in Tasks : fate'[u] = "taken" => u = current'
        /\ current' # None => fate'[current'] = "taken"
        /\ \A u \in Tasks : fate'[u] = "queued" <=> InQueue(queue', u)
    BY <2>1, <2>2, <2>4, <2>5 DEF OneOwner
  <2>7. \A d \in Callers : callPc[d] = "push" => fate'[callArg[d]] = "calling"
    BY <2>3, <2>5 DEF OneOwner, TypeOK
  <2>8. \A u \in Tasks : InQueue(accepted, u) => fate'[u] \notin {"new", "calling"}
    BY <2>5 DEF OneOwner
  <2> QED
    BY <2>2, <2>4, <2>6, <2>7, <2>8 DEF OneOwner
<1>8. CASE WorkerSkip \/ WorkerFinish
  <2>1. current \in Tasks /\ fate[current] = "taken" /\ current' = None
        /\ UNCHANGED <<callPc, callArg, queue, accepted>>
    BY <1>8 DEF WorkerSkip, WorkerFinish, OneOwner, TypeOK
  <2>2. \E v \in {"done", "dropped"} :
           \A u \in Tasks : fate'[u] = IF u = current THEN v ELSE fate[u]
    BY <1>8 DEF WorkerSkip, WorkerFinish, TypeOK
  <2>3. /\ \A u \in Tasks : fate'[u] # "taken"
        /\ \A u \in Tasks : fate'[u] = "queued" <=> InQueue(queue, u)
        /\ \A u \in Tasks : InQueue(accepted, u) => fate'[u] \notin {"new", "calling"}
    BY <2>1, <2>2 DEF OneOwner
  <2>4. \A d \in Callers : callPc[d] = "push" => fate'[callArg[d]] = "calling"
    BY <2>1, <2>2 DEF OneOwner, TypeOK
  <2> QED
    BY <2>1, <2>3, <2>4 DEF OneOwner
<1>9. CASE SpuriousWakeup
  BY <1>9 DEF SpuriousWakeup, OneOwner, TypeOK
<1>10. CASE WaitBegin \/ WaitPoll \/ WaitEnd \/ Join
  BY <1>10 DEF WaitBegin, WaitPoll, WaitEnd, Join, OneOwner, TypeOK
<1>11. CASE CloseQueue
  <2>1. \A u : ~InQueue(queue', u)
    BY <1>11 DEF CloseQueue, InQueue
  <2>2. \A u \in Tasks : fate'[u] = IF InQueue(queue, u) THEN "dropped" ELSE fate[u]
    BY <1>11 DEF CloseQueue
  <2>3. \A i, j \in 1..Len(queue') : queue'[i] = queue'[j] => i = j
    BY <1>11 DEF CloseQueue
  <2>4. UNCHANGED <<current, callPc, callArg, accepted>>
    BY <1>11 DEF CloseQueue
  <2> QED
    BY <2>1, <2>2, <2>3, <2>4 DEF OneOwner, TypeOK
<1>12. CASE UNCHANGED vars
  BY <1>12 DEF vars, OneOwner, InQueue
<1> QED
  BY <1>1, <1>2, <1>3, <1>4, <1>5, <1>6, <1>7, <1>8, <1>9, <1>10, <1>11, <1>12
     DEF Next, Enqueue, Worker, Destroy

(* One step keeps the order of destruction.                                *)
LEMMA StepDestruction ==
    TypeOK /\ DestructionOrder /\ [Next]_vars => DestructionOrder'
<1> SUFFICES ASSUME TypeOK, DestructionOrder, [Next]_vars PROVE DestructionOrder'
  OBVIOUS
<1> USE SelfIsNoClient DEF Callers, DestructionOrder, queueVars, workerVars, callVars, destroyVars
<1>1. ASSUME NEW c \in Callers, NEW t \in Tasks, EnqueueSuppressed(c, t)
      PROVE DestructionOrder'
  BY <1>1 DEF EnqueueSuppressed
<1>2. ASSUME NEW c \in Callers, NEW t \in Tasks, EnqueueCall(c, t)
      PROVE DestructionOrder'
  BY <1>2 DEF EnqueueCall, MayCall, TypeOK
<1>3. ASSUME NEW c \in Callers, EnqueueTimeout(c) \/ EnqueuePush(c) \/ EnqueueNotify(c)
      PROVE DestructionOrder'
  <2>1. \A d \in Callers : callPc'[d] # "idle" => callPc[d] # "idle"
    BY <1>3 DEF EnqueueTimeout, EnqueuePush, EnqueueNotify, TypeOK
  <2>2. UNCHANGED <<phase, destroying>>
        /\ (worker \in {"running", "exited"} => worker' = worker)
    BY <1>3 DEF EnqueueTimeout, EnqueuePush, EnqueueNotify, Wake
  <2> QED
    BY <2>1, <2>2 DEF TypeOK
<1>4. CASE Worker
  BY <1>4 DEF Worker, WorkerExit, WorkerWait, WorkerTake, WorkerRun, WorkerSkip, WorkerFinish
<1>5. CASE SpuriousWakeup
  BY <1>5 DEF SpuriousWakeup
<1>6. CASE WaitBegin
  BY <1>6 DEF WaitBegin
<1>7. CASE WaitPoll \/ WaitEnd
  BY <1>7 DEF WaitPoll, WaitEnd, Waiting
<1>8. CASE CloseQueue
  BY <1>8 DEF CloseQueue, Wake
<1>9. CASE Join
  BY <1>9 DEF Join
<1>10. CASE UNCHANGED vars
  BY <1>10 DEF vars
<1> QED
  BY <1>1, <1>2, <1>3, <1>4, <1>5, <1>6, <1>7, <1>8, <1>9, <1>10
     DEF Next, Enqueue, Destroy

(* A task that was accepted is never "new", "calling" or queued again.     *)
LEMMA StepFate ==
    TypeOK /\ OneOwner /\ [Next]_vars =>
        \A u \in Tasks : fate[u] \notin {"new", "calling"} =>
            /\ fate'[u] \notin {"new", "calling"}
            /\ fate'[u] = "queued" => fate[u] = "queued"
<1> SUFFICES ASSUME TypeOK, OneOwner, [Next]_vars,
                    NEW u \in Tasks, fate[u] \notin {"new", "calling"}
             PROVE  /\ fate'[u] \notin {"new", "calling"}
                    /\ fate'[u] = "queued" => fate[u] = "queued"
  OBVIOUS
<1> USE DEF TypeOK, queueVars, workerVars, callVars, destroyVars
<1>1. ASSUME NEW c \in Callers, Enqueue(c)
      PROVE  UNCHANGED fate[u]
  BY <1>1 DEF Enqueue, EnqueueSuppressed, EnqueueCall, EnqueueTimeout, EnqueuePush,
              EnqueueNotify, OneOwner
<1>2. CASE Worker
  BY <1>2 DEF Worker, WorkerExit, WorkerWait, WorkerTake, WorkerRun, WorkerSkip, WorkerFinish
<1>3. CASE CloseQueue
  BY <1>3 DEF CloseQueue
<1>4. CASE SpuriousWakeup \/ WaitBegin \/ WaitPoll \/ WaitEnd \/ Join \/ UNCHANGED vars
  BY <1>4 DEF SpuriousWakeup, WaitBegin, WaitPoll, WaitEnd, Join, vars
<1> QED
  BY <1>1, <1>2, <1>3, <1>4 DEF Next, Destroy

(* One step keeps what the wait has established.                           *)
LEMMA StepWait ==
    TypeOK /\ TypeOK' /\ OneOwner /\ WaitInv /\ [Next]_vars => WaitInv'
<1> SUFFICES ASSUME TypeOK, TypeOK', OneOwner, WaitInv, [Next]_vars PROVE WaitInv'
  OBVIOUS
<1> DEFINE Cleared == \A t \in awaited : fate[t] # "queued"
<1>1. \A u \in Tasks : fate[u] \notin {"new", "calling"} =>
            /\ fate'[u] \notin {"new", "calling"}
            /\ fate'[u] = "queued" => fate[u] = "queued"
  BY StepFate
<1>2. ASSUME UNCHANGED awaited
      PROVE  /\ \A t \in awaited' : fate'[t] \notin {"new", "calling"}
             /\ Cleared => Cleared'
  BY <1>1, <1>2 DEF WaitInv, TypeOK
<1>3. Len(queue) = 0 => \A t \in Tasks : fate[t] # "queued"
  BY DEF OneOwner, InQueue
<1> USE DEF queueVars, workerVars, callVars, destroyVars
<1>4. ASSUME UNCHANGED <<phase, count, gaveUp, awaited>>
      PROVE  WaitInv'
  BY <1>2, <1>4 DEF WaitInv, Waiting
<1>5. CASE WaitBegin
  <2>1. \A t \in awaited' : t \in Tasks /\ InQueue(accepted, t)
    BY <1>5 DEF WaitBegin
  <2>2. UNCHANGED fate /\ count' = Len(queue) /\ phase' \in {"derivedWait", "baseWait"}
    BY <1>5 DEF WaitBegin
  <2> QED
    BY <1>3, <2>1, <2>2 DEF WaitInv, OneOwner
<1>6. CASE WaitPoll
  <2>1. UNCHANGED <<fate, awaited, phase, gaveUp>> /\ count' = Len(queue) /\ Waiting
    BY <1>6 DEF WaitPoll
  <2> QED
    BY <1>2, <1>3, <2>1 DEF WaitInv, Waiting, TypeOK
<1>7. CASE WaitEnd
  <2>1. UNCHANGED <<fate, awaited, count>> /\ Waiting /\ gaveUp' = (count > 0)
        /\ phase' \in {"derivedGone", "baseWaited"}
    BY <1>7 DEF WaitEnd
  <2>2. ASSUME ~gaveUp' PROVE count = 0
    <3>1. ~(count > 0)
      BY <2>1, <2>2, Zenon
    <3> QED
      BY <3>1 DEF TypeOK
  <2> QED
    BY <1>2, <2>1, <2>2 DEF WaitInv, Waiting
<1>8. CASE CloseQueue \/ Join
  <2>1. UNCHANGED awaited /\ phase' \in {"joining", "gone"}
    BY <1>8 DEF CloseQueue, Join
  <2> QED
    BY <1>2, <2>1 DEF WaitInv, Waiting
<1>9. CASE \E c \in Callers : Enqueue(c)
  BY <1>4, <1>9 DEF Enqueue, EnqueueSuppressed, EnqueueCall, EnqueueTimeout, EnqueuePush, EnqueueNotify
<1>10. CASE Worker \/ SpuriousWakeup \/ UNCHANGED vars
  BY <1>4, <1>10 DEF vars, SpuriousWakeup, Worker, WorkerExit, WorkerWait, WorkerTake,
                     WorkerRun, WorkerSkip, WorkerFinish
<1> QED
  BY <1>5, <1>6, <1>7, <1>8, <1>9, <1>10 DEF Next, Destroy

(* ThreadedObject: the inductive invariant from which the theorems follow. *)
THEOREM Inductive == SafeSpec => []IInv
<1>1. IInv /\ [Next]_vars => IInv'
  BY StepType, StepOwner, StepDestruction, StepWait DEF IInv
<1> QED
  BY InitInv, <1>1, PTL DEF SafeSpec

(* waitForAllTasksComplete_, when it does not time out, leaves at most the *)
(* task the worker holds unfinished: proved for any number of callers.     *)
THEOREM WaitLeavesAtMostCurrentHolds == SafeSpec => []WaitLeavesAtMostCurrent
<1>1. IInv => WaitLeavesAtMostCurrent
  <2> SUFFICES ASSUME IInv, phase \in {"derivedGone", "baseWaited"}, ~gaveUp,
                      NEW t \in awaited, t # current
               PROVE  fate[t] \in {"done", "dropped"}
    BY DEF WaitLeavesAtMostCurrent
  <2>1. t \in Tasks /\ fate[t] \notin {"new", "calling", "queued"}
    BY DEF IInv, WaitInv, TypeOK
  <2>2. fate[t] # "taken"
    BY <2>1 DEF IInv, OneOwner
  <2> QED
    BY <2>1, <2>2 DEF IInv, TypeOK
<1> QED
  BY Inductive, <1>1, PTL

(* When ~ThreadedObject has returned nothing of the object is in use.      *)
THEOREM QuietWhenGoneHolds == SafeSpec => []QuietWhenGone
<1>1. IInv => QuietWhenGone
  BY DEF IInv, QuietWhenGone, DestructionOrder, TypeOK, Callers
<1> QED
  BY Inductive, <1>1, PTL

-----------------------------------------------------------------------------
(* Refinement *)

(* Each step of the event queue is a step of the executor or changes       *)
(* nothing the executor sees.                                              *)
LEMMA StepRefines == IInv /\ IInv' /\ [Next]_vars => [Executor!Next]_(Executor!vars)
<1> SUFFICES ASSUME IInv, IInv', [Next]_vars PROVE [Executor!Next]_(Executor!vars)
  OBVIOUS
<1>1. TypeOK /\ TypeOK' /\ OneOwner
  BY DEF IInv
<1> USE DEF queueVars, workerVars, callVars, destroyVars
<1>2. ASSUME UNCHANGED <<accepted, queue, current, started, worker, destroying>>
      PROVE  UNCHANGED Executor!vars
  BY <1>2 DEF Executor!vars, Pending, Fetched, Running
<1>3. ASSUME UNCHANGED <<accepted, queue, started, destroying>>,
             worker \notin {"fetched", "running"}, worker' \notin {"fetched", "running"}
      PROVE  UNCHANGED Executor!vars
  BY <1>3 DEF Executor!vars, Pending, Fetched, Running
<1>4. ASSUME NEW c \in Callers, NEW t \in Tasks,
             EnqueueSuppressed(c, t) \/ EnqueueCall(c, t)
      PROVE  UNCHANGED Executor!vars
  BY <1>2, <1>4 DEF EnqueueSuppressed, EnqueueCall
<1>5. ASSUME NEW c \in Callers, EnqueueTimeout(c)
      PROVE  UNCHANGED Executor!vars
  BY <1>2, <1>5 DEF EnqueueTimeout
<1>6. ASSUME NEW c \in Callers, EnqueuePush(c)
      PROVE  Executor!Next
  <2>1. callArg[c] \in Tasks /\ fate[callArg[c]] = "calling"
    BY <1>1, <1>6 DEF EnqueuePush, TypeOK, OneOwner
  <2>2. \A i \in 1..Len(accepted) : accepted[i] # callArg[c]
    BY <1>1, <2>1 DEF OneOwner, InQueue
  <2>3. Pending' = Append(Pending, callArg[c])
    <3>1. queue' = Append(queue, callArg[c]) /\ Fetched' = Fetched
      BY <1>6 DEF EnqueuePush, Fetched
    <3>2. queue \in Seq(Tasks) /\ Fetched \in Seq(Tasks)
      BY <1>1 DEF TypeOK, Fetched
    <3>3. Append(queue, callArg[c]) = queue \o <<callArg[c]>>
      BY <2>1, <3>2, AppendIsConcat
    <3>4. Append(Fetched \o queue, callArg[c]) = (Fetched \o queue) \o <<callArg[c]>>
      BY <2>1, <3>2, AppendIsConcat, ConcatProperties
    <3> QED
      BY <2>1, <3>1, <3>2, <3>3, <3>4, ConcatAssociative DEF Pending
  <2>4. accepted' = Append(accepted, callArg[c])
        /\ UNCHANGED <<started, Running, destroying>>
    BY <1>6 DEF EnqueuePush, Running
  <2> QED
    BY <2>1, <2>2, <2>3, <2>4 DEF Executor!Submit, Executor!Next
<1>7. ASSUME NEW c \in Callers, EnqueueNotify(c)
      PROVE  UNCHANGED Executor!vars
  BY <1>2, <1>3, <1>7 DEF EnqueueNotify, Wake
<1>8. CASE WorkerExit \/ WorkerWait \/ SpuriousWakeup
  BY <1>3, <1>8 DEF WorkerExit, WorkerWait, SpuriousWakeup
<1>9. CASE WorkerTake
  <2>1. queue \in Seq(Tasks) /\ queue # << >> /\ Fetched = << >>
        /\ queue' = Tail(queue) /\ Fetched' = <<Head(queue)>>
    BY <1>1, <1>9 DEF WorkerTake, TypeOK, Fetched
  <2>2. queue = <<Head(queue)>> \o Tail(queue)
    BY <2>1, HeadTailProperties, SMT
  <2>3. Pending' = Pending
    BY <2>1, <2>2, ConcatEmptySeq DEF Pending
  <2>4. UNCHANGED <<accepted, started, destroying>> /\ Running' = Running
    BY <1>9 DEF WorkerTake, Running
  <2> QED
    BY <2>3, <2>4 DEF Executor!vars
<1>10. ASSUME worker = "fetched"
       PROVE  /\ Pending \in Seq(Tasks) /\ Pending # << >>
              /\ Head(Pending) = current /\ Tail(Pending) = queue
  <2>1. queue \in Seq(Tasks) /\ current \in Tasks /\ Pending = <<current>> \o queue
    BY <1>1, <1>10 DEF TypeOK, Pending, Fetched
  <2> QED
    BY <2>1
<1>11. CASE WorkerRun
  <2>1. Pending' = queue
    BY <1>1, <1>11, ConcatEmptySeq DEF WorkerRun, Pending, Fetched, TypeOK
  <2>2. Running = None /\ Running' = current
    BY <1>11 DEF WorkerRun, Running
  <2>3. ~destroying /\ started' = Append(started, current) /\ UNCHANGED <<accepted, destroying>>
    BY <1>11 DEF WorkerRun
  <2>4. Executor!Start
    BY <1>10, <1>11, <2>1, <2>2, <2>3 DEF Executor!Start, WorkerRun
  <2> QED
    BY <2>4 DEF Executor!Next
<1>12. CASE WorkerSkip
  <2>1. Pending' = queue
    BY <1>1, <1>12, ConcatEmptySeq DEF WorkerSkip, Pending, Fetched, TypeOK
  <2>2. destroying /\ UNCHANGED <<accepted, started, destroying>> /\ Running' = Running
    BY <1>12 DEF WorkerSkip, Running
  <2>3. Executor!Discard
    BY <1>10, <1>12, <2>1, <2>2 DEF Executor!Discard, WorkerSkip
  <2> QED
    BY <2>3 DEF Executor!Next
<1>13. CASE WorkerFinish
  <2>1. Running = current /\ current \in Tasks /\ Running' = None
    BY <1>1, <1>13 DEF WorkerFinish, Running, TypeOK
  <2>2. UNCHANGED <<accepted, started, destroying, Pending>>
    BY <1>13 DEF WorkerFinish, Pending, Fetched
  <2>3. Executor!Finish
    BY <2>1, <2>2, NoneNotTask DEF Executor!Finish
  <2> QED
    BY <2>3 DEF Executor!Next
<1>14. CASE WaitBegin \/ WaitPoll \/ WaitEnd \/ Join \/ UNCHANGED vars
  BY <1>2, <1>14 DEF WaitBegin, WaitPoll, WaitEnd, Join, vars
<1>15. CASE CloseQueue
  <2>1. ~destroying /\ destroying' /\ UNCHANGED <<accepted, started>>
    BY <1>15 DEF CloseQueue, IInv, DestructionOrder, TypeOK
  <2>2. Running' = Running /\ queue' = << >> /\ Fetched' = Fetched
    BY <1>15 DEF CloseQueue, Wake, Running, Fetched
  <2>3. Pending' = << >> \/ (Pending # << >> /\ Pending' = <<Head(Pending)>>)
    <3>1. CASE worker = "fetched"
      <4>1. Fetched = <<current>> /\ current \in Tasks
        BY <1>1, <3>1 DEF Fetched, TypeOK
      <4>2. Pending' = <<current>>
        BY <2>2, <4>1, ConcatEmptySeq DEF Pending
      <4> QED
        BY <1>10, <3>1, <4>2
    <3>2. CASE worker # "fetched"
      BY <2>2, <3>2 DEF Pending, Fetched
    <3> QED
      BY <3>1, <3>2
  <2>4. Executor!Close
    BY <2>1, <2>2, <2>3 DEF Executor!Close
  <2> QED
    BY <2>4 DEF Executor!Next
<1> QED
  BY <1>1, <1>4, <1>5, <1>6, <1>7, <1>8, <1>9, <1>11, <1>12, <1>13, <1>14, <1>15
     DEF Next, Enqueue, Worker, Destroy, Executor!Next, TypeOK

(* The event queue implements the serial executor: FIFO, one at a time, at *)
(* most once, and nothing begins after isDestroying_ is set.               *)
THEOREM Refinement == SafeSpec => ImplementsExecutor
<1>1. ASSUME Init PROVE Executor!Init
  <2>1. Fetched = << >> /\ Running = None /\ queue = << >>
    BY <1>1 DEF Init, Fetched, Running
  <2>2. << >> \o << >> = << >>
    BY EmptySeq, ConcatEmptySeq
  <2> QED
    BY <1>1, <2>1, <2>2 DEF Init, Executor!Init, Pending
<1> QED
  BY <1>1, StepRefines, Inductive, PTL DEF SafeSpec, ImplementsExecutor, Executor!Spec

(* Until the destructor clears the deque, the tasks accepted are the tasks *)
(* begun followed by those still pending: none lost, doubled or overtaken. *)
THEOREM FifoConservationHolds == SafeSpec => []FifoConservation
<1>1. IInv => Pending \in Seq(Tasks)
  BY ConcatProperties, EmptySeq DEF IInv, TypeOK, Pending, Fetched
<1>2. Init => FifoConservation
  <2> SUFFICES ASSUME Init PROVE FifoConservation
    OBVIOUS
  <2>1. accepted = << >> /\ started = << >> /\ queue = << >> /\ Fetched = << >>
    BY DEF Init, Fetched
  <2>2. << >> \o << >> = << >>
    BY EmptySeq, ConcatEmptySeq
  <2> QED
    BY <2>1, <2>2 DEF FifoConservation, Executor!ServedInOrder, Pending
<1>3. IInv /\ IInv' /\ FifoConservation /\ [Next]_vars => FifoConservation'
  <2> SUFFICES ASSUME IInv, IInv', FifoConservation, [Next]_vars PROVE FifoConservation'
    OBVIOUS
  <2> USE DEF FifoConservation, Executor!ServedInOrder
  <2>1. [Executor!Next]_(Executor!vars)
    BY StepRefines
  <2>2. Pending \in Seq(Tasks) /\ started \in Seq(Tasks) /\ accepted \in Seq(Tasks)
    BY <1>1 DEF IInv, TypeOK
  <2>3. ASSUME NEW t \in Tasks, Executor!Submit(t) PROVE FifoConservation'
    <3>1. accepted' = Append(accepted, t) /\ Pending' = Append(Pending, t)
          /\ UNCHANGED <<started, destroying>>
      BY <2>3 DEF Executor!Submit
    <3>2. Append(accepted, t) = accepted \o <<t>> /\ Append(Pending, t) = Pending \o <<t>>
      BY <2>2, AppendIsConcat
    <3>3. (started \o Pending) \o <<t>> = started \o (Pending \o <<t>>)
      BY <2>2, ConcatAssociative
    <3> QED
      BY <3>1, <3>2, <3>3
  <2>4. ASSUME Executor!Start PROVE FifoConservation'
    <3> DEFINE h == Head(Pending)
    <3>1. Pending # << >> /\ Pending' = Tail(Pending) /\ started' = Append(started, h)
          /\ UNCHANGED <<accepted, destroying>>
      BY <2>4 DEF Executor!Start
    <3>2. h \in Tasks /\ Tail(Pending) \in Seq(Tasks)
      BY <2>2, <3>1, HeadTailProperties
    <3>3. Pending = <<h>> \o Tail(Pending)
      BY <2>2, <3>1, HeadTailProperties, SMT
    <3>4. Append(started, h) = started \o <<h>>
      BY <2>2, <3>2, AppendIsConcat
    <3> HIDE DEF h
    <3>5. (started \o <<h>>) \o Tail(Pending) = started \o (<<h>> \o Tail(Pending))
      BY <2>2, <3>2, ConcatAssociative
    <3> QED
      BY <3>1, <3>3, <3>4, <3>5
  <2>5. ASSUME Executor!Finish PROVE FifoConservation'
    BY <2>5 DEF Executor!Finish
  <2>6. ASSUME Executor!Close \/ Executor!Discard PROVE FifoConservation'
    BY <2>6 DEF Executor!Close, Executor!Discard
  <2>7. ASSUME UNCHANGED Executor!vars PROVE FifoConservation'
    BY <2>7 DEF Executor!vars
  <2> QED
    BY <2>1, <2>3, <2>4, <2>5, <2>6, <2>7 DEF Executor!Next
<1> QED
  BY <1>2, <1>3, Inductive, PTL DEF SafeSpec
=============================================================================
