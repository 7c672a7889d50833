-------------------- MODULE TcpConnectionHandler_proofs --------------------
(***************************************************************************)
(* Proofs about TcpConnectionHandler, for any number of connections and    *)
(* any bound on the queue: type correctness, that the retry of a broken    *)
(* connection is neither lost nor doubled, and that what one connection    *)
(* left in the queue is never taken for the next.                          *)
(***************************************************************************)
EXTENDS TcpConnectionHandler, SequenceTheorems, TLAPS

Tasks == [op : Ops, conn : 0..MaxConn]

HasConnect(q) == \E i \in 1..Len(q) : q[i].op = "connect"
OneConnect(q) ==
    \A i, j \in 1..Len(q) : q[i].op = "connect" /\ q[j].op = "connect" => i = j

(* r has a task "connect" where q has one, and no more of them.            *)
Steady(q, r) ==
    /\ r \in Seq(Tasks)
    /\ HasConnect(r) <=> HasConnect(q)
    /\ OneConnect(q) => OneConnect(r)

-----------------------------------------------------------------------------
(* The queue: what Append and Tail do to the tasks "connect" in it.        *)

(* Another task is added at the end.                                       *)
LEMMA AppendOther ==
    ASSUME NEW q \in Seq(Tasks), NEW t \in Tasks, t.op # "connect"
    PROVE  Steady(q, Append(q, t))
<1> DEFINE r == Append(q, t)
<1>1. /\ r \in Seq(Tasks) /\ Len(q) \in Nat /\ Len(r) = Len(q) + 1
      /\ \A i \in 1..Len(q) : r[i] = q[i]
      /\ r[Len(q) + 1] = t
  BY AppendProperties, LenProperties
<1>2. \A i \in 1..Len(r) : r[i].op = "connect" => i \in 1..Len(q) /\ q[i].op = "connect"
  BY <1>1
<1>3. HasConnect(r) <=> HasConnect(q)
  BY <1>1, <1>2 DEF HasConnect
<1>4. OneConnect(q) => OneConnect(r)
  BY <1>2 DEF OneConnect
<1> QED
  BY <1>1, <1>3, <1>4 DEF Steady

(* Another task is taken from the front.                                   *)
LEMMA TailOther ==
    ASSUME NEW q \in Seq(Tasks), q # << >>, Head(q).op # "connect"
    PROVE  Steady(q, Tail(q))
<1> DEFINE r == Tail(q)
<1>1. /\ r \in Seq(Tasks) /\ Len(q) \in Nat /\ Len(r) = Len(q) - 1
      /\ \A i \in 1..Len(r) : r[i] = q[i + 1]
      /\ Head(q) = q[1]
  BY HeadTailProperties, LenProperties
<1>2. \A i \in 1..Len(r) : i + 1 \in 1..Len(q)
  BY <1>1
<1>3. \A i \in 1..Len(q) : q[i].op = "connect" => i - 1 \in 1..Len(r) /\ r[i - 1] = q[i]
  BY <1>1
<1>4. HasConnect(r) <=> HasConnect(q)
  <2>1. HasConnect(r) => HasConnect(q)
    BY <1>1, <1>2 DEF HasConnect
  <2>2. HasConnect(q) => HasConnect(r)
    BY <1>3 DEF HasConnect
  <2> QED
    BY <2>1, <2>2
<1>5. OneConnect(q) => OneConnect(r)
  <2> SUFFICES ASSUME OneConnect(q), NEW i \in 1..Len(r), NEW j \in 1..Len(r),
                      r[i].op = "connect", r[j].op = "connect"
               PROVE  i = j
    BY DEF OneConnect
  <2>1. i + 1 = j + 1
    BY <1>1, <1>2 DEF OneConnect
  <2> QED
    BY <2>1, <1>1
<1> QED
  BY <1>1, <1>4, <1>5 DEF Steady

(* The only task "connect" is added.                                       *)
LEMMA AppendConnect ==
    ASSUME NEW q \in Seq(Tasks), NEW t \in Tasks, t.op = "connect", ~HasConnect(q)
    PROVE  /\ Append(q, t) \in Seq(Tasks)
           /\ HasConnect(Append(q, t)) /\ OneConnect(Append(q, t))
<1> DEFINE r == Append(q, t)
<1>1. /\ r \in Seq(Tasks) /\ Len(q) \in Nat /\ Len(r) = Len(q) + 1
      /\ \A i \in 1..Len(q) : r[i] = q[i]
      /\ r[Len(q) + 1] = t
  BY AppendProperties, LenProperties
<1>2. \A i \in 1..Len(r) : r[i].op = "connect" => i = Len(q) + 1
  BY <1>1 DEF HasConnect
<1>3. HasConnect(r)
  BY <1>1 DEF HasConnect
<1> QED
  BY <1>1, <1>2, <1>3 DEF OneConnect

(* The only task "connect" is taken.                                       *)
LEMMA TailConnect ==
    ASSUME NEW q \in Seq(Tasks), q # << >>, Head(q).op = "connect", OneConnect(q)
    PROVE  Tail(q) \in Seq(Tasks) /\ ~HasConnect(Tail(q)) /\ OneConnect(Tail(q))
<1> DEFINE r == Tail(q)
<1>1. /\ r \in Seq(Tasks) /\ Len(q) \in Nat /\ Len(r) = Len(q) - 1
      /\ \A i \in 1..Len(r) : r[i] = q[i + 1]
      /\ Head(q) = q[1] /\ Len(q) > 0
  BY HeadTailProperties, LenProperties, EmptySeq
<1>2. ~HasConnect(r)
  <2> SUFFICES ASSUME NEW i \in 1..Len(r), r[i].op = "connect" PROVE FALSE
    BY DEF HasConnect
  <2>1. i + 1 \in 1..Len(q) /\ 1 \in 1..Len(q) /\ i + 1 # 1
    BY <1>1
  <2>2. q[i + 1].op = "connect" /\ q[1].op = "connect"
    BY <1>1
  <2> QED
    BY <2>1, <2>2 DEF OneConnect
<1> QED
  BY <1>1, <1>2 DEF HasConnect, OneConnect

(* Steady is reflexive and transitive, and enqueue_ keeps it.              *)
LEMMA SteadyRefl == \A q \in Seq(Tasks) : Steady(q, q)
  BY DEF Steady

(* enqueue_ of another task, accepted or refused.                          *)
LEMMA EnqueueOther ==
    ASSUME NEW p \in Seq(Tasks), NEW q, Steady(p, q), socket \in 0..MaxConn,
           NEW op \in Ops \ {"connect"}
    PROVE  Steady(p, Enqueue(q, op))
<1>1. Task(op) \in Tasks /\ Task(op).op # "connect"
  BY DEF Task, Tasks
<1>2. Steady(q, Append(q, Task(op)))
  BY <1>1, AppendOther DEF Steady
<1>3. CASE suppress
  BY <1>3 DEF Enqueue
<1>4. CASE ~suppress
  <2>1. Enqueue(q, op) = Append(q, Task(op))
    BY <1>4 DEF Enqueue
  <2> QED
    BY <1>2, <2>1 DEF Steady
<1> QED
  BY <1>3, <1>4

-----------------------------------------------------------------------------
(* The inductive invariant.                                                *)

(* The five places an attempt can come from exclude each other; this is    *)
(* SingleAttempt with the places written out, and the queue holds at most  *)
(* one "connect".                                                          *)
Exclusive ==
    /\ OneConnect(queue)
    /\ HasConnect(queue) => ~Trying /\ ~armed /\ ~firing /\ ~Holding
    /\ Trying => ~armed /\ ~firing /\ ~Holding
    /\ armed => ~firing /\ ~Holding
    /\ firing => ~Holding

(* A receive thread that has not been joined belongs to the connection     *)
(* there is, or to the one being closed.                                   *)
ReceiverOwned ==
    /\ receiver # "none" => Holding
    /\ worker \in {"announce", "spawn"} => receiver = "none" /\ socket # 0
    /\ worker = "joining" => socket = 0

(* What each place of the owner says about the flags and the attempts.     *)
OwnerFlags ==
    /\ suppress => owner = "wait"
    /\ owner = "using" => enableReconnect
    /\ owner = "new" =>
          ~HasConnect(queue) /\ ~Trying /\ ~armed /\ ~firing /\ ~Holding

Retry == owner = "using" =>
            HasConnect(queue) \/ Trying \/ armed \/ firing \/ Holding

Core == Exclusive /\ ReceiverOwned /\ OwnerFlags /\ Retry /\ ~terminated

TcpInv == TypeOK /\ Core

(* The initial state satisfies the inductive invariant.                    *)
LEMMA InitTcpInv == Init => TcpInv
<1> SUFFICES ASSUME Init PROVE TcpInv
  OBVIOUS
<1>1. queue \in Seq(Tasks) /\ Len(queue) = 0
  BY EmptySeq DEF Init
<1>2. ~HasConnect(queue) /\ OneConnect(queue)
  BY <1>1 DEF HasConnect, OneConnect
<1>3. TypeOK
  <2>1. 0 \in 0..MaxConn
    BY MaxConnIsNat
  <2>2. queue \in Seq([op : Ops, conn : 0..MaxConn])
    BY <1>1 DEF Tasks
  <2> QED
    BY <2>1, <2>2 DEF Init, TypeOK
<1> QED
  BY <1>2, <1>3 DEF Init, TcpInv, Core, Exclusive, ReceiverOwned, OwnerFlags,
     Retry, Trying, Holding

(* Every step preserves the types.                                         *)
LEMMA TcpTypeStep == TypeOK /\ [Next]_vars => TypeOK'
<1> SUFFICES ASSUME TypeOK, [Next]_vars PROVE TypeOK'
  OBVIOUS
<1> USE DEF connVars, flagVars, timerVars, pingVars, ownerVars
<1>q. queue \in Seq(Tasks) /\ socket \in 0..MaxConn /\ made \in 0..MaxConn
  BY DEF TypeOK, Tasks
<1>t. ASSUME queue # << >> PROVE Tail(queue) \in Seq(Tasks) /\ Head(queue) \in Tasks
  BY <1>q, <1>t, HeadTailProperties
<1>e. ASSUME NEW q \in Seq(Tasks), NEW op \in Ops PROVE Enqueue(q, op) \in Seq(Tasks)
  <2>1. Task(op) \in Tasks
    BY <1>q DEF Task, Tasks
  <2> QED
    BY <2>1, AppendProperties DEF Enqueue
<1>b. {suppress, cancelConnect, enableReconnect, armed, firing, terminated,
        watchdog, ping, answered} \subseteq BOOLEAN
  BY DEF TypeOK
<1>a. ASSUME NEW op, AfterClose(op)
      PROVE  cancelConnect' \in BOOLEAN /\ answered' \in BOOLEAN
  BY <1>a, Zenon DEF AfterClose
<1>1. CASE ConnectBegin
  BY <1>1, <1>t DEF ConnectBegin, Serving, TypeOK, Tasks
<1>2. CASE ConnectAttempt
  BY <1>2 DEF ConnectAttempt, TypeOK
<1>3. CASE ConnectSucceeds
  BY <1>3, MaxConnIsNat DEF ConnectSucceeds, TypeOK
<1>4. CASE ConnectFails
  <2>1. armed' \in BOOLEAN
    BY <1>4, Zenon DEF ConnectFails
  <2> QED
    BY <1>4, <2>1 DEF ConnectFails, TypeOK
<1>5. CASE ConnectAnnounce
  BY <1>5, <1>q, <1>e DEF ConnectAnnounce, TypeOK, Tasks, Ops
<1>6. CASE ConnectSpawn
  <2>1. terminated' \in BOOLEAN
    BY <1>6, Zenon DEF ConnectSpawn
  <2> QED
    BY <1>6, <2>1 DEF ConnectSpawn, TypeOK
<1>7. CASE \E op \in Closers : CloseNothing(op)
  BY <1>7, <1>a, <1>t DEF CloseNothing, Serving, TypeOK, Tasks
<1>8. CASE \E op \in Closers : CloseSocket(op)
  BY <1>8, <1>t, MaxConnIsNat DEF CloseSocket, Serving, TypeOK, Tasks
<1>9. CASE CloseFinish
  <2>1. armed' \in BOOLEAN
    BY <1>9, Zenon DEF CloseFinish
  <2>2. cancelConnect' \in BOOLEAN /\ answered' \in BOOLEAN
    BY <1>9, <1>a DEF CloseFinish
  <2> QED
    BY <1>9, <2>1, <2>2 DEF CloseFinish, TypeOK
<1>10. CASE OnConnect
  <2>1. Tail(queue) \in Seq(Tasks) /\ Head(queue) \in Tasks
    BY <1>10, <1>t DEF OnConnect, Serving
  <2>2. queue' \in Seq(Tasks)
    BY <1>10, <2>1, <1>e DEF OnConnect, Ops
  <2>3. announced' \in 0..MaxConn
    BY <1>10, <2>1 DEF OnConnect, Tasks
  <2> QED
    BY <1>10, <2>2, <2>3 DEF OnConnect, TypeOK, Tasks
<1>11. CASE DrainClosed \/ SendClosed \/ SendBegin
  BY <1>11, <1>t DEF DrainClosed, SendClosed, SendBegin, Serving, TypeOK, Tasks
<1>12. CASE DrainOpen
  <2>1. Tail(queue) \in Seq(Tasks)
    BY <1>12, <1>t DEF DrainOpen, Serving
  <2>2. queue' \in Seq(Tasks)
    BY <1>12, <2>1, <1>e DEF DrainOpen, Ops
  <2> QED
    BY <1>12, <2>2 DEF DrainOpen, TypeOK, Tasks
<1>13. CASE SendEnd \/ SendInterrupted
  <2>1. queue' \in Seq(Tasks)
    BY <1>13, <1>q, <1>e DEF SendEnd, SendInterrupted, Ops
  <2> QED
    BY <1>13, <2>1 DEF SendEnd, SendInterrupted, TypeOK, Tasks
<1>14. CASE ReceiverExit \/ ReceiverGot
  BY <1>14 DEF ReceiverExit, ReceiverGot, TypeOK
<1>15. CASE ReceiverPost
  <2>1. [op |-> receiver, conn |-> made] \in Tasks
    BY <1>15, <1>q DEF ReceiverPost, Tasks, Ops
  <2>2. queue' \in Seq(Tasks)
    BY <1>15, <2>1, <1>q, AppendProperties DEF ReceiverPost
  <2> QED
    BY <1>15, <2>2 DEF ReceiverPost, TypeOK, Tasks
<1>16. CASE TimerFires \/ PingTimeout
  BY <1>16 DEF TimerFires, PingTimeout, TypeOK
<1>17. CASE TimerCallback \/ PingPost
  <2>1. queue' \in Seq(Tasks)
    BY <1>17, <1>q, <1>e DEF TimerCallback, PingPost, Ops
  <2> QED
    BY <1>17, <2>1 DEF TimerCallback, PingPost, TypeOK, Tasks
<1>18. CASE OwnerConnect \/ OwnerPost
  <2>1. queue' \in Seq(Tasks)
    BY <1>18, <1>q, <1>e DEF OwnerConnect, OwnerPost, Ops
  <2> QED
    BY <1>18, <2>1 DEF OwnerConnect, OwnerPost, TypeOK, Tasks
<1>19. CASE OwnerDisable \/ OwnerCancel \/ OwnerAwait \/ OwnerDone
  BY <1>19 DEF OwnerDisable, OwnerCancel, OwnerAwait, OwnerDone, TypeOK
<1>20. CASE UNCHANGED vars
  BY <1>20 DEF vars, TypeOK
<1> QED
  BY <1>1, <1>2, <1>3, <1>4, <1>5, <1>6, <1>7, <1>8, <1>9, <1>10, <1>11,
     <1>12, <1>13, <1>14, <1>15, <1>16, <1>17, <1>18, <1>19, <1>20
  DEF Next, Worker, Connect, Disconnect, Deliver, Receiver, TimerServer, Destroy

(* Every step preserves the rest of the invariant.  Most steps keep the    *)
(* places as they are; connectImpl_, disconnectImpl_, the retry timer and  *)
(* connect() each move an attempt from one place to the next.              *)
LEMMA CoreStep == TcpInv /\ [Next]_vars => Core'
<1> SUFFICES ASSUME TypeOK, Core, [Next]_vars PROVE Core'
  BY DEF TcpInv
<1> USE DEF connVars, flagVars, timerVars, pingVars, ownerVars
<1>q. queue \in Seq(Tasks) /\ socket \in 0..MaxConn /\ made \in 0..MaxConn
  BY DEF TypeOK, Tasks
<1>r. Steady(queue, queue)
  BY <1>q, SteadyRefl
<1>e. ASSUME NEW q, Steady(queue, q), NEW op \in Ops \ {"connect"}
      PROVE  Steady(queue, Enqueue(q, op))
  BY <1>q, <1>e, EnqueueOther
<1>h. ASSUME NEW op \in Ops \ {"connect"}, Serving(op)
      PROVE  Steady(queue, Tail(queue))
  BY <1>q, <1>h, TailOther DEF Serving
<1>k. ASSUME Steady(queue, queue'),
             UNCHANGED <<socket, made, receiver, terminated, enableReconnect, armed,
                         firing, owner, suppress>>,
             worker' = worker \/ (worker \in {"idle", "sending"} /\ worker' \in {"idle", "sending"})
      PROVE  Core'
  BY <1>k DEF Steady, Core, Exclusive, ReceiverOwned, OwnerFlags, Retry, Trying, Holding
<1>1. CASE ConnectBegin
  <2>1. OneConnect(queue) /\ queue # << >> /\ Head(queue).op = "connect"
    BY <1>1 DEF Core, Exclusive, ConnectBegin, Serving
  <2>2. HasConnect(queue)
    <3>1. Head(queue) = queue[1] /\ 1 \in 1..Len(queue)
      BY <1>q, <2>1, HeadTailProperties, LenProperties, EmptySeq
    <3> QED
      BY <2>1, <3>1 DEF HasConnect
  <2>3. ~HasConnect(queue') /\ OneConnect(queue')
    BY <1>q, <1>1, <2>1, TailConnect DEF ConnectBegin
  <2> QED
    BY <1>1, <2>2, <2>3 DEF ConnectBegin, Serving, Core, Exclusive, ReceiverOwned,
       OwnerFlags, Retry, Trying, Holding
<1>2. CASE ConnectAttempt
  BY <1>2 DEF ConnectAttempt, Core, Exclusive, ReceiverOwned, OwnerFlags, Retry,
     Trying, Holding
<1>3. CASE ConnectSucceeds
  BY <1>3, <1>q DEF ConnectSucceeds, Core, Exclusive, ReceiverOwned, OwnerFlags,
     Retry, Trying, Holding
<1>4. CASE ConnectFails
  <2>1. Trying /\ ~armed /\ ~firing /\ socket = 0 /\ ~HasConnect(queue) /\ owner # "new"
    BY <1>4 DEF ConnectFails, Core, Exclusive, OwnerFlags, Trying, Holding
  <2>2. worker' = "idle" /\ armed' = enableReconnect /\ enableReconnect \in BOOLEAN
    <3>1. worker' = "idle"
      BY <1>4, <2>1 DEF ConnectFails
    <3>2. enableReconnect \in BOOLEAN
      BY DEF TypeOK
    <3>3. armed' = enableReconnect
      BY <1>4, <2>1, <3>2, Zenon DEF ConnectFails
    <3> QED
      BY <3>1, <3>2, <3>3
  <2> QED
    BY <1>4, <2>1, <2>2 DEF ConnectFails, Core, Exclusive, ReceiverOwned,
       OwnerFlags, Retry, Trying, Holding
<1>5. CASE ConnectAnnounce
  <2>1. Steady(queue, queue')
    BY <1>5, <1>r, <1>e DEF ConnectAnnounce, Ops
  <2> QED
    BY <1>5, <2>1 DEF ConnectAnnounce, Steady, Core, Exclusive, ReceiverOwned,
       OwnerFlags, Retry, Trying, Holding
<1>6. CASE ConnectSpawn
  <2>1. receiver = "none" /\ ~terminated
    BY <1>6 DEF ConnectSpawn, Core, ReceiverOwned
  <2>2. ~terminated'
    BY <1>6, <2>1, Zenon DEF ConnectSpawn
  <2> QED
    BY <1>6, <2>2 DEF ConnectSpawn, Core, Exclusive, ReceiverOwned, OwnerFlags,
       Retry, Trying, Holding
<1>7. ASSUME NEW op \in Closers, CloseNothing(op) PROVE Core'
  <2>1. Steady(queue, queue')
    BY <1>7, <1>h DEF CloseNothing, Closers, Ops
  <2> QED
    BY <1>7, <1>k, <2>1 DEF CloseNothing
<1>8. ASSUME NEW op \in Closers, CloseSocket(op) PROVE Core'
  <2>1. Steady(queue, queue')
    BY <1>8, <1>h DEF CloseSocket, Closers, Ops
  <2> QED
    BY <1>8, <2>1 DEF CloseSocket, Serving, Steady, Core, Exclusive, ReceiverOwned,
       OwnerFlags, Retry, Trying, Holding
<1>9. CASE CloseFinish
  <2>1. Holding /\ ~Trying /\ ~armed /\ ~firing /\ socket = 0 /\ ~HasConnect(queue)
        /\ owner # "new"
    BY <1>9 DEF CloseFinish, Core, Exclusive, ReceiverOwned, OwnerFlags, Trying, Holding
  <2>2. armed' = enableReconnect
    <3>1. enableReconnect \in BOOLEAN
      BY DEF TypeOK
    <3> QED
      BY <1>9, <2>1, <3>1, Zenon DEF CloseFinish
  <2> QED
    BY <1>9, <2>1, <2>2 DEF CloseFinish, Core, Exclusive, ReceiverOwned,
       OwnerFlags, Retry, Trying, Holding
<1>10. CASE OnConnect
  <2>1. Steady(queue, queue')
    BY <1>10, <1>h, <1>e DEF OnConnect, Ops
  <2> QED
    BY <1>10, <1>k, <2>1 DEF OnConnect
<1>11. CASE DrainClosed \/ SendClosed \/ SendBegin
  <2>1. Steady(queue, queue')
    BY <1>11, <1>h DEF DrainClosed, SendClosed, SendBegin, Ops
  <2> QED
    BY <1>11, <1>k, <2>1 DEF DrainClosed, SendClosed, SendBegin, Serving
<1>12. CASE DrainOpen
  <2>1. Steady(queue, Tail(queue))
    BY <1>12, <1>h DEF DrainOpen, Ops
  <2>2. Steady(queue, queue')
    BY <1>12, <2>1, <1>e DEF DrainOpen, Ops
  <2> QED
    BY <1>12, <1>k, <2>2 DEF DrainOpen
<1>13. CASE SendEnd \/ SendInterrupted
  <2>1. Steady(queue, queue')
    BY <1>13, <1>r, <1>e DEF SendEnd, SendInterrupted, Ops
  <2> QED
    BY <1>13, <1>k, <2>1 DEF SendEnd, SendInterrupted
<1>14. CASE ReceiverExit \/ ReceiverGot
  BY <1>14 DEF ReceiverExit, ReceiverGot, Core, Exclusive, ReceiverOwned,
     OwnerFlags, Retry, Trying, Holding
<1>15. CASE ReceiverPost
  <2>1. [op |-> receiver, conn |-> made] \in Tasks /\ receiver # "connect"
    BY <1>15, <1>q DEF ReceiverPost, Tasks, Ops
  <2>2. Steady(queue, Append(queue, [op |-> receiver, conn |-> made]))
    BY <1>q, <2>1, AppendOther
  <2>3. Steady(queue, queue')
    BY <1>15, <1>r, <2>2 DEF ReceiverPost
  <2> QED
    BY <1>15, <2>3 DEF ReceiverPost, Steady, Core, Exclusive, ReceiverOwned,
       OwnerFlags, Retry, Trying, Holding
<1>16. CASE TimerFires
  BY <1>16 DEF TimerFires, Core, Exclusive, ReceiverOwned, OwnerFlags, Retry,
     Trying, Holding
<1>17. CASE TimerCallback
  <2>1. ~HasConnect(queue) /\ ~Trying /\ ~armed /\ ~Holding /\ owner # "new"
    BY <1>17 DEF TimerCallback, Core, Exclusive, OwnerFlags
  <2>2. Task("connect") \in Tasks /\ Task("connect").op = "connect"
    BY <1>q DEF Task, Tasks, Ops
  <2>3. CASE suppress
    BY <1>17, <2>1, <2>3 DEF TimerCallback, Enqueue, Core, Exclusive, ReceiverOwned,
       OwnerFlags, Retry, Trying, Holding
  <2>4. CASE ~suppress
    <3>1. HasConnect(queue') /\ OneConnect(queue')
      BY <1>17, <1>q, <2>1, <2>2, <2>4, AppendConnect DEF TimerCallback, Enqueue
    <3> QED
      BY <1>17, <2>1, <3>1 DEF TimerCallback, Core, Exclusive, ReceiverOwned,
         OwnerFlags, Retry, Trying, Holding
  <2> QED
    BY <2>3, <2>4
<1>18. CASE PingTimeout
  BY <1>18, <1>k, <1>r DEF PingTimeout
<1>19. CASE PingPost
  <2>1. Steady(queue, queue')
    BY <1>19, <1>r, <1>e DEF PingPost, Ops
  <2> QED
    BY <1>19, <1>k, <2>1 DEF PingPost
<1>20. CASE OwnerConnect
  <2>1. ~HasConnect(queue) /\ ~Trying /\ ~armed /\ ~firing /\ ~Holding /\ ~suppress
    BY <1>20 DEF OwnerConnect, Core, OwnerFlags
  <2>2. Task("connect") \in Tasks /\ Task("connect").op = "connect"
    BY <1>q DEF Task, Tasks, Ops
  <2>3. HasConnect(queue') /\ OneConnect(queue')
    BY <1>20, <1>q, <2>1, <2>2, AppendConnect DEF OwnerConnect, Enqueue
  <2> QED
    BY <1>20, <2>1, <2>3 DEF OwnerConnect, Core, Exclusive, ReceiverOwned,
       OwnerFlags, Retry, Trying, Holding
<1>21. CASE OwnerDisable \/ OwnerCancel \/ OwnerAwait \/ OwnerDone
  BY <1>21 DEF OwnerDisable, OwnerCancel, OwnerAwait, OwnerDone, Core, Exclusive,
     ReceiverOwned, OwnerFlags, Retry, Trying, Holding
<1>22. CASE OwnerPost
  <2>1. Steady(queue, queue')
    BY <1>22, <1>r, <1>e DEF OwnerPost, Ops
  <2> QED
    BY <1>22, <2>1 DEF OwnerPost, Steady, Core, Exclusive, ReceiverOwned, OwnerFlags,
       Retry, Trying, Holding
<1>23. CASE UNCHANGED vars
  BY <1>23 DEF vars, Core, Exclusive, ReceiverOwned, OwnerFlags, Retry, Trying, Holding
<1> QED
  BY <1>1, <1>2, <1>3, <1>4, <1>5, <1>6, <1>7, <1>8, <1>9, <1>10, <1>11,
     <1>12, <1>13, <1>14, <1>15, <1>16, <1>17, <1>18, <1>19, <1>20, <1>21,
     <1>22, <1>23
  DEF Next, Worker, Connect, Disconnect, Deliver, Receiver, TimerServer, Destroy

(* The invariant holds throughout.                                         *)
THEOREM TcpInductive == SafeSpec => []TcpInv
<1>1. TcpInv /\ [Next]_vars => TcpInv'
  BY TcpTypeStep, CoreStep DEF TcpInv
<1> QED
  BY InitTcpInv, <1>1, PTL DEF SafeSpec

-----------------------------------------------------------------------------
(* The variables keep their types.                                         *)
THEOREM TcpTypes == SafeSpec => []TypeOK
<1>1. TcpInv => TypeOK
  BY DEF TcpInv
<1> QED
  BY <1>1, TcpInductive, PTL

(* There are never two attempts at a connection, nor an attempt beside a   *)
(* connection, whatever the receive thread, the timers and the owner do.   *)
THEOREM SingleAttemptHolds == SafeSpec => []SingleAttempt
<1>1. TcpInv => SingleAttempt
  <2> SUFFICES ASSUME Exclusive PROVE SingleAttempt
    BY DEF TcpInv, Core
  <2>1. Queued("connect") <=> HasConnect(queue)
    BY DEF Queued, HasConnect
  <2> QED
    BY <2>1 DEF SingleAttempt, Exclusive
<1> QED
  BY <1>1, TcpInductive, PTL

(* connectImpl_ never assigns a thread over one that is still joinable.    *)
THEOREM NeverTerminatesHolds == SafeSpec => []NeverTerminates
<1>1. TcpInv => NeverTerminates
  BY DEF TcpInv, Core, NeverTerminates
<1> QED
  BY <1>1, TcpInductive, PTL

(* Until its destruction begins, a connected client that has lost its      *)
(* connection has an attempt queued, running or scheduled.                 *)
THEOREM RetryPendingHolds == SafeSpec => []RetryPending
<1>1. TcpInv => RetryPending
  BY DEF TcpInv, Core, Retry, RetryPending, Queued, HasConnect
<1> QED
  BY <1>1, TcpInductive, PTL
-----------------------------------------------------------------------------
(* What is left in the queue of a connection: its announcement, its bytes  *)
(* and its errors.                                                         *)

Left == {"onConnect", "drain", "drop"}

(* All of it is of connection c; or there is none of it.                   *)
LeftOf(q, c) == \A i \in 1..Len(q) : q[i].op \in Left => q[i].conn = c
NothingLeft(q) == \A i \in 1..Len(q) : q[i].op \notin Left

(* The next attempt is made only after it.                                 *)
LeftBefore(q) ==
    \A i, j \in 1..Len(q) : q[i].op = "connect" /\ q[j].op \in Left => j < i

(* An announcement is queued; or it is, before any bytes.                  *)
HasAnnounce(q) == \E i \in 1..Len(q) : q[i].op = "onConnect"
Introduced(q) ==
    \A j \in 1..Len(q) : q[j].op = "drain" =>
        \E i \in 1..Len(q) : i < j /\ q[i].op = "onConnect"

(* r keeps what is known of q.                                             *)
Keeps(q, r) ==
    /\ r \in Seq(Tasks)
    /\ LeftOf(q, made) => LeftOf(r, made)
    /\ NothingLeft(q) => NothingLeft(r)
    /\ LeftBefore(q) => LeftBefore(r)
    /\ HasAnnounce(q) => HasAnnounce(r)
    /\ Introduced(q) => Introduced(r)

(* A task that is nothing of a connection is added at the end, "connect"   *)
(* included.                                                               *)
LEMMA AppendKeeps ==
    ASSUME NEW q \in Seq(Tasks), NEW t \in Tasks, t.op \notin Left
    PROVE  Keeps(q, Append(q, t))
<1> DEFINE r == Append(q, t)
<1>1. /\ r \in Seq(Tasks) /\ Len(q) \in Nat /\ Len(r) = Len(q) + 1
      /\ \A i \in 1..Len(q) : i \in 1..Len(r) /\ r[i] = q[i]
      /\ r[Len(q) + 1] = t
  BY AppendProperties, LenProperties
<1>2. \A i \in 1..Len(r) : r[i].op \in Left => i \in 1..Len(q) /\ r[i] = q[i]
  BY <1>1
<1>3. \A i \in 1..Len(r) : i \in 1..Len(q) \/ i = Len(q) + 1
  BY <1>1
<1> HIDE DEF r
<1>4. LeftOf(q, made) => LeftOf(r, made)
  BY <1>2 DEF LeftOf
<1>5. NothingLeft(q) => NothingLeft(r)
  BY <1>2 DEF NothingLeft
<1>6. LeftBefore(q) => LeftBefore(r)
  <2> SUFFICES ASSUME LeftBefore(q), NEW i \in 1..Len(r), NEW j \in 1..Len(r),
                      r[i].op = "connect", r[j].op \in Left
               PROVE  j < i
    BY DEF LeftBefore
  <2>1. j \in 1..Len(q) /\ r[j] = q[j]
    BY <1>2
  <2>2. CASE i \in 1..Len(q)
    BY <1>1, <2>1, <2>2 DEF LeftBefore
  <2>3. CASE i = Len(q) + 1
    BY <1>1, <2>1, <2>3
  <2> QED
    BY <1>3, <2>2, <2>3
<1>7. HasAnnounce(q) => HasAnnounce(r)
  BY <1>1 DEF HasAnnounce
<1>8. Introduced(q) => Introduced(r)
  <2> SUFFICES ASSUME Introduced(q), NEW j \in 1..Len(r), r[j].op = "drain"
               PROVE  \E i \in 1..Len(r) : i < j /\ r[i].op = "onConnect"
    BY DEF Introduced
  <2>1. j \in 1..Len(q) /\ r[j] = q[j]
    BY <1>2 DEF Left
  <2>2. PICK i \in 1..Len(q) : i < j /\ q[i].op = "onConnect"
    BY <2>1 DEF Introduced
  <2> QED
    BY <1>1, <2>2
<1> QED
  BY <1>1, <1>4, <1>5, <1>6, <1>7, <1>8 DEF Keeps, r

(* Any task but an announcement is taken from the front.                   *)
LEMMA TailKeeps ==
    ASSUME NEW q \in Seq(Tasks), q # << >>, Head(q).op # "onConnect"
    PROVE  Keeps(q, Tail(q))
<1> DEFINE r == Tail(q)
<1>1. /\ r \in Seq(Tasks) /\ Len(q) \in Nat /\ Len(r) = Len(q) - 1
      /\ \A i \in 1..Len(r) : r[i] = q[i + 1]
      /\ Head(q) = q[1]
  BY HeadTailProperties, LenProperties
<1> HIDE DEF r
<1>2. \A i \in 1..Len(r) : i + 1 \in 1..Len(q) /\ r[i] = q[i + 1]
  BY <1>1
<1>3. \A i \in 1..Len(q) : q[i].op = "onConnect" => i - 1 \in 1..Len(r) /\ r[i - 1] = q[i]
  BY <1>1
<1>4. LeftOf(q, made) => LeftOf(r, made)
  BY <1>2 DEF LeftOf
<1>5. NothingLeft(q) => NothingLeft(r)
  BY <1>2 DEF NothingLeft
<1>6. LeftBefore(q) => LeftBefore(r)
  <2> SUFFICES ASSUME LeftBefore(q), NEW i \in 1..Len(r), NEW j \in 1..Len(r),
                      r[i].op = "connect", r[j].op \in Left
               PROVE  j < i
    BY DEF LeftBefore
  <2>1. j + 1 < i + 1
    BY <1>2 DEF LeftBefore
  <2> QED
    BY <2>1
<1>7. HasAnnounce(q) => HasAnnounce(r)
  BY <1>3 DEF HasAnnounce
<1>8. Introduced(q) => Introduced(r)
  <2> SUFFICES ASSUME Introduced(q), NEW j \in 1..Len(r), r[j].op = "drain"
               PROVE  \E i \in 1..Len(r) : i < j /\ r[i].op = "onConnect"
    BY DEF Introduced
  <2>1. PICK i \in 1..Len(q) : i < j + 1 /\ q[i].op = "onConnect"
    BY <1>2 DEF Introduced
  <2>2. i - 1 \in 1..Len(r) /\ r[i - 1].op = "onConnect" /\ i - 1 < j
    BY <1>3, <2>1
  <2> QED
    BY <2>2
<1> QED
  BY <1>1, <1>4, <1>5, <1>6, <1>7, <1>8 DEF Keeps, r

(* The task "connect" is taken from the front: nothing is left behind it.  *)
LEMMA TailOfConnect ==
    ASSUME NEW q \in Seq(Tasks), q # << >>, Head(q).op = "connect", LeftBefore(q)
    PROVE  NothingLeft(Tail(q))
<1> DEFINE r == Tail(q)
<1>1. /\ Len(q) \in Nat /\ Len(r) = Len(q) - 1
      /\ \A i \in 1..Len(r) : r[i] = q[i + 1]
      /\ Head(q) = q[1] /\ 1 \in 1..Len(q)
  BY HeadTailProperties, LenProperties, EmptySeq
<1> HIDE DEF r
<1> SUFFICES ASSUME NEW i \in 1..Len(r), r[i].op \in Left PROVE FALSE
  BY DEF NothingLeft, r
<1>2. i + 1 \in 1..Len(q) /\ q[i + 1].op \in Left
  BY <1>1
<1>3. i + 1 < 1
  BY <1>1, <1>2 DEF LeftBefore
<1> QED
  BY <1>3

(* The announcement is taken from the front: what is left is still of the  *)
(* same connection and before the next attempt.                            *)
LEMMA TailOfAnnounce ==
    ASSUME NEW q \in Seq(Tasks), q # << >>
    PROVE  /\ Tail(q) \in Seq(Tasks)
           /\ LeftOf(q, made) => LeftOf(Tail(q), made)
           /\ LeftBefore(q) => LeftBefore(Tail(q))
<1> DEFINE r == Tail(q)
<1>1. /\ r \in Seq(Tasks) /\ Len(q) \in Nat /\ Len(r) = Len(q) - 1
      /\ \A i \in 1..Len(r) : r[i] = q[i + 1]
  BY HeadTailProperties, LenProperties
<1> HIDE DEF r
<1>2. \A i \in 1..Len(r) : i + 1 \in 1..Len(q) /\ r[i] = q[i + 1]
  BY <1>1
<1>3. LeftOf(q, made) => LeftOf(r, made)
  BY <1>2 DEF LeftOf
<1>4. LeftBefore(q) => LeftBefore(r)
  <2> SUFFICES ASSUME LeftBefore(q), NEW i \in 1..Len(r), NEW j \in 1..Len(r),
                      r[i].op = "connect", r[j].op \in Left
               PROVE  j < i
    BY DEF LeftBefore
  <2>1. j + 1 < i + 1
    BY <1>2 DEF LeftBefore
  <2> QED
    BY <2>1
<1> QED
  BY <1>1, <1>3, <1>4 DEF r

(* A connection leaves one more task, while no next attempt is queued.     *)
LEMMA AppendLeft ==
    ASSUME NEW q \in Seq(Tasks), NEW t \in Tasks, t.op \in Left, t.conn = made,
           ~HasConnect(q)
    PROVE  /\ Append(q, t) \in Seq(Tasks)
           /\ LeftOf(q, made) => LeftOf(Append(q, t), made)
           /\ LeftBefore(Append(q, t))
           /\ HasAnnounce(q) \/ t.op = "onConnect" => HasAnnounce(Append(q, t))
           /\ Introduced(q) /\ (t.op = "drain" => HasAnnounce(q))
                => Introduced(Append(q, t))
<1> DEFINE r == Append(q, t)
<1>1. /\ r \in Seq(Tasks) /\ Len(q) \in Nat /\ Len(r) = Len(q) + 1
      /\ \A i \in 1..Len(q) : i \in 1..Len(r) /\ r[i] = q[i]
      /\ r[Len(q) + 1] = t /\ Len(q) + 1 \in 1..Len(r)
  BY AppendProperties, LenProperties
<1>2. \A i \in 1..Len(r) : i = Len(q) + 1 \/ i \in 1..Len(q)
  BY <1>1
<1> HIDE DEF r
<1>3. LeftOf(q, made) => LeftOf(r, made)
  BY <1>1, <1>2 DEF LeftOf
<1>4. LeftBefore(r)
  <2>1. \A i \in 1..Len(r) : r[i].op # "connect"
    BY <1>1, <1>2 DEF HasConnect, Left
  <2> QED
    BY <2>1 DEF LeftBefore
<1>5. HasAnnounce(q) \/ t.op = "onConnect" => HasAnnounce(r)
  BY <1>1 DEF HasAnnounce
<1>6. ASSUME Introduced(q), t.op = "drain" => HasAnnounce(q) PROVE Introduced(r)
  <2> SUFFICES ASSUME NEW j \in 1..Len(r), r[j].op = "drain"
               PROVE  \E i \in 1..Len(r) : i < j /\ r[i].op = "onConnect"
    BY DEF Introduced
  <2>1. CASE j \in 1..Len(q)
    <3>1. PICK i \in 1..Len(q) : i < j /\ q[i].op = "onConnect"
      BY <1>1, <1>6, <2>1 DEF Introduced
    <3> QED
      BY <1>1, <3>1
  <2>2. CASE j = Len(q) + 1
    <3>1. PICK i \in 1..Len(q) : q[i].op = "onConnect"
      BY <1>1, <1>6, <2>2 DEF HasAnnounce
    <3>2. i \in 1..Len(r) /\ i < j /\ r[i].op = "onConnect"
      BY <1>1, <2>2, <3>1
    <3> QED
      BY <3>2
  <2> QED
    BY <1>2, <2>1, <2>2
<1> QED
  BY <1>1, <1>3, <1>4, <1>5, <1>6 DEF r

(* Keeps is reflexive, and enqueue_ of a task that is nothing of a         *)
(* connection has it, accepted or refused.                                 *)
LEMMA KeepsRefl == \A q \in Seq(Tasks) : Keeps(q, q)
  BY DEF Keeps

LEMMA EnqueueKeeps ==
    ASSUME NEW p \in Seq(Tasks), NEW q, Keeps(p, q), socket \in 0..MaxConn,
           NEW op \in Ops \ Left
    PROVE  Keeps(p, Enqueue(q, op))
<1>1. Task(op) \in Tasks /\ Task(op).op \notin Left
  BY DEF Task, Tasks
<1>2. Keeps(q, Append(q, Task(op)))
  BY <1>1, AppendKeeps DEF Keeps
<1>3. CASE suppress
  BY <1>3 DEF Enqueue
<1>4. CASE ~suppress
  <2>1. Enqueue(q, op) = Append(q, Task(op))
    BY <1>4 DEF Enqueue
  <2> QED
    BY <1>2, <2>1 DEF Keeps
<1> QED
  BY <1>3, <1>4

-----------------------------------------------------------------------------
(* The second inductive invariant, on top of the first: what connections   *)
(* leave in the queue.                                                     *)

(* While the subclass has not yet been told of the connection there is,    *)
(* none of its bytes are served before the telling, which is queued unless *)
(* the queue is refusing tasks.                                            *)
Unannounced ==
    level = 1 /\ socket # 0 /\ announced # made =>
        /\ Introduced(queue)
        /\ worker # "announce" => suppress \/ HasAnnounce(queue)

Order ==
    /\ worker = "sending" => socket # 0
    /\ socket # 0 => socket = made /\ LeftOf(queue, made)
    /\ LeftBefore(queue)
    /\ Trying \/ worker = "announce" => NothingLeft(queue)
    /\ Unannounced

(* The initial state satisfies it: the queue is empty.                     *)
LEMMA InitOrder == Init => Order
<1> SUFFICES ASSUME Init PROVE Order
  OBVIOUS
<1>1. Len(queue) = 0
  BY EmptySeq DEF Init
<1> QED
  BY <1>1 DEF Init, Order, LeftBefore, Unannounced, Trying

(* Every step preserves it.  Most leave what connections left as it is;    *)
(* the others add to it on behalf of the connection there is, or take the  *)
(* announcement or the next attempt from the front.                        *)
LEMMA OrderStep == TcpInv /\ Order /\ [Next]_vars => Order'
<1> SUFFICES ASSUME TypeOK, Core, Order, [Next]_vars PROVE Order'
  BY DEF TcpInv
<1> USE DEF connVars, flagVars, timerVars, pingVars, ownerVars
<1>q. queue \in Seq(Tasks) /\ socket \in 0..MaxConn /\ made \in 0..MaxConn
  BY DEF TypeOK, Tasks
<1>r. Keeps(queue, queue)
  BY <1>q, KeepsRefl
<1>e. ASSUME NEW q, Keeps(queue, q), NEW op \in Ops \ Left
      PROVE  Keeps(queue, Enqueue(q, op))
  BY <1>q, <1>e, EnqueueKeeps
<1>h. ASSUME NEW op \in Ops \ {"onConnect"}, Serving(op)
      PROVE  Keeps(queue, Tail(queue))
  BY <1>q, <1>h, TailKeeps DEF Serving
<1>k. ASSUME Keeps(queue, queue'),
             UNCHANGED <<made, announced, socket>>,
             level' = 2 \/ (level' = level /\ (suppress => suppress')),
             \/ worker' = worker
             \/ worker' = "idle" /\ worker # "announce"
             \/ worker' = "sending" /\ worker # "announce" /\ socket # 0
      PROVE  Order'
  BY <1>k DEF Keeps, Order, Unannounced, Trying
<1>1. CASE ConnectBegin
  <2>1. NothingLeft(queue')
    BY <1>1, <1>q, TailOfConnect DEF ConnectBegin, Serving, Order
  <2>2. Keeps(queue, queue')
    BY <1>1, <1>h DEF ConnectBegin, Ops
  <2>3. socket = 0
    <3>1. Head(queue) = queue[1] /\ 1 \in 1..Len(queue)
      BY <1>1, <1>q, HeadTailProperties, LenProperties, EmptySeq
      DEF ConnectBegin, Serving
    <3>2. HasConnect(queue)
      BY <1>1, <3>1 DEF ConnectBegin, Serving, HasConnect
    <3> QED
      BY <3>2 DEF Core, Exclusive, Holding
  <2> QED
    BY <1>1, <2>1, <2>2, <2>3 DEF ConnectBegin, Keeps, Order, Unannounced
<1>2. CASE ConnectAttempt
  BY <1>2 DEF ConnectAttempt, Order, Unannounced, Trying
<1>3. CASE ConnectSucceeds
  <2>1. NothingLeft(queue)
    BY <1>3 DEF ConnectSucceeds, Order, Trying
  <2>2. LeftOf(queue, made') /\ Introduced(queue)
    BY <2>1 DEF NothingLeft, LeftOf, Introduced, Left
  <2> QED
    BY <1>3, <2>1, <2>2 DEF ConnectSucceeds, Order, Unannounced
<1>4. CASE ConnectFails
  <2>1. socket = 0
    BY <1>4 DEF ConnectFails, Core, Exclusive, Trying, Holding
  <2> QED
    BY <1>4, <2>1, <1>k, <1>r DEF ConnectFails
<1>5. CASE ConnectAnnounce
  <2>1. socket = made /\ socket # 0 /\ ~HasConnect(queue) /\ LeftOf(queue, made)
        /\ NothingLeft(queue)
    BY <1>5 DEF ConnectAnnounce, Core, Exclusive, ReceiverOwned, Holding, Order
  <2>2. Task("onConnect") \in Tasks /\ Task("onConnect").op = "onConnect"
        /\ Task("onConnect").conn = made
    BY <1>q, <2>1 DEF Task, Tasks, Ops
  <2>3. Introduced(queue)
    BY <2>1 DEF NothingLeft, Introduced, Left
  <2>4. CASE suppress
    <3>1. queue' = queue
      BY <1>5, <2>4 DEF ConnectAnnounce, Enqueue
    <3> QED
      BY <1>5, <2>1, <2>3, <2>4, <3>1 DEF ConnectAnnounce, Order, Unannounced, Trying
  <2>5. CASE ~suppress
    <3>1. queue' = Append(queue, Task("onConnect"))
      BY <1>5, <2>5 DEF ConnectAnnounce, Enqueue
    <3>2. LeftOf(queue', made) /\ LeftBefore(queue') /\ HasAnnounce(queue')
          /\ Introduced(queue')
      BY <1>q, <2>1, <2>2, <2>3, <3>1, AppendLeft DEF Left
    <3> QED
      BY <1>5, <2>1, <3>2 DEF ConnectAnnounce, Order, Unannounced, Trying
  <2> QED
    BY <2>4, <2>5
<1>6. CASE ConnectSpawn
  BY <1>6, <1>k, <1>r DEF ConnectSpawn
<1>7. ASSUME NEW op \in Closers, CloseNothing(op) PROVE Order'
  <2>1. Keeps(queue, queue')
    BY <1>7, <1>h DEF CloseNothing, Closers, Ops
  <2> QED
    BY <1>7, <1>k, <2>1 DEF CloseNothing
<1>8. ASSUME NEW op \in Closers, CloseSocket(op) PROVE Order'
  <2>1. Keeps(queue, queue')
    BY <1>8, <1>h DEF CloseSocket, Closers, Ops
  <2> QED
    BY <1>8, <2>1, MaxConnIsNat DEF CloseSocket, Keeps, Order, Unannounced, Trying
<1>9. CASE CloseFinish
  BY <1>9, <1>k, <1>r DEF CloseFinish
<1>10. CASE OnConnect
  <2>1. queue # << >> /\ Head(queue).op = "onConnect" /\ worker = "idle"
        /\ Head(queue) = queue[1] /\ 1 \in 1..Len(queue)
    BY <1>10, <1>q, HeadTailProperties, LenProperties, EmptySeq DEF OnConnect, Serving
  <2>2. /\ Tail(queue) \in Seq(Tasks)
        /\ LeftOf(queue, made) => LeftOf(Tail(queue), made)
        /\ LeftBefore(Tail(queue))
    BY <1>q, <2>1, TailOfAnnounce DEF Order
  <2>3. Keeps(Tail(queue), queue')
    <3>1. Keeps(Tail(queue), Tail(queue))
      BY <2>2, KeepsRefl
    <3> QED
      BY <1>10, <1>q, <2>2, <3>1, EnqueueKeeps DEF OnConnect, Ops, Left
  <2>4. socket # 0 => announced' = made
    BY <1>10, <2>1 DEF OnConnect, Order, LeftOf, Left
  <2> QED
    BY <1>10, <2>1, <2>2, <2>3, <2>4 DEF OnConnect, Keeps, Order, Unannounced, Trying
<1>11. CASE DrainClosed \/ SendClosed \/ SendBegin
  <2>1. Keeps(queue, queue')
    BY <1>11, <1>h DEF DrainClosed, SendClosed, SendBegin, Ops
  <2> QED
    BY <1>11, <1>k, <2>1 DEF DrainClosed, SendClosed, SendBegin, Serving
<1>12. CASE DrainOpen
  <2>1. Keeps(queue, Tail(queue))
    BY <1>12, <1>h DEF DrainOpen, Ops
  <2>2. Keeps(queue, queue')
    BY <1>12, <2>1, <1>e DEF DrainOpen, Ops, Left
  <2> QED
    BY <1>12, <1>k, <2>2 DEF DrainOpen
<1>13. CASE SendEnd \/ SendInterrupted
  <2>1. worker = "sending" /\ socket # 0 /\ socket = made /\ ~HasConnect(queue)
    BY <1>13 DEF SendEnd, SendInterrupted, Order, Core, Exclusive, Holding
  <2>2. Task("drop") \in Tasks /\ Task("drop").op = "drop" /\ Task("drop").conn = made
    BY <1>q, <2>1 DEF Task, Tasks, Ops
  <2>3. CASE queue' = queue
    BY <1>13, <1>k, <1>r, <2>1, <2>3 DEF SendEnd, SendInterrupted
  <2>4. CASE queue' = Append(queue, Task("drop"))
    <3>1. /\ LeftOf(queue', made) /\ LeftBefore(queue')
          /\ HasAnnounce(queue) => HasAnnounce(queue')
          /\ Introduced(queue) => Introduced(queue')
      BY <1>q, <2>1, <2>2, <2>4, AppendLeft DEF Left, Order
    <3> QED
      BY <1>13, <2>1, <3>1 DEF SendEnd, SendInterrupted, Order, Unannounced, Trying
  <2> QED
    BY <1>13, <2>3, <2>4 DEF SendEnd, SendInterrupted, Enqueue
<1>14. CASE ReceiverExit \/ ReceiverGot
  BY <1>14, <1>k, <1>r DEF ReceiverExit, ReceiverGot
<1>15. CASE ReceiverPost
  <2>1. Holding /\ ~HasConnect(queue) /\ ~Trying /\ worker \notin {"announce", "spawn"}
    BY <1>15 DEF ReceiverPost, Core, Exclusive, ReceiverOwned
  <2>2. CASE suppress
    BY <1>15, <1>k, <1>r, <2>2 DEF ReceiverPost
  <2>3. CASE ~suppress
    <3> DEFINE t == [op |-> receiver, conn |-> made]
    <3>1. t \in Tasks /\ t.op \in Left /\ t.conn = made /\ t.op # "onConnect"
      BY <1>15, <1>q DEF ReceiverPost, Tasks, Ops, Left
    <3>2. queue' = Append(queue, t)
      BY <1>15, <2>3 DEF ReceiverPost
    <3> HIDE DEF t
    <3>3. /\ LeftOf(queue, made) => LeftOf(queue', made)
          /\ LeftBefore(queue')
          /\ HasAnnounce(queue) => HasAnnounce(queue')
          /\ Introduced(queue) /\ HasAnnounce(queue) => Introduced(queue')
      BY <1>q, <2>1, <3>1, <3>2, AppendLeft
    <3> QED
      BY <1>15, <2>1, <2>3, <3>3 DEF ReceiverPost, Order, Unannounced, Trying
  <2> QED
    BY <2>2, <2>3
<1>16. CASE TimerFires
  BY <1>16, <1>k, <1>r DEF TimerFires
<1>17. CASE TimerCallback \/ PingPost
  <2>1. Keeps(queue, queue')
    BY <1>17, <1>r, <1>e DEF TimerCallback, PingPost, Ops, Left
  <2> QED
    BY <1>17, <1>k, <2>1 DEF TimerCallback, PingPost
<1>18. CASE PingTimeout
  BY <1>18, <1>k, <1>r DEF PingTimeout
<1>19. CASE OwnerConnect \/ OwnerPost
  <2>1. Keeps(queue, queue')
    BY <1>19, <1>r, <1>e DEF OwnerConnect, OwnerPost, Ops, Left
  <2> QED
    BY <1>19, <1>k, <2>1 DEF OwnerConnect, OwnerPost
<1>20. CASE OwnerDisable \/ OwnerCancel \/ OwnerAwait \/ OwnerDone
  BY <1>20, <1>k, <1>r DEF OwnerDisable, OwnerCancel, OwnerAwait, OwnerDone
<1>21. CASE UNCHANGED vars
  BY <1>21, <1>k, <1>r DEF vars
<1> QED
  BY <1>1, <1>2, <1>3, <1>4, <1>5, <1>6, <1>7, <1>8, <1>9, <1>10, <1>11,
     <1>12, <1>13, <1>14, <1>15, <1>16, <1>17, <1>18, <1>19, <1>20, <1>21
  DEF Next, Worker, Connect, Disconnect, Deliver, Receiver, TimerServer, Destroy

(* Both invariants hold throughout.                                        *)
THEOREM TcpOrdered == SafeSpec => [](TcpInv /\ Order)
<1>1. TcpInv /\ [Next]_vars => TcpInv'
  BY TcpTypeStep, CoreStep DEF TcpInv
<1> QED
  BY InitTcpInv, InitOrder, OrderStep, <1>1, PTL DEF SafeSpec

(* An error left behind by one connection never closes the next, and until *)
(* the subclass is destroyed it is told of every connection before it is   *)
(* given the first bytes of it: for any number of connections, and however *)
(* the receive thread, the timers, the worker and the owner interleave.    *)
THEOREM ConnectionsAreApartHolds == SafeSpec => []ConnectionsAreApart
<1>1. TcpInv /\ Order => ConnectionsAreApart
  <2> SUFFICES ASSUME TcpInv, Order, NEW op \in {"drop", "drain"}, Serving(op), socket # 0
               PROVE  /\ Head(queue).conn = socket
                      /\ op = "drain" /\ level = 1 => announced = socket
    BY DEF ConnectionsAreApart, StaleErrorIsHarmless, AnnouncedBeforeReceive
  <2>1. Head(queue) = queue[1] /\ 1 \in 1..Len(queue) /\ queue[1].op = op
    <3>1. queue \in Seq(Tasks)
      BY DEF TcpInv, TypeOK, Tasks
    <3> QED
      BY <3>1, HeadTailProperties, LenProperties, EmptySeq DEF Serving
  <2>2. Head(queue).conn = socket
    BY <2>1 DEF Order, LeftOf, Left
  <2>3. ASSUME op = "drain", level = 1 PROVE announced = socket
    <3>1. ~Introduced(queue)
      BY <2>1, <2>3 DEF Introduced
    <3> QED
      BY <2>3, <3>1 DEF Order, Unannounced
  <2> QED
    BY <2>2, <2>3
<1> QED
  BY <1>1, TcpOrdered, PTL
=============================================================================
