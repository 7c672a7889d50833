------------------------ MODULE TcpConnectionHandler ------------------------
(***************************************************************************)
(* The TCP client under the reporter and the radio integration:            *)
(* src/src/util/TcpConnectionHandler.cpp, with the subclass behaviour that *)
(* drives it (src/src/util/SocketIoClient.cpp).                            *)
(*                                                                         *)
(* Five threads meet here: the worker of the event queue (module           *)
(* ThreadedObject), which runs every ...Impl_; the receive thread; the     *)
(* timer server, which runs the callback of reconnectTimer_ and that of    *)
(* the subclass's ping timer; and the owner, which connects once and at    *)
(* some time destroys the object.                                          *)
(*                                                                         *)
(* The connections made are numbered from 1; 0 is INVALID_SOCKET.  A task  *)
(* of the queue is what it does and the connection it was enqueued for     *)
(* (the code does not keep the latter: it serves the properties only).     *)
(***************************************************************************)
EXTENDS Naturals, Sequences

CONSTANTS MaxConn,   \* bounds the number of connections made
          MaxQueue   \* bounds the queue for those who may enqueue forever

ASSUME MaxConnIsNat == MaxConn \in Nat
ASSUME MaxQueueIsNat == MaxQueue \in Nat

VARIABLES
    queue,            \* eventQueue_
    suppress,         \* suppressEnqueue_
    worker,           \* what the worker is doing
    closing,          \* the task whose disconnectImpl_ is running, or "none"
    socket,           \* socket_
    made,             \* number of connections made
    cancelConnect,    \* cancelConnect_
    enableReconnect,  \* enableReconnect_
    armed,            \* reconnectTimer_ is registered
    firing,           \* its callback has begun and not yet enqueued
    receiver,         \* receiveThread_
    terminated,       \* a joinable std::thread was assigned to
    watchdog,         \* the subclass's ping timer is running
    ping,             \* its callback is inside disconnect()
    announced,        \* the last connection onConnect_ was called for
    owner,            \* where the owner is
    level,            \* 1 in the subclass's destructor, 2 in the base's
    answered          \* the future of the destructor's disconnect()

connVars  == <<socket, made, receiver, terminated>>
flagVars  == <<cancelConnect, enableReconnect>>
timerVars == <<armed, firing>>
pingVars  == <<watchdog, ping>>
ownerVars == <<owner, level, answered, suppress>>
vars == <<queue, worker, closing, connVars, flagVars, timerVars, pingVars,
          announced, ownerVars>>

Conns == 1..MaxConn
Ops == {"connect", "disconnect", "shutdown", "drop", "onConnect", "drain", "send"}
Closers == {"disconnect", "shutdown", "drop"}
Task(op) == [op |-> op, conn |-> socket]

TypeOK ==
    /\ queue \in Seq([op : Ops, conn : 0..MaxConn])
    /\ worker \in {"idle", "resolving", "attempting", "announce", "spawn",
                   "joining", "sending"}
    /\ closing \in IF worker = "joining" THEN Closers ELSE {"none"}
    /\ socket \in 0..MaxConn /\ made \in 0..MaxConn /\ announced \in 0..MaxConn
    /\ receiver \in {"none", "select", "drain", "drop", "exited"}
    /\ {suppress, cancelConnect, enableReconnect, armed, firing, terminated,
        watchdog, ping, answered} \subseteq BOOLEAN
    /\ owner \in {"new", "using", "disabled", "cancelled", "await", "wait", "released"}
    /\ level \in {1, 2}

Init ==
    /\ queue = << >> /\ suppress = FALSE
    /\ worker = "idle" /\ closing = "none"
    /\ socket = 0 /\ made = 0 /\ receiver = "none" /\ terminated = FALSE
    /\ cancelConnect = FALSE /\ enableReconnect = FALSE
    /\ armed = FALSE /\ firing = FALSE
    /\ watchdog = FALSE /\ ping = FALSE /\ announced = 0
    /\ owner = "new" /\ level = 1 /\ answered = FALSE

(* enqueue_: silently refused while waitForAllTasksComplete_ runs.         *)
Enqueue(q, op) == IF suppress THEN q ELSE Append(q, Task(op))
Room == Len(queue) < MaxQueue

-----------------------------------------------------------------------------
(* connectImpl_ *)

Serving(op) == worker = "idle" /\ queue # << >> /\ Head(queue).op = op

(* getaddrinfo runs in two helper threads; the worker waits for them       *)
(* whether or not cancelConnect_ is set.                                   *)
ConnectBegin ==
    /\ Serving("connect")
    /\ queue' = Tail(queue)
    /\ worker' = "resolving"
    /\ UNCHANGED <<closing, connVars, flagVars, timerVars, pingVars, announced, ownerVars>>

(* The loops over the addresses and over the pending sockets are entered   *)
(* only while cancelConnect_ is not set.                                   *)
ConnectAttempt ==
    /\ worker = "resolving" /\ ~cancelConnect
    /\ worker' = "attempting"
    /\ UNCHANGED <<queue, closing, connVars, flagVars, timerVars, pingVars,
                   announced, ownerVars>>

(* One of the sockets connects first; the others are closed.               *)
ConnectSucceeds ==
    /\ worker = "attempting" /\ made < MaxConn
    /\ made' = made + 1
    /\ socket' = made + 1
    /\ worker' = "announce"
    /\ UNCHANGED <<queue, closing, receiver, terminated, flagVars, timerVars, pingVars,
                   announced, ownerVars>>

(* Seeded bug: no retry is scheduled when an attempt fails.                *)
FailWithoutRetry ==
    /\ worker \in {"resolving", "attempting"}
    /\ worker' = IF socket # 0 THEN "announce" ELSE "idle"
    /\ UNCHANGED <<queue, closing, connVars, flagVars, timerVars, pingVars,
                   announced, ownerVars>>

(* No address, no socket left, or cancelled.  Were there a connection      *)
(* already, it would be announced again.                                   *)
ConnectFails ==
    /\ worker \in {"resolving", "attempting"}
    /\ worker' = IF socket # 0 THEN "announce" ELSE "idle"
    /\ armed' = (armed \/ (socket = 0 /\ enableReconnect))
    /\ UNCHANGED <<queue, closing, connVars, flagVars, firing, pingVars,
                   announced, ownerVars>>

ConnectAnnounce ==
    /\ worker = "announce"
    /\ queue' = Enqueue(queue, "onConnect")
    /\ worker' = "spawn"
    /\ UNCHANGED <<closing, connVars, flagVars, timerVars, pingVars, announced, ownerVars>>

(* receiveThread_ = std::thread(...): std::terminate if the old one was    *)
(* never joined.                                                           *)
ConnectSpawn ==
    /\ worker = "spawn"
    /\ terminated' = (terminated \/ receiver # "none")
    /\ receiver' = "select"
    /\ worker' = "idle"
    /\ UNCHANGED <<queue, closing, socket, made, flagVars, timerVars, pingVars,
                   announced, ownerVars>>

Connect ==
    \/ ConnectBegin \/ ConnectAttempt \/ ConnectSucceeds \/ ConnectFails
    \/ ConnectAnnounce \/ ConnectSpawn

-----------------------------------------------------------------------------
(* disconnectImpl_, from a task of disconnect() or after an I/O error *)

(* Seeded bug: cancelConnect_ is not reset.                                *)
StayCancelled(op) ==
    /\ UNCHANGED cancelConnect
    /\ answered' = (answered \/ op = "shutdown")

(* What the task of disconnect() does after disconnectImpl_; the tasks     *)
(* enqueued after I/O errors do nothing more.                              *)
AfterClose(op) ==
    /\ cancelConnect' = (cancelConnect /\ op = "drop")
    /\ answered' = (answered \/ op = "shutdown")

CloseNothing(op) ==
    /\ Serving(op) /\ socket = 0
    /\ queue' = Tail(queue)
    /\ AfterClose(op)
    /\ UNCHANGED <<worker, closing, connVars, enableReconnect, timerVars, pingVars,
                   announced, owner, level, suppress>>

CloseSocket(op) ==
    /\ Serving(op) /\ socket # 0
    /\ queue' = Tail(queue)
    /\ socket' = 0
    /\ worker' = "joining"
    /\ closing' = op
    /\ UNCHANGED <<made, receiver, terminated, flagVars, timerVars, pingVars,
                   announced, ownerVars>>

(* Seeded bug: the receive thread is not joined before the retry.          *)
CloseWithoutJoin ==
    /\ worker = "joining"
    /\ worker' = "idle"
    /\ closing' = "none"
    /\ armed' = (armed \/ enableReconnect)
    /\ watchdog' = FALSE
    /\ AfterClose(closing)
    /\ UNCHANGED <<queue, connVars, enableReconnect, firing, ping,
                   announced, owner, level, suppress>>

(* Seeded bug: the end of disconnectImpl_ is skipped for an I/O error.     *)
CloseHalfway ==
    /\ worker = "joining" /\ receiver \in {"none", "exited"}
    /\ receiver' = "none"
    /\ worker' = "idle"
    /\ UNCHANGED <<queue, closing, socket, made, terminated, flagVars, timerVars, pingVars,
                   announced, ownerVars>>

(* The join, the subclass's onDisconnect_ (which stops the ping timer) and *)
(* the retry.                                                              *)
CloseFinish ==
    /\ worker = "joining" /\ receiver \in {"none", "exited"}
    /\ receiver' = "none"
    /\ worker' = "idle"
    /\ closing' = "none"
    /\ armed' = (armed \/ enableReconnect)
    /\ watchdog' = FALSE
    /\ AfterClose(closing)
    /\ UNCHANGED <<queue, socket, made, terminated, enableReconnect, firing, ping,
                   announced, owner, level, suppress>>

Disconnect ==
    \/ \E op \in Closers : CloseNothing(op) \/ CloseSocket(op)
    \/ CloseFinish

-----------------------------------------------------------------------------
(* The other tasks: onConnect_, the delivery of received bytes, sendImpl_ *)

(* SocketIoClient::onConnect_ sends the handshake through the queue.       *)
OnConnect ==
    /\ Serving("onConnect")
    /\ announced' = Head(queue).conn
    /\ queue' = Enqueue(Tail(queue), "send")
    /\ UNCHANGED <<worker, closing, connVars, flagVars, timerVars, pingVars, ownerVars>>

(* onReceive_, only while there is a connection: the peer's open message   *)
(* starts the ping timer, its ping is answered, its close message makes    *)
(* the subclass call disconnect().                                         *)
DrainClosed ==
    /\ Serving("drain") /\ socket = 0
    /\ queue' = Tail(queue)
    /\ UNCHANGED <<worker, closing, connVars, flagVars, timerVars, pingVars,
                   announced, ownerVars>>

DrainOpen ==
    /\ Serving("drain") /\ socket # 0
    /\ \/ queue' \in {Tail(queue), Enqueue(Tail(queue), "send")}
          /\ watchdog' = TRUE
          /\ UNCHANGED cancelConnect
       \/ /\ queue' = Enqueue(Tail(queue), "disconnect")
          /\ cancelConnect' = TRUE
          /\ UNCHANGED watchdog
    /\ UNCHANGED <<worker, closing, connVars, enableReconnect, timerVars, ping,
                   announced, ownerVars>>

SendClosed ==
    /\ Serving("send") /\ socket = 0
    /\ queue' = Tail(queue)
    /\ UNCHANGED <<worker, closing, connVars, flagVars, timerVars, pingVars,
                   announced, ownerVars>>

SendBegin ==
    /\ Serving("send") /\ socket # 0
    /\ queue' = Tail(queue)
    /\ worker' = "sending"
    /\ UNCHANGED <<closing, connVars, flagVars, timerVars, pingVars, announced, ownerVars>>

(* All bytes written, or an error that ends the loop.                      *)
SendEnd ==
    /\ worker = "sending"
    /\ queue' \in {queue, Enqueue(queue, "drop")}
    /\ worker' = "idle"
    /\ UNCHANGED <<closing, connVars, flagVars, timerVars, pingVars, announced, ownerVars>>

(* select fails: the connection is to be dropped, yet the loop goes on.    *)
SendInterrupted ==
    /\ worker = "sending" /\ Room
    /\ queue' = Enqueue(queue, "drop")
    /\ UNCHANGED <<worker, closing, connVars, flagVars, timerVars, pingVars,
                   announced, ownerVars>>

Deliver == OnConnect \/ DrainClosed \/ DrainOpen \/ SendClosed \/ SendBegin \/ SendEnd

-----------------------------------------------------------------------------
(* receiveImpl_ *)

ReceiverExit ==
    /\ receiver = "select" /\ socket = 0
    /\ receiver' = "exited"
    /\ UNCHANGED <<queue, worker, closing, socket, made, terminated, flagVars, timerVars,
                   pingVars, announced, ownerVars>>

(* Bytes, or the end of the stream or an error; the socket was still valid *)
(* when that was looked at, and need not be when the task is enqueued.     *)
ReceiverGot ==
    /\ receiver = "select" /\ socket # 0 /\ Room
    /\ receiver' \in {"drain", "drop"}
    /\ UNCHANGED <<queue, worker, closing, socket, made, terminated, flagVars, timerVars,
                   pingVars, announced, ownerVars>>

ReceiverPost ==
    /\ receiver \in {"drain", "drop"}
    /\ queue' = IF suppress THEN queue
                ELSE Append(queue, [op |-> receiver, conn |-> made])
    /\ receiver' = "select"
    /\ UNCHANGED <<worker, closing, socket, made, terminated, flagVars, timerVars,
                   pingVars, announced, ownerVars>>

Receiver == ReceiverExit \/ ReceiverPost

-----------------------------------------------------------------------------
(* The timer server: reconnectTimer_ and the subclass's ping timer *)

(* Seeded bug: the timer is a repeating one.                               *)
TimerRepeats ==
    /\ armed
    /\ firing' = TRUE
    /\ UNCHANGED <<queue, worker, closing, connVars, flagVars, armed, pingVars,
                   announced, ownerVars>>

TimerFires ==
    /\ armed
    /\ armed' = FALSE
    /\ firing' = TRUE
    /\ UNCHANGED <<queue, worker, closing, connVars, flagVars, pingVars, announced, ownerVars>>

TimerCallback ==
    /\ firing
    /\ firing' = FALSE
    /\ queue' = Enqueue(queue, "connect")
    /\ UNCHANGED <<worker, closing, connVars, flagVars, armed, pingVars, announced, ownerVars>>

(* No ping from the server in time: disconnect().  The ping timer is a     *)
(* member of the subclass and dies with it.                                *)
PingTimeout ==
    /\ watchdog /\ ~ping /\ ~firing /\ level = 1 /\ Room
    /\ ping' = TRUE
    /\ cancelConnect' = TRUE
    /\ UNCHANGED <<queue, worker, closing, connVars, enableReconnect, timerVars, watchdog,
                   announced, ownerVars>>

PingPost ==
    /\ ping
    /\ ping' = FALSE
    /\ queue' = Enqueue(queue, "disconnect")
    /\ UNCHANGED <<worker, closing, connVars, flagVars, timerVars, watchdog,
                   announced, ownerVars>>

TimerServer == (TimerFires /\ ~ping) \/ TimerCallback \/ PingPost

-----------------------------------------------------------------------------
(* The owner: connect(), then the destructors of subclass and base, which  *)
(* do the same: no more reconnects, disconnect() and wait for its future,  *)
(* waitForAllTasksComplete_.                                               *)

OwnerConnect ==
    /\ owner = "new"
    /\ owner' = "using"
    /\ cancelConnect' = FALSE
    /\ enableReconnect' = TRUE
    /\ queue' = Enqueue(queue, "connect")
    /\ UNCHANGED <<worker, closing, connVars, timerVars, pingVars, announced,
                   level, answered, suppress>>

OwnerDisable ==
    /\ owner \in {"new", "using"}
    /\ owner' = "disabled"
    /\ enableReconnect' = FALSE
    /\ UNCHANGED <<queue, worker, closing, connVars, cancelConnect, timerVars, pingVars,
                   announced, level, answered, suppress>>

OwnerCancel ==
    /\ owner = "disabled"
    /\ owner' = "cancelled"
    /\ cancelConnect' = TRUE
    /\ UNCHANGED <<queue, worker, closing, connVars, enableReconnect, timerVars, pingVars,
                   announced, level, answered, suppress>>

(* Seeded bug: the wait for the queue is begun before disconnect().        *)
PostSuppressed ==
    /\ owner = "cancelled"
    /\ owner' = "await"
    /\ answered' = FALSE
    /\ suppress' = TRUE
    /\ UNCHANGED <<queue, worker, closing, connVars, flagVars, timerVars, pingVars,
                   announced, level>>

OwnerPost ==
    /\ owner = "cancelled"
    /\ owner' = "await"
    /\ answered' = FALSE
    /\ queue' = Enqueue(queue, "shutdown")
    /\ UNCHANGED <<worker, closing, connVars, flagVars, timerVars, pingVars,
                   announced, level, suppress>>

OwnerAwait ==
    /\ owner = "await" /\ answered
    /\ owner' = "wait"
    /\ suppress' = TRUE
    /\ UNCHANGED <<queue, worker, closing, connVars, flagVars, timerVars, pingVars,
                   announced, level, answered>>

(* The wait ends with the queue empty, or after 250 ms.  Between the two   *)
(* destructors the members of the subclass die: ~ThreadedTimer stops the   *)
(* ping timer.                                                             *)
OwnerDone ==
    /\ owner = "wait"
    /\ suppress' = FALSE
    /\ owner' = IF level = 1 THEN "disabled" ELSE "released"
    /\ level' = 2
    /\ watchdog' = FALSE
    /\ UNCHANGED <<queue, worker, closing, connVars, flagVars, timerVars, ping,
                   announced, answered>>

Destroy == OwnerCancel \/ OwnerPost \/ OwnerAwait \/ OwnerDone

Worker == Connect \/ Disconnect \/ Deliver

Alive == owner # "released"

Next ==
    /\ Alive
    /\ \/ Worker \/ SendInterrupted
       \/ ReceiverGot \/ Receiver
       \/ PingTimeout \/ TimerServer
       \/ OwnerConnect \/ OwnerDisable \/ Destroy

SafeSpec == Init /\ [][Next]_vars

(* Every thread that can run does run.  A connection attempt ends (the     *)
(* operating system gives up at last) and so does a write; nothing obliges *)
(* an attempt to succeed, the peer to send, or the owner to do anything.   *)
Fairness ==
    /\ WF_vars(Alive /\ Worker)
    /\ WF_vars(Alive /\ Receiver)
    /\ WF_vars(Alive /\ TimerServer)
    /\ WF_vars(Alive /\ Destroy)

Spec == SafeSpec /\ Fairness
-----------------------------------------------------------------------------
(* Properties *)

Queued(op) == \E i \in 1..Len(queue) : queue[i].op = op
Trying == worker \in {"resolving", "attempting"}
Holding == socket # 0 \/ worker = "joining"

(* Wherever the next connection is to come from, there is only one such    *)
(* place: a queued connectImpl_, one that runs, the retry timer, its       *)
(* callback, or the connection there already is.                           *)
SingleAttempt ==
    LET places == {"queue", "worker", "timer", "callback", "socket"}
        at(p) == CASE p = "queue"    -> Queued("connect")
                   [] p = "worker"   -> Trying
                   [] p = "timer"    -> armed
                   [] p = "callback" -> firing
                   [] p = "socket"   -> Holding
    IN  \A p, q \in places : at(p) /\ at(q) => p = q

(* No thread is ever started over one that was not joined (477), which     *)
(* would end the program: nothing in connectImpl_ itself prevents it.      *)
NeverTerminates == ~terminated

(* A client that is to reconnect never forgets to: as long as nobody has   *)
(* begun to destroy it, some next attempt is under way or scheduled.       *)
RetryPending ==
    owner = "using" => Queued("connect") \/ Trying \/ armed \/ firing \/ Holding

(* An error seen on one connection never closes a later one (526-529): the *)
(* tasks it left behind find either their own connection or none.          *)
StaleErrorIsHarmless ==
    Serving("drop") /\ socket # 0 => Head(queue).conn = socket

(* The subclass sees a connection before any of its bytes (474-477): it    *)
(* would parse them with the state of the connection before.               *)
AnnouncedBeforeReceive ==
    level = 1 /\ Serving("drain") /\ socket # 0 => announced = socket

(* The connections are kept apart: neither the errors nor the bytes of one *)
(* are taken for those of the next.                                        *)
ConnectionsAreApart == StaleErrorIsHarmless /\ AnnouncedBeforeReceive

(* Without a connection, an attempt to make one is eventually begun that   *)
(* is not cancelled from the start, whatever errors, pings and disconnects *)
(* came before.                                                            *)
KeepsTrying ==
    owner = "using" /\ socket = 0 ~> (Trying /\ ~cancelConnect) \/ owner # "using"

(* The destructors return: their disconnect() is never refused by the      *)
(* queue, and its future is always answered.                               *)
DestructorReturns == owner = "disabled" ~> owner = "released"

(* TcpConnectionHandler.cpp:86, in the destructor: "Make sure we're        *)
(* disconnected before destroying."                                        *)
DisconnectedWhenReleased == owner = "released" => socket = 0 /\ receiver = "none"

=============================================================================
