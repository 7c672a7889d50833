--------------------------- MODULE FreeDVReporter ---------------------------
(***************************************************************************)
(* Reporting the own station to FreeDV Reporter:                           *)
(* src/src/reporting/FreeDVReporter.cpp on src/src/util/SocketIoClient.cpp *)
(* on a TCP connection that comes and goes.                                *)
(*                                                                         *)
(* The user interface calls freqChange, transmit, updateMessage, hideFrom- *)
(* View and showOurselves at any time; the worker of the event queue runs  *)
(* everything else.  objMutex_ makes each call one step.  What is emitted  *)
(* goes through the queue twice: emit enqueues a task that hands the       *)
(* message to the websocket, whose write handler enqueues the sendImpl_.   *)
(*                                                                         *)
(* The connection itself is modelled in TcpConnectionHandler; here a       *)
(* connectImpl_ or disconnectImpl_ is one step.  Messages in transit are   *)
(* lost when the connection drops.  The websocket library and the server   *)
(* are external: the server answers the handshake, then the authentication *)
(* with connection_successful, and applies every report in order.          *)
(*                                                                         *)
(* Every edit of a field is a new version, so that a late report can be    *)
(* told from the current one.                                              *)
(***************************************************************************)
EXTENDS Naturals, Sequences

CONSTANTS NFields,   \* what is reported: 1 frequency, 2 mode and PTT, 3 message
          MaxConn,   \* bounds the number of connections
          MaxEdits   \* bounds the calls of the user interface

ASSUME NFieldsIsNat == NFields \in Nat
ASSUME MaxConnIsNat == MaxConn \in Nat
ASSUME MaxEditsIsNat == MaxEdits \in Nat

VARIABLES
    queue,       \* eventQueue_ of the SocketIoClient
    socket,      \* whether socket_ is valid
    made,        \* number of connections made
    failing,     \* an error of this connection has been queued
    retry,       \* reconnectTimer_ is running
    websocket,   \* state of connection_
    registered,  \* whether the event handlers are in eventFnMap_
    saved,       \* lastFrequency_; mode_ and tx_; message_
    hidden,      \* hidden_
    full,        \* isFullyConnected_
    edits,       \* calls of the user interface so far
    toServer,    \* in transit to the server
    toClient,    \* in transit from the server
    session,     \* the server has accepted the authentication
    seen,        \* the server's version of each field, 0 if it has none
    shown        \* the server shows the station to others

tcpVars    == <<socket, made, failing, retry>>
uiVars     == <<saved, hidden, edits>>
netVars    == <<toServer, toClient>>
serverVars == <<session, seen, shown>>
vars == <<queue, tcpVars, websocket, registered, uiVars, full, netVars, serverVars>>

Fields == 1..NFields
Versions == 1..(MaxEdits + 1)
Kinds == {"hello", "opened", "auth", "success", "set", "hide", "show"}
Messages == [kind : Kinds, field : Fields \cup {0}, version : Versions \cup {0}]
Msg(kind) == [kind |-> kind, field |-> 0, version |-> 0]
Set(f, v) == [kind |-> "set", field |-> f, version |-> v]

Ops == {"connect", "onConnect", "register", "receive", "drop", "event", "emit", "send"}
Task(op, msg) == [op |-> op, msg |-> msg]
Plain(op) == Task(op, Msg("hello"))

Blank == [f \in Fields |-> 0]

TypeOK ==
    /\ queue \in Seq([op : Ops, msg : Messages])
    /\ {socket, failing, retry, hidden, full, session, shown} \subseteq BOOLEAN
    /\ made \in 0..MaxConn
    /\ edits \in 0..MaxEdits
    /\ websocket \in {"none", "connecting", "open", "closed"}
    /\ registered \in {"no", "queued", "yes"}
    /\ saved \in [Fields -> Versions]
    /\ seen \in [Fields -> Versions \cup {0}]
    /\ toServer \in Seq(Messages) /\ toClient \in Seq(Messages)
    /\ (session => socket) /\ (retry => ~socket)

(* connect_ has just enqueued the first connectImpl_.  The saved fields    *)
(* and hidden_ were set before it was called.                              *)
Init ==
    /\ queue = <<Plain("connect")>>
    /\ socket = FALSE /\ made = 0 /\ failing = FALSE /\ retry = FALSE
    /\ websocket = "none" /\ registered = "no"
    /\ saved = [f \in Fields |-> 1] /\ hidden \in BOOLEAN /\ edits = 0
    /\ full = FALSE
    /\ toServer = << >> /\ toClient = << >>
    /\ session = FALSE /\ seen = Blank /\ shown = TRUE

-----------------------------------------------------------------------------
(* The user interface *)

(* The rest of connect_: on(...) enqueues the registration of handlers.    *)
Register ==
    /\ registered = "no"
    /\ registered' = "queued"
    /\ queue' = Append(queue, Plain("register"))
    /\ UNCHANGED <<tcpVars, websocket, uiVars, full, netVars, serverVars>>

Call ==
    /\ registered # "no" /\ edits < MaxEdits
    /\ edits' = edits + 1
    /\ UNCHANGED <<tcpVars, websocket, registered, full, netVars, serverVars>>

Emit(kind) == <<Task("emit", Msg(kind))>>
EmitSaved == [f \in Fields |-> Task("emit", Set(f, saved[f]))]

(* Seeded bug: an edit that can be sent is not saved for a reconnect.      *)
ChangeUnsaved(f) ==
    /\ Call
    /\ saved' = IF full THEN saved ELSE [saved EXCEPT ![f] = edits + 2]
    /\ queue' = IF full THEN Append(queue, Task("emit", Set(f, edits + 2))) ELSE queue
    /\ UNCHANGED hidden

(* freqChangeImpl_, transmitImpl_, sendMessageImpl_                        *)
Change(f) ==
    /\ Call
    /\ saved' = [saved EXCEPT ![f] = edits + 2]
    /\ queue' = IF full THEN Append(queue, Task("emit", Set(f, edits + 2))) ELSE queue
    /\ UNCHANGED hidden

HideFromView ==
    /\ Call
    /\ hidden' = TRUE
    /\ queue' = IF full THEN queue \o Emit("hide") ELSE queue
    /\ UNCHANGED saved

ShowOurselves ==
    /\ Call
    /\ hidden' = FALSE
    /\ queue' = IF full THEN queue \o Emit("show") \o EmitSaved ELSE queue
    /\ UNCHANGED saved

-----------------------------------------------------------------------------
(* Tasks of the event queue *)

Serving(op) == queue # << >> /\ Head(queue).op = op
Served == Head(queue).msg

(* Seeded bug: the retry timer is started although the attempt succeeded.  *)
ConnectKeepsTimer ==
    /\ Serving("connect") /\ made < MaxConn
    /\ queue' = Append(Tail(queue), Plain("onConnect"))
    /\ socket' = TRUE /\ made' = made + 1 /\ failing' = FALSE /\ retry' = TRUE
    /\ UNCHANGED <<websocket, registered, uiVars, full, netVars, serverVars>>

ConnectSucceeds ==
    /\ Serving("connect") /\ made < MaxConn
    /\ queue' = Append(Tail(queue), Plain("onConnect"))
    /\ socket' = TRUE /\ made' = made + 1 /\ failing' = FALSE
    /\ UNCHANGED <<retry, websocket, registered, uiVars, full, netVars, serverVars>>

(* Seeded bug: a failed attempt is the last one.                           *)
GiveUp ==
    /\ Serving("connect")
    /\ queue' = Tail(queue)
    /\ UNCHANGED <<tcpVars, websocket, registered, uiVars, full, netVars, serverVars>>

ConnectFails ==
    /\ Serving("connect")
    /\ queue' = Tail(queue)
    /\ retry' = TRUE
    /\ UNCHANGED <<socket, made, failing, websocket, registered, uiVars, full,
                   netVars, serverVars>>

(* SocketIoClient::onConnect_: a new connection_ starts the handshake.     *)
OnConnect ==
    /\ Serving("onConnect")
    /\ websocket' = "connecting"
    /\ queue' = Append(Tail(queue), Task("send", Msg("hello")))
    /\ UNCHANGED <<tcpVars, registered, uiVars, full, netVars, serverVars>>

RegisterHandlers ==
    /\ Serving("register")
    /\ registered' = "yes"
    /\ queue' = Tail(queue)
    /\ UNCHANGED <<tcpVars, websocket, uiVars, full, netVars, serverVars>>

(* onReceive_ parses what the receive thread has read, unless the socket   *)
(* is gone: the end of the handshake opens the websocket, whose open       *)
(* handler authenticates; an event becomes a task of its own.              *)
Receive ==
    /\ Serving("receive")
    /\ LET opens == socket /\ Served.kind = "opened"
           fires == socket /\ Served.kind = "success"
       IN  /\ websocket' = IF opens THEN "open" ELSE websocket
           /\ queue' = Tail(queue) \o
                 (IF opens THEN <<Task("send", Msg("auth"))>>
                  ELSE IF fires THEN <<Task("event", Served)>> ELSE << >>)
    /\ UNCHANGED <<tcpVars, registered, uiVars, full, netVars, serverVars>>

(* disconnectImpl_, onDisconnect_ and the handler set by connect_; the     *)
(* retry timer is started.                                                 *)
Drop ==
    /\ Serving("drop")
    /\ queue' = Tail(queue)
    /\ socket' = FALSE /\ retry' = TRUE
    /\ websocket' = IF websocket = "none" THEN "none" ELSE "closed"
    /\ full' = FALSE
    /\ toServer' = << >> /\ toClient' = << >>
    /\ session' = FALSE /\ seen' = Blank /\ shown' = TRUE
    /\ UNCHANGED <<made, failing, registered, uiVars>>

(* Seeded bug: only the first connection reports what was saved.           *)
SuccessReportsOnce ==
    /\ Serving("event") /\ registered = "yes"
    /\ full' = TRUE
    /\ queue' = Tail(queue) \o (IF hidden THEN Emit("hide")
                                ELSE IF made = 1 THEN EmitSaved ELSE << >>)
    /\ UNCHANGED <<tcpVars, websocket, registered, uiVars, netVars, serverVars>>

(* fireEvent finds no handler before on(...) has run; then                 *)
(* onFreeDVReporterConnectionSuccessful_ reports all that was saved.       *)
EventUnheard ==
    /\ Serving("event") /\ registered # "yes"
    /\ queue' = Tail(queue)
    /\ UNCHANGED <<tcpVars, websocket, registered, uiVars, full, netVars, serverVars>>

ConnectionSuccessful ==
    /\ Serving("event") /\ registered = "yes"
    /\ full' = TRUE
    /\ queue' = Tail(queue) \o (IF hidden THEN Emit("hide") ELSE EmitSaved)
    /\ UNCHANGED <<tcpVars, websocket, registered, uiVars, netVars, serverVars>>

(* connection_->send: refused unless the websocket is open; the write      *)
(* handler enqueues the sendImpl_.                                         *)
EmitTask ==
    /\ Serving("emit")
    /\ queue' = IF websocket = "open" THEN Append(Tail(queue), Task("send", Served))
                ELSE Tail(queue)
    /\ UNCHANGED <<tcpVars, websocket, registered, uiVars, full, netVars, serverVars>>

SendTask ==
    /\ Serving("send")
    /\ queue' = Tail(queue)
    /\ toServer' = IF socket THEN Append(toServer, Served) ELSE toServer
    /\ UNCHANGED <<tcpVars, websocket, registered, uiVars, full, toClient, serverVars>>

Worker ==
    \/ ConnectSucceeds \/ ConnectFails \/ OnConnect \/ RegisterHandlers \/ Receive
    \/ Drop \/ EventUnheard \/ ConnectionSuccessful \/ EmitTask \/ SendTask

-----------------------------------------------------------------------------
(* The other threads of the client *)

RetryTimer ==
    /\ retry
    /\ retry' = FALSE
    /\ queue' = Append(queue, Plain("connect"))
    /\ UNCHANGED <<socket, made, failing, websocket, registered, uiVars, full,
                   netVars, serverVars>>

ReceiveThread ==
    /\ socket /\ toClient # << >>
    /\ queue' = Append(queue, Task("receive", Head(toClient)))
    /\ toClient' = Tail(toClient)
    /\ UNCHANGED <<tcpVars, websocket, registered, uiVars, full, toServer, serverVars>>

(* An error, a close message or a missing ping.                            *)
ConnectionFails ==
    /\ socket /\ ~failing /\ made < MaxConn
    /\ failing' = TRUE
    /\ queue' = Append(queue, Plain("drop"))
    /\ UNCHANGED <<socket, made, retry, websocket, registered, uiVars, full,
                   netVars, serverVars>>

-----------------------------------------------------------------------------
(* The server *)

Arriving(kind) == toServer # << >> /\ Head(toServer).kind = kind

Take ==
    /\ toServer' = Tail(toServer)
    /\ UNCHANGED <<queue, tcpVars, websocket, registered, uiVars, full>>

ServerOpens ==
    /\ Arriving("hello") /\ Take
    /\ toClient' = Append(toClient, Msg("opened"))
    /\ UNCHANGED serverVars

ServerAccepts ==
    /\ Arriving("auth") /\ Take
    /\ toClient' = Append(toClient, Msg("success"))
    /\ session' = TRUE
    /\ UNCHANGED <<seen, shown>>

ServerApplies ==
    /\ \E kind \in {"set", "hide", "show"} : Arriving(kind)
    /\ Take
    /\ LET msg == Head(toServer) IN
       /\ seen' = IF session /\ msg.kind = "set"
                  THEN [seen EXCEPT ![msg.field] = msg.version] ELSE seen
       /\ shown' = IF session /\ msg.kind # "set" THEN msg.kind = "show" ELSE shown
    /\ UNCHANGED <<toClient, session>>

Server == ServerOpens \/ ServerAccepts \/ ServerApplies

Next ==
    \/ Register \/ HideFromView \/ ShowOurselves
    \/ \E f \in Fields : Change(f)
    \/ Worker \/ RetryTimer \/ ReceiveThread \/ ConnectionFails \/ Server

SafeSpec == Init /\ [][Next]_vars

(* Threads and messages make progress, and the server is reachable in the  *)
(* end.  Nothing obliges the user to do anything.                          *)
Fairness ==
    /\ WF_vars(Worker) /\ SF_vars(ConnectSucceeds)
    /\ WF_vars(RetryTimer) /\ WF_vars(ReceiveThread) /\ WF_vars(Server)

Spec == SafeSpec /\ Fairness
-----------------------------------------------------------------------------
(* Properties *)

Settled == session /\ queue = << >> /\ toServer = << >> /\ toClient = << >>
Converged == IF hidden THEN ~shown ELSE shown /\ seen = saved

(* Once everything on its way has arrived, the server shows what the       *)
(* station wants, whatever was edited, hidden or lost on the way, through  *)
(* two queues and across connections (408-434, 653-729).                   *)
ConvergedWhenSettled == Settled /\ full => Converged

(* The server's picture only moves forward within a session and holds      *)
(* nothing the station never wanted: a report never overtakes a later one, *)
(* and none is replayed after a reconnect (79-118, 539-599).               *)
View == INSTANCE StationView WITH wanted <- saved
ImplementsView == View!Spec

(* A connection that is lost after the handlers were registered is made    *)
(* again, and the server ends up with the current picture.                 *)
EventuallyReported == registered = "yes" /\ ~socket ~> Settled /\ Converged
=============================================================================
