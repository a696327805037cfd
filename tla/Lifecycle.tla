------------------------------ MODULE Lifecycle ------------------------------
(***************************************************************************)
(* Connecting, reconnecting and disconnecting one MQTTClient: the          *)
(* application thread and isRunning, the serial operation queue and its    *)
(* worker, and the network thread of libmosquitto, which share the state,  *)
(* the socket and the packet queue of struct mosquitto.                    *)
(*                                                                         *)
(* A thread's position is kept at the points where another thread's step   *)
(* can matter: where a mutex is released, where the socket is set or       *)
(* closed, before a callback, and between the unlocked test and assignment *)
(* of handle_connack.                                                      *)
(***************************************************************************)
EXTENDS Integers, Sequences

CONSTANTS
  Configs,   \* the configurations a client may be made with
  MaxCalls,  \* bound: calls of the application
  MaxLoss    \* bound: lost, refused and failed connections

(* What newConnection is given.  immediately: connectTo() is called at     *)
(* once; reconnect: mqttReconnOpts is not nil (mosq->reconnect_enabled);   *)
(* keepalive: the interval is not 0; fatal: the broker may send a          *)
(* malformed packet.                                                       *)
AllConfigs ==
  [immediately : BOOLEAN, reconnect : BOOLEAN, keepalive : BOOLEAN, fatal : BOOLEAN]

ASSUME LifecycleAssumption ==
  /\ Configs \subseteq AllConfigs
  /\ MaxCalls \in Nat
  /\ MaxLoss \in Nat

VARIABLES
  config,       \* the configuration of this client; never changed
  isRunning,    \* MQTTClient.isRunning
  queue,        \* operations waiting in serialQueue
  calls,        \* calls the application has made
  worker,       \* where the operation being executed stands
  resume,       \* ... and where it goes on after _mosquitto_packet_queue
  thread,       \* where the network thread stands; "none": not started
  error,        \* what made the network thread give up the socket
  threaded,     \* mosq->threaded
  host,         \* has mosq->host been set?
  state,        \* mosq->state
  sock,         \* mosq->sock: is there a socket?
  out_packet,   \* the packet queue
  link,         \* the broker's side of the socket
  isConnected,  \* __MosquittoContext.isConnected
  asked,        \* history: was disconnect() the last call that connects or
                \* disconnects to be executed?
  losses

app == <<isRunning, queue, calls>>
operation == <<worker, resume, asked>>
net == <<state, sock, out_packet, link, isConnected>>
vars == <<config, app, operation, thread, error, threaded, host, net, losses>>

Operations == {"connect", "reconnect", "request", "disconnect", "cleanup"}

TypeOK ==
  /\ config \in Configs
  /\ isRunning \in BOOLEAN
  /\ queue \in Seq(Operations)
  /\ calls \in 0 .. MaxCalls
  /\ worker \in {"idle", "r1", "r2", "r3", "r4", "start", "send", "d1", "d2",
                "write", "report", "join", "cleanup", "gone"}
  /\ resume \in {"idle", "start", "join"}
  /\ thread \in {"none", "loop", "connack", "error", "closed", "report0", "report1",
                "check", "sleep", "r1", "r2", "r3", "r4", "ended"}
  /\ error \in {"none", "lost", "fatal", "keepalive", "ping", "written"}
  /\ threaded \in BOOLEAN
  /\ host \in BOOLEAN
  /\ state \in {"new", "connected", "disconnecting"}
  /\ sock \in BOOLEAN
  /\ out_packet \in Seq({"CONNECT", "REQUEST", "DISCONNECT"})
  /\ link \in {"none", "idle", "connack", "live", "closed"}
  /\ isConnected \in BOOLEAN
  /\ asked \in BOOLEAN
  /\ losses \in 0 .. MaxLoss

Init ==
  /\ config \in Configs
  /\ isRunning = config.immediately
  /\ queue = IF config.immediately THEN <<"connect">> ELSE <<>>
  /\ calls = 0
  /\ worker = "idle"
  /\ resume = "idle"
  /\ thread = "none"
  /\ error = "none"
  /\ threaded = FALSE
  /\ host = FALSE
  /\ state = "new"
  /\ sock = FALSE
  /\ out_packet = <<>>
  /\ link = "none"
  /\ isConnected = FALSE
  /\ asked = FALSE
  /\ losses = 0

-----------------------------------------------------------------------------
(* The application: calls only put an operation into the serial queue.     *)

Call(ops) ==
  /\ calls < MaxCalls
  /\ calls' = calls + 1
  /\ queue' = queue \o ops
  /\ UNCHANGED <<config, operation, thread, error, threaded, host, net, losses>>

Released == worker \in {"cleanup", "gone"} \/ \E i \in DOMAIN queue : queue[i] = "cleanup"

ConnectTo ==
  /\ ~ Released
  /\ isRunning' = TRUE
  /\ Call(<<"connect">>)

Reconnect ==
  /\ ~ Released
  /\ isRunning' = TRUE
  /\ Call(<<"reconnect">>)

\* publish, subscribe and unsubscribe: one packet each, as far as this module
\* is concerned
Request ==
  /\ ~ Released
  /\ Call(<<"request">>)
  /\ UNCHANGED isRunning

Disconnect ==
  /\ ~ Released
  /\ isRunning
  /\ isRunning' = FALSE
  /\ Call(<<"disconnect">>)

\* Mutant: deinit only cleans up.
DeinitAtOnce ==
  /\ ~ Released
  /\ isRunning' = FALSE
  /\ Call(<<"cleanup">>)

\* deinit: disconnect(), then the clean-up of the context
Deinit ==
  /\ ~ Released
  /\ isRunning' = FALSE
  /\ Call(IF isRunning THEN <<"disconnect", "cleanup">> ELSE <<"cleanup">>)

-----------------------------------------------------------------------------
(* _mosquitto_reconnect, run by the worker and by the network thread.      *)

\* Mutant: the state of mosquitto_connect_async
ReconnectBeginAsync ==
  /\ state' = "connect_async"
  /\ UNCHANGED <<sock, out_packet, link, isConnected, losses>>

\* State to new, under its mutex
ReconnectBegin ==
  /\ state' = "new"
  /\ UNCHANGED <<sock, out_packet, link, isConnected, losses>>

\* Queued packets are dropped, and messages reset.
ReconnectPurge ==
  /\ out_packet' = <<>>
  /\ UNCHANGED <<state, sock, link, isConnected, losses>>

\* A blocking connect: the socket is there, for the other thread too
SocketConnect ==
  /\ sock' = TRUE
  /\ link' = "idle"
  /\ UNCHANGED <<state, out_packet, isConnected, losses>>

SocketConnectFails ==
  /\ losses < MaxLoss
  /\ losses' = losses + 1
  /\ UNCHANGED net

\* _mosquitto_packet_write takes the packet at the head of the queue; DISCONNECT
\* closes the socket, and is reported next.  A broker closes a connection that
\* does not begin with CONNECT, or that sends a second one.
PacketWrite ==
  /\ sock
  /\ out_packet # <<>>
  /\ out_packet' = Tail(out_packet)
  /\ sock' = (Head(out_packet) # "DISCONNECT")
  /\ link' = CASE Head(out_packet) = "CONNECT" ->
                     IF link = "idle" THEN "connack" ELSE "closed"
               [] Head(out_packet) = "REQUEST" ->
                     IF link = "idle" THEN "closed" ELSE link
               [] Head(out_packet) = "DISCONNECT" -> "none"
  /\ UNCHANGED <<state, isConnected, losses>>

-----------------------------------------------------------------------------
(* The worker of the serial queue.                                         *)

WorkerGoes(from, to) ==
  /\ worker = from
  /\ worker' = to
  /\ UNCHANGED <<config, app, thread, error, threaded, host>>

\* _mosquitto_packet_queue on the way from one position to another: without a
\* network thread the worker writes the queue itself.
PacketQueue(p, from, to) ==
  /\ WorkerGoes(from, IF threaded THEN to ELSE "write")
  /\ resume' = IF threaded THEN resume ELSE to
  /\ out_packet' = Append(out_packet, p)
  /\ UNCHANGED <<asked, state, sock, link, isConnected, losses>>

\* Take the next operation.  reconnect() without a host is MOSQ_ERR_INVAL, and
\* the network thread is started all the same.
FirstStep(op) ==
  CASE op = "connect" -> "r1"
    [] op = "reconnect" -> IF host THEN "r1" ELSE "start"
    [] op = "request" -> "send"
    [] op = "disconnect" -> "d1"
    [] op = "cleanup" -> "cleanup"

WorkerTakes ==
  /\ worker = "idle"
  /\ queue # <<>>
  /\ queue' = Tail(queue)
  /\ worker' = FirstStep(Head(queue))
  /\ asked' = (asked /\ Head(queue) \notin {"connect", "reconnect"})
  /\ host' = (host \/ Head(queue) = "connect")
  /\ state' = IF Head(queue) = "connect" THEN "new" ELSE state
  /\ UNCHANGED <<config, isRunning, calls, resume, thread, error, threaded, sock,
                 out_packet, link, isConnected, losses>>

WorkerReconnects ==
  \/ /\ \/ WorkerGoes("r1", "r2") /\ ReconnectBegin
        \/ WorkerGoes("r2", "r3") /\ ReconnectPurge
        \/ WorkerGoes("r3", "r4") /\ SocketConnect
        \/ WorkerGoes("r3", "start") /\ SocketConnectFails
     /\ UNCHANGED <<resume, asked>>
  \/ PacketQueue("CONNECT", "r4", "start")

\* The worker in _mosquitto_packet_write: the whole queue from its head ...
WorkerWrites ==
  /\ PacketWrite
  /\ WorkerGoes("write", IF Head(out_packet) = "DISCONNECT" THEN "report" ELSE "write")
  /\ UNCHANGED <<resume, asked>>

\* ... until it is empty, the network takes no more, or there is an error ...
WorkerStopsWriting ==
  /\ WorkerGoes("write", resume)
  /\ resume' = "idle"
  /\ UNCHANGED <<asked, net, losses>>

\* ... or DISCONNECT was written, and on_disconnect(0) is called.
WorkerReports ==
  /\ WorkerGoes("report", resume)
  /\ resume' = "idle"
  /\ isConnected' = FALSE
  /\ UNCHANGED <<asked, state, sock, out_packet, link, losses>>

\* mosquitto_loop_start: MOSQ_ERR_INVAL if threaded is set already
WorkerStarts ==
  /\ worker = "start"
  /\ worker' = "idle"
  /\ threaded' = TRUE
  /\ thread' = IF threaded THEN thread ELSE "loop"
  /\ UNCHANGED <<config, app, resume, asked, error, host, net, losses>>

\* Without a socket a request fails with MOSQ_ERR_NO_CONN.
WorkerSendsRequest ==
  \/ sock /\ PacketQueue("REQUEST", "send", "idle")
  \/ ~ sock /\ WorkerGoes("send", "idle") /\ UNCHANGED <<resume, asked, net, losses>>

\* mosquitto_disconnect: the state under its mutex, then the socket
WorkerDisconnecting ==
  /\ WorkerGoes("d1", "d2")
  /\ state' = "disconnecting"
  /\ asked' = TRUE
  /\ UNCHANGED <<resume, sock, out_packet, link, isConnected, losses>>

\* Mutant: DISCONNECT is not sent.
WorkerSendsNothing ==
  WorkerGoes("d2", "join") /\ UNCHANGED <<resume, asked, net, losses>>

WorkerSendsDisconnect ==
  \/ sock /\ PacketQueue("DISCONNECT", "d2", "join")
  \/ ~ sock /\ WorkerGoes("d2", "join") /\ UNCHANGED <<resume, asked, net, losses>>

\* mosquitto_loop_stop: pthread_join
WorkerJoins ==
  /\ worker = "join"
  /\ worker' = "idle"
  /\ threaded => thread = "ended"
  /\ threaded' = FALSE
  /\ thread' = "none"
  /\ UNCHANGED <<config, app, resume, asked, error, host, net, losses>>

\* mosquitto_destroy: a thread still there is cancelled
WorkerCleansUp ==
  /\ worker = "cleanup"
  /\ worker' = "gone"
  /\ threaded' = FALSE
  /\ thread' = "none"
  /\ error' = "none"
  /\ sock' = FALSE
  /\ link' = "none"
  /\ out_packet' = <<>>
  /\ UNCHANGED <<config, app, resume, asked, host, state, isConnected, losses>>

Worker ==
  \/ WorkerTakes \/ WorkerReconnects \/ WorkerWrites \/ WorkerStopsWriting
  \/ WorkerReports \/ WorkerStarts \/ WorkerSendsRequest
  \/ WorkerDisconnecting \/ WorkerSendsDisconnect \/ WorkerJoins \/ WorkerCleansUp

-----------------------------------------------------------------------------
(* The network thread: mosquitto_loop_forever.                             *)

ThreadGoes(from, to) ==
  /\ thread = from
  /\ thread' = to
  /\ UNCHANGED <<config, app, operation, threaded, host>>

Lossy == losses < MaxLoss /\ losses' = losses + 1

\* mosquitto_loop_write, one packet at a time
LoopWrite ==
  /\ PacketWrite
  /\ IF Head(out_packet) = "DISCONNECT"
     THEN ThreadGoes("loop", "report0") /\ error' = "written"
     ELSE ThreadGoes("loop", "loop") /\ UNCHANGED error

\* _mosquitto_handle_connack of an accepted connection: on_connect(0), then
\* the unlocked test of the state ...
HandleConnack ==
  /\ ThreadGoes("loop", IF state = "disconnecting" THEN "loop" ELSE "connack")
  /\ sock
  /\ link = "connack"
  /\ link' = "live"
  /\ isConnected' = TRUE
  /\ UNCHANGED <<error, state, sock, out_packet, losses>>

\* ... and the assignment.
HandleConnackSets ==
  /\ ThreadGoes("connack", "loop")
  /\ state' = "connected"
  /\ UNCHANGED <<error, sock, out_packet, link, isConnected, losses>>

\* The thread is going to close the socket, for one of some errors.
Fails(errors) ==
  /\ ThreadGoes("loop", "error")
  /\ sock
  /\ error' \in errors
  /\ UNCHANGED <<state, sock, out_packet, link>>

\* A refused connection: on_connect(rc), and MOSQ_ERR_CONN_REFUSED.
HandleConnackRefused ==
  /\ Fails({"lost"})
  /\ link = "connack"
  /\ isConnected' = FALSE
  /\ Lossy

\* The connection breaks, or the broker has closed it.
ConnLost ==
  /\ Fails({"lost"})
  /\ IF link = "closed" THEN UNCHANGED losses ELSE Lossy
  /\ UNCHANGED isConnected

\* An error mosquitto_loop_forever does not recover from
FatalError ==
  /\ config.fatal
  /\ Fails({"fatal"})
  /\ Lossy
  /\ UNCHANGED isConnected

\* The keepalive interval passes: on a connection that is not in state
\* connected the socket is closed at once, otherwise after an unanswered ping,
\* by the test of last_msg_in and last_msg_out or by that of ping_t.
AnswerComing == out_packet # <<>> \/ link = "connack"

KeepaliveExpires ==
  /\ config.keepalive
  /\ Fails(IF state = "new" THEN {"keepalive"} ELSE {"keepalive", "ping"})
  /\ state # "connected" \/ link # "live"
  /\ UNCHANGED isConnected

\* ... before the answer that is on its way
KeepaliveTooSoon == KeepaliveExpires /\ AnswerComing /\ Lossy

KeepaliveStuck == KeepaliveExpires /\ ~ AnswerComing /\ UNCHANGED losses

(* Giving up the socket: close it, read the state, call on_disconnect.     *)

\* _mosquitto_socket_close
SocketClose ==
  /\ ThreadGoes("error", "closed")
  /\ sock' = FALSE
  /\ link' = "none"
  /\ UNCHANGED <<error, state, out_packet, isConnected, losses>>

\* Mutant: 0 is reported unless the client is connected.
ReadStateNotConnected ==
  /\ ThreadGoes("closed", IF state # "connected" THEN "report0" ELSE "report1")
  /\ UNCHANGED <<error, net, losses>>

\* The argument of on_disconnect is MOSQ_ERR_SUCCESS if disconnecting.
ReadState ==
  /\ ThreadGoes("closed", IF state = "disconnecting" THEN "report0" ELSE "report1")
  /\ UNCHANGED <<error, net, losses>>

\* After on_disconnect: mosquitto_loop_forever tries again after an error, or
\* ends after a fatal one; reported as success neither is one.
Returns ==
  CASE error = "lost" -> IF thread = "report0" THEN "loop" ELSE "check"
    [] error = "fatal" -> IF thread = "report0" THEN "loop" ELSE "ended"
    [] error = "ping" -> "check"
    [] OTHER -> "loop"

\* Mutant: on_disconnect is not called.
OnDisconnectMissing ==
  /\ \E from \in {"report0", "report1"} : ThreadGoes(from, Returns)
  /\ error' = "none"
  /\ UNCHANGED <<net, losses>>

\* The thread may have to give up the socket again: the test of ping_t follows
\* that of last_msg_in and last_msg_out, whatever this did, and the
\* loop of mosquitto_loop_write goes on after DISCONNECT, to MOSQ_ERR_NO_CONN.
OnDisconnect ==
  /\ \E from \in {"report0", "report1"} :
       \/ ThreadGoes(from, Returns) /\ error' = "none"
       \/ ThreadGoes(from, "error") /\ error = "keepalive" /\ error' = "ping"
       \/ ThreadGoes(from, "error") /\ error = "written" /\ error' = "lost"
  /\ isConnected' = FALSE
  /\ UNCHANGED <<state, sock, out_packet, link, losses>>

\* mosquitto_loop without a socket: MOSQ_ERR_NO_CONN
LoopNoConn ==
  /\ ThreadGoes("loop", "check")
  /\ ~ sock
  /\ UNCHANGED <<error, net, losses>>

\* Mutant: the test of reconnect_enabled is inverted.
CheckInverted ==
  /\ ThreadGoes("check", IF state = "disconnecting" \/ config.reconnect
                         THEN "ended" ELSE "sleep")
  /\ UNCHANGED <<error, net, losses>>

\* End, or wait reconnect_delay seconds and ...
Check ==
  /\ ThreadGoes("check", IF state = "disconnecting" \/ ~ config.reconnect
                         THEN "ended" ELSE "sleep")
  /\ UNCHANGED <<error, net, losses>>

\* ... look at the state again, and reconnect.
Wake ==
  /\ ThreadGoes("sleep", IF state = "disconnecting" THEN "ended"
                         ELSE IF host THEN "r1" ELSE "check")
  /\ UNCHANGED <<error, net, losses>>

\* Threaded is set as long as the thread runs, so CONNECT is only queued.
QueueConnect ==
  /\ out_packet' = Append(out_packet, "CONNECT")
  /\ UNCHANGED <<state, sock, link, isConnected, losses>>

ThreadReconnects ==
  /\ \/ ThreadGoes("r1", "r2") /\ ReconnectBegin
     \/ ThreadGoes("r2", "r3") /\ ReconnectPurge
     \/ ThreadGoes("r3", "r4") /\ SocketConnect
     \/ ThreadGoes("r4", "loop") /\ QueueConnect
  /\ UNCHANGED error

ThreadReconnectFails ==
  ThreadGoes("r3", "check") /\ SocketConnectFails /\ UNCHANGED error

\* select() returns and there is nothing to do.
SelectTimeout == thread = "loop" /\ sock /\ UNCHANGED vars

\* The application makes no further call.
AppDone ==
  /\ calls = MaxCalls \/ Released
  /\ worker \in {"idle", "gone"}
  /\ queue = <<>>
  /\ UNCHANGED vars

-----------------------------------------------------------------------------
Next ==
  \/ ConnectTo \/ Reconnect \/ Request \/ Disconnect \/ Deinit
  \/ Worker
  \/ LoopWrite \/ HandleConnack \/ HandleConnackSets \/ HandleConnackRefused
  \/ ConnLost \/ FatalError \/ KeepaliveTooSoon \/ KeepaliveStuck
  \/ SocketClose \/ ReadState \/ OnDisconnect
  \/ LoopNoConn \/ Check \/ Wake \/ ThreadReconnects \/ ThreadReconnectFails
  \/ SelectTimeout
  \/ AppDone

Spec == Init /\ [][Next]_vars

(* Scheduling: the worker and the network thread keep running, the broker  *)
(* answers CONNECT, an attempt to connect ends, and the keepalive interval *)
(* passes.  Nothing is assumed of the application and of the losses.       *)
Fairness ==
  /\ WF_vars(Worker)
  /\ WF_vars(LoopWrite)
  /\ WF_vars(HandleConnack)
  /\ WF_vars(ConnLost /\ link = "closed")
  /\ WF_vars(KeepaliveStuck)
  /\ WF_vars(\/ HandleConnackSets \/ SocketClose \/ ReadState \/ OnDisconnect
             \/ LoopNoConn \/ Check \/ Wake \/ ThreadReconnects)

FairSpec == Spec /\ Fairness

-----------------------------------------------------------------------------
(* Properties.                                                             *)

\* The application, which reads isConnected at any time, sees a client without
\* a connection as connected only while the thread that closed the socket is
\* on its way to on_disconnect, and never once mosquitto_loop has been left,
\* whatever the thread was told meanwhile and whichever error it met.
ConnectedOrReporting ==
  isConnected =>
    \/ sock /\ thread \in {"loop", "connack", "error"}
    \/ thread \in {"closed", "report0", "report1"}

\* The context is destroyed only after the network thread was joined: calls in
\* any order, deinit included, never free struct mosquitto under the thread.
CleanupFindsNoThread ==
  worker \in {"cleanup", "gone"} => thread = "none" /\ ~ isConnected

\* on_disconnect(0) means that the client has called disconnect(): no connection
\* that connectTo() or reconnect() has asked for since is reported as
\* given up on request, although the state is read after the socket was
\* closed, and although a DISCONNECT may be left in the packet queue, to
\* be written by a later operation.
SuccessIsRequested == (thread = "report0" \/ worker = "report") => asked

\* disconnect() completes: the network thread ends and mosquitto_loop_stop
\* returns, so that the queue goes on to the next operation.
DisconnectCompletes == worker = "join" ~> worker # "join"

\* disconnect() always completes if automatic reconnection is disabled, whatever
\* was called before, also without keepalive and after fatal errors.
DisconnectCompletesWithoutReconnect ==
  (worker = "join" /\ ~ config.reconnect) ~> worker # "join"

\* A client with reconnection and keepalive that stays running is connected
\* again after every loss, whatever calls race with the thread's reconnection.
EventuallyConnected ==
  []<>(isConnected \/ ~ isRunning \/ Released \/ ~ config.reconnect)

\* reconnect() and connectTo() connect a client whose network thread has ended.
ReconnectConnects ==
  (worker = "r1" /\ thread = "ended" /\ losses = MaxLoss)
    ~> (isConnected \/ ~ isRunning)
=============================================================================
