--------------------------- MODULE LifecycleProofs ---------------------------
(***************************************************************************)
(* Safety of Lifecycle, for every number of calls and losses and every set *)
(* of configurations: the context is not freed under the network thread,   *)
(* no client is seen as connected once its loss was reported, and success  *)
(* is only reported for a disconnect().                                    *)
(***************************************************************************)
EXTENDS Lifecycle, SequenceTheorems, TLAPS

\* Operations that leave a network thread behind them
Starters == {"connect", "reconnect"}

Connecting ==
  \/ worker \in {"r1", "r2", "r3", "r4", "start"}
  \/ worker \in {"write", "report"} /\ resume = "start"

\* Will there be a network thread when the operation under way is finished?
ThreadAhead ==
  \/ Connecting
  \/ worker \in {"idle", "send", "cleanup", "gone"} /\ thread # "none"

\* ... and when the operations before position i of the queue are?
QuietIn(ops, ahead, i) ==
  \E j \in 0 .. i - 1 :
    /\ IF j = 0 THEN ~ ahead ELSE ops[j] = "disconnect"
    /\ \A k \in j + 1 .. i - 1 : ops[k] \notin Starters

QuietBefore(i) == QuietIn(queue, ThreadAhead, i)

\* isRunning is false only if a disconnect() follows every connection, and
\* nothing follows the clean-up.
QueueQuiet ==
  /\ \A i \in DOMAIN queue : queue[i] = "cleanup" => i = Len(queue) /\ QuietBefore(i)
  /\ ~ isRunning /\ ~ Released => QuietBefore(Len(queue) + 1)
  /\ worker \in {"cleanup", "gone"} => queue = <<>>

\* threaded says whether there is a thread; the worker writes only without one.
ThreadKnown ==
  /\ threaded = (thread # "none")
  /\ worker \in {"write", "report"} => thread = "none"

\* Without a host nothing has been connected or queued.
NoHost ==
  ~ host => /\ ~ sock
            /\ out_packet = <<>>
            /\ worker \notin {"r1", "r2", "r3", "r4", "write", "report"}
            /\ thread \notin {"r1", "r2", "r3", "r4", "error", "closed", "report0", "report1"}

\* After a disconnect() there is no thread, until the next connection begins.
Quiet == thread = "none" /\ ~ Connecting

AskedStops ==
  /\ asked => worker \in {"d2", "join"} \/ Quiet
  /\ worker = "d2" => asked

\* The state is disconnecting, and DISCONNECT waits in the packet queue, only as
\* long as disconnect() is the last call; the next one that connects resets
\* both before there is a thread again.
OnlyOnRequest ==
  /\ state = "disconnecting" => \/ asked
                                \/ ~ host
                                \/ worker = "r1" /\ thread = "none"
  /\ \A i \in DOMAIN out_packet :
       out_packet[i] = "DISCONNECT" =>
         asked \/ (worker \in {"r1", "r2"} /\ thread = "none")

\* The inductive invariant
LifecycleInv ==
  /\ TypeOK
  /\ ConnectedOrReporting
  /\ CleanupFindsNoThread
  /\ SuccessIsRequested
  /\ QueueQuiet
  /\ ThreadKnown
  /\ NoHost
  /\ AskedStops
  /\ OnlyOnRequest

-----------------------------------------------------------------------------
(* Type correctness.                                                       *)

Packets == {"CONNECT", "REQUEST", "DISCONNECT"}

LEMMA NoPackets == <<>> \in Seq(Packets)
OBVIOUS

LEMMA InitType == Init => TypeOK
<1> SUFFICES ASSUME Init
             PROVE  TypeOK
  OBVIOUS
<1>1. config.immediately \in BOOLEAN
  BY LifecycleAssumption DEF Init, AllConfigs
<1>2. queue \in Seq(Operations)
  <2>1. <<>> \in Seq(Operations) /\ <<"connect">> \in Seq(Operations)
    BY DEF Operations
  <2> QED
    BY <1>1, <2>1 DEF Init
<1>3. isRunning \in BOOLEAN
  BY <1>1, Zenon DEF Init
<1>4. /\ config \in Configs /\ calls = 0 /\ worker = "idle" /\ thread = "none"
      /\ resume = "idle" /\ error = "none" /\ asked = FALSE
      /\ threaded = FALSE /\ host = FALSE /\ state = "new" /\ sock = FALSE
      /\ out_packet = <<>> /\ link = "none" /\ isConnected = FALSE /\ losses = 0
  BY DEF Init
<1> QED
  <2>1. calls \in 0 .. MaxCalls /\ losses \in 0 .. MaxLoss
    BY <1>4, LifecycleAssumption
  <2>2. /\ threaded \in BOOLEAN /\ host \in BOOLEAN /\ sock \in BOOLEAN
        /\ isConnected \in BOOLEAN /\ asked \in BOOLEAN
    BY <1>4
  <2> QED
    BY <1>2, <1>3, <1>4, <2>1, <2>2, NoPackets DEF TypeOK, Packets

LEMMA AppType ==
  ASSUME TypeOK, ConnectTo \/ Reconnect \/ Request \/ Disconnect \/ Deinit
  PROVE  TypeOK'
<1>1. /\ <<"connect">> \in Seq(Operations) /\ <<"reconnect">> \in Seq(Operations)
      /\ <<"request">> \in Seq(Operations) /\ <<"disconnect">> \in Seq(Operations)
      /\ <<"cleanup">> \in Seq(Operations) /\ <<"disconnect", "cleanup">> \in Seq(Operations)
  BY DEF Operations
<1>2. PICK ops \in Seq(Operations) : Call(ops) /\ isRunning' \in BOOLEAN
  BY <1>1 DEF TypeOK, ConnectTo, Reconnect, Request, Disconnect, Deinit
<1>3. queue' \in Seq(Operations) /\ calls' \in 0 .. MaxCalls
  BY <1>2, LifecycleAssumption DEF Call, TypeOK
<1> QED
  BY <1>2, <1>3 DEF Call, TypeOK, net, operation

(* One packet leaves the queue; only DISCONNECT closes the socket.         *)
LEMMA PacketWritten ==
  ASSUME TypeOK, PacketWrite
  PROVE  /\ sock /\ sock' \in BOOLEAN
         /\ Head(out_packet) \in Packets
         /\ Head(out_packet) # "DISCONNECT" => sock'
         /\ out_packet' \in Seq(Packets)
         /\ 1 \in DOMAIN out_packet /\ Head(out_packet) = out_packet[1]
         /\ \A i \in DOMAIN out_packet' :
              i + 1 \in DOMAIN out_packet /\ out_packet'[i] = out_packet[i + 1]
         /\ link' \in {"none", "idle", "connack", "live", "closed"}
         /\ UNCHANGED <<state, isConnected, losses>>
<1>1. out_packet \in Seq(Packets) /\ out_packet # <<>> /\ out_packet' = Tail(out_packet)
  BY DEF PacketWrite, TypeOK, Packets
<1>2. /\ Head(out_packet) \in Packets /\ out_packet' \in Seq(Packets)
      /\ 1 \in DOMAIN out_packet /\ Head(out_packet) = out_packet[1]
      /\ \A i \in DOMAIN out_packet' :
           i + 1 \in DOMAIN out_packet /\ out_packet'[i] = out_packet[i + 1]
  BY <1>1
<1>3. link' \in {"none", "idle", "connack", "live", "closed"}
  BY <1>2 DEF PacketWrite, TypeOK, Packets
<1>4. sock /\ sock' \in BOOLEAN /\ (Head(out_packet) # "DISCONNECT" => sock')
  BY DEF PacketWrite
<1> QED
  BY <1>2, <1>3, <1>4 DEF PacketWrite

(* A packet is appended, and the worker goes on or writes.                 *)
LEMMA PacketQueued ==
  ASSUME TypeOK, NEW p \in Packets, NEW from, NEW to \in {"idle", "start", "join"},
         PacketQueue(p, from, to)
  PROVE  /\ worker = from
         /\ \/ threaded /\ worker' = to /\ resume' = resume
            \/ ~ threaded /\ worker' = "write" /\ resume' = to
         /\ out_packet' \in Seq(Packets)
         /\ \A i \in DOMAIN out_packet' :
              out_packet'[i] = p \/ (i \in DOMAIN out_packet /\ out_packet'[i] = out_packet[i])
         /\ UNCHANGED <<config, app, thread, error, threaded, host, asked, state, sock, link,
                        isConnected, losses>>
<1>1. out_packet \in Seq(Packets) /\ out_packet' = Append(out_packet, p)
  BY DEF PacketQueue, TypeOK, Packets
<1>2. /\ out_packet' \in Seq(Packets)
      /\ \A i \in DOMAIN out_packet' :
           out_packet'[i] = p \/ (i \in DOMAIN out_packet /\ out_packet'[i] = out_packet[i])
  BY <1>1
<1> QED
  BY <1>2 DEF PacketQueue, WorkerGoes, TypeOK

LEMMA WorkerTakesType ==
  ASSUME TypeOK, WorkerTakes
  PROVE  TypeOK'
<1>1. Head(queue) \in Operations /\ queue' \in Seq(Operations)
  BY DEF WorkerTakes, TypeOK
<1>2. worker' \in {"r1", "start", "send", "d1", "cleanup"}
  BY <1>1 DEF WorkerTakes, FirstStep, Operations
<1>3. host' \in BOOLEAN /\ asked' \in BOOLEAN /\ state' \in {state, "new"}
  BY DEF WorkerTakes, TypeOK
<1> QED
  BY <1>1, <1>2, <1>3 DEF WorkerTakes, TypeOK

LEMMA ReconnectType ==
  ASSUME TypeOK, ReconnectBegin \/ ReconnectPurge \/ SocketConnect \/ SocketConnectFails
  PROVE  /\ state' \in {"new", "connected", "disconnecting"}
         /\ sock' \in BOOLEAN
         /\ out_packet' \in Seq(Packets)
         /\ link' \in {"none", "idle", "connack", "live", "closed"}
         /\ isConnected' = isConnected
         /\ losses' \in 0 .. MaxLoss
<1>1. CASE ReconnectBegin \/ ReconnectPurge \/ SocketConnect
  BY <1>1, NoPackets DEF ReconnectBegin, ReconnectPurge, SocketConnect, TypeOK, Packets
<1>2. CASE SocketConnectFails
  BY <1>2, LifecycleAssumption DEF SocketConnectFails, TypeOK, net, Packets
<1> QED
  BY <1>1, <1>2

LEMMA WorkerType ==
  ASSUME TypeOK, Worker
  PROVE  TypeOK'
<1>1. CASE WorkerTakes
  BY <1>1, WorkerTakesType
<1>2. ASSUME NEW p \in Packets, NEW from, NEW to \in {"idle", "start", "join"},
             PacketQueue(p, from, to)
      PROVE  TypeOK'
  BY <1>2, PacketQueued DEF TypeOK, Packets, app
<1>3. CASE WorkerReconnects
  <2>1. CASE PacketQueue("CONNECT", "r4", "start")
    BY <1>2, <2>1 DEF Packets
  <2>2. CASE ~ PacketQueue("CONNECT", "r4", "start")
    <3>1. /\ worker' \in {"r2", "r3", "r4", "start"}
          /\ UNCHANGED <<config, app, resume, asked, thread, error, threaded, host>>
      BY <1>3, <2>2 DEF WorkerReconnects, WorkerGoes
    <3>2. ReconnectBegin \/ ReconnectPurge \/ SocketConnect \/ SocketConnectFails
      BY <1>3, <2>2 DEF WorkerReconnects
    <3> QED
      BY <3>1, <3>2, ReconnectType DEF TypeOK, app, Packets
  <2> QED
    BY <2>1, <2>2
<1>4. CASE WorkerWrites
  BY <1>4, PacketWritten DEF WorkerWrites, WorkerGoes, TypeOK, app, Packets
<1>5. CASE WorkerStopsWriting \/ WorkerReports
  <2>1. /\ worker' = resume /\ resume' = "idle"
        /\ isConnected' = isConnected \/ isConnected' = FALSE
        /\ UNCHANGED <<config, app, thread, error, threaded, host, asked, state, sock,
                       out_packet, link, losses>>
    BY <1>5 DEF WorkerStopsWriting, WorkerReports, WorkerGoes, net
  <2>2. worker' \in {"idle", "start", "join"} /\ isConnected' \in BOOLEAN
    BY <2>1 DEF TypeOK
  <2> QED
    BY <2>1, <2>2 DEF TypeOK, app
<1>6. CASE WorkerStarts
  BY <1>6 DEF WorkerStarts, TypeOK, app, net
<1>7. CASE WorkerSendsRequest \/ WorkerSendsDisconnect
  <2>1. CASE PacketQueue("REQUEST", "send", "idle") \/ PacketQueue("DISCONNECT", "d2", "join")
    BY <1>2, <2>1 DEF Packets
  <2>2. CASE /\ WorkerGoes("send", "idle") \/ WorkerGoes("d2", "join")
             /\ UNCHANGED <<resume, asked, net, losses>>
    BY <2>2 DEF WorkerGoes, TypeOK, app, net
  <2> QED
    BY <1>7, <2>1, <2>2 DEF WorkerSendsRequest, WorkerSendsDisconnect
<1>8. CASE WorkerDisconnecting \/ WorkerJoins \/ WorkerCleansUp
  BY <1>8, NoPackets
  DEF WorkerDisconnecting, WorkerJoins, WorkerCleansUp, WorkerGoes, TypeOK, app, net, Packets
<1> QED
  BY <1>1, <1>3, <1>4, <1>5, <1>6, <1>7, <1>8 DEF Worker

\* The steps of the network thread
Thread ==
  \/ LoopWrite \/ HandleConnack \/ HandleConnackSets \/ HandleConnackRefused
  \/ ConnLost \/ FatalError \/ KeepaliveTooSoon \/ KeepaliveStuck
  \/ SocketClose \/ ReadState \/ OnDisconnect
  \/ LoopNoConn \/ Check \/ Wake \/ ThreadReconnects \/ ThreadReconnectFails

(* The five ways to an error only record it; a refused connection is not   *)
(* connected.                                                              *)
LEMMA FailsOnly ==
  ASSUME TypeOK,
         HandleConnackRefused \/ ConnLost \/ FatalError \/ KeepaliveTooSoon \/ KeepaliveStuck
  PROVE  /\ thread = "loop" /\ thread' = "error" /\ sock
         /\ error' \in {"lost", "fatal", "keepalive", "ping"}
         /\ isConnected' \in BOOLEAN /\ (isConnected' => isConnected)
         /\ losses' \in 0 .. MaxLoss
         /\ UNCHANGED <<config, app, operation, threaded, host, state, sock, out_packet, link>>
<1>1. losses' \in 0 .. MaxLoss
  BY LifecycleAssumption
  DEF HandleConnackRefused, ConnLost, FatalError, KeepaliveTooSoon, KeepaliveStuck, Lossy, TypeOK
<1>2. /\ \E errors \in SUBSET {"lost", "fatal", "keepalive", "ping"} : Fails(errors)
      /\ (isConnected' = FALSE) \/ UNCHANGED isConnected
  BY DEF HandleConnackRefused, ConnLost, FatalError, KeepaliveTooSoon, KeepaliveStuck,
         KeepaliveExpires
<1>3. isConnected' \in BOOLEAN /\ (isConnected' => isConnected)
  <2>1. isConnected \in BOOLEAN
    BY DEF TypeOK
  <2>2. CASE isConnected' = FALSE
    BY <2>2
  <2>3. CASE UNCHANGED isConnected
    BY <2>1, <2>3
  <2> QED
    BY <1>2, <2>2, <2>3
<1> QED
  BY <1>1, <1>2, <1>3 DEF Fails, ThreadGoes

LEMMA ThreadType ==
  ASSUME TypeOK, Thread
  PROVE  TypeOK'
<1>1. CASE LoopWrite
  <2>1. /\ thread' \in {"loop", "report0"} /\ error' \in {error, "written"}
        /\ UNCHANGED <<config, app, operation, threaded, host>>
    BY <1>1 DEF LoopWrite, ThreadGoes
  <2> QED
    BY <1>1, <2>1, PacketWritten DEF LoopWrite, TypeOK, app, operation, Packets
<1>2. CASE HandleConnack \/ HandleConnackSets
  BY <1>2 DEF HandleConnack, HandleConnackSets, ThreadGoes, TypeOK, app, operation
<1>3. CASE HandleConnackRefused \/ ConnLost \/ FatalError \/ KeepaliveTooSoon \/ KeepaliveStuck
  BY <1>3, FailsOnly DEF TypeOK, app, operation
<1>4. CASE SocketClose \/ ReadState
  BY <1>4 DEF SocketClose, ReadState, ThreadGoes, TypeOK, app, operation, net
<1>5. CASE OnDisconnect
  <2>1. /\ thread' \in {"loop", "check", "ended", "error"}
        /\ error' \in {"none", "ping", "lost"}
        /\ isConnected' = FALSE
        /\ UNCHANGED <<config, app, operation, threaded, host, state, sock, out_packet, link,
                       losses>>
    BY <1>5 DEF OnDisconnect, Returns, ThreadGoes
  <2>2. isConnected' \in BOOLEAN
    BY <2>1
  <2> QED
    BY <2>1, <2>2 DEF TypeOK, app, operation
<1>6. CASE LoopNoConn \/ Check \/ Wake
  BY <1>6 DEF LoopNoConn, Check, Wake, ThreadGoes, TypeOK, app, operation, net
<1>7. CASE ThreadReconnects \/ ThreadReconnectFails
  <2>1. /\ thread' \in {"r2", "r3", "r4", "loop", "check"}
        /\ UNCHANGED <<config, app, operation, error, threaded, host>>
    BY <1>7 DEF ThreadReconnects, ThreadReconnectFails, ThreadGoes
  <2>2. CASE QueueConnect
    BY <2>1, <2>2 DEF QueueConnect, TypeOK, app, operation
  <2>3. CASE ~ QueueConnect
    <3>1. ReconnectBegin \/ ReconnectPurge \/ SocketConnect \/ SocketConnectFails
      BY <1>7, <2>3 DEF ThreadReconnects, ThreadReconnectFails
    <3> QED
      BY <2>1, <3>1, ReconnectType DEF TypeOK, app, operation, Packets
  <2> QED
    BY <2>2, <2>3
<1> QED
  BY <1>1, <1>2, <1>3, <1>4, <1>5, <1>6, <1>7 DEF Thread

(* Every variable stays in its type, whatever is called and lost.          *)
THEOREM TypeCorrect == Spec => []TypeOK
<1>1. TypeOK /\ [Next]_vars => TypeOK'
  <2> SUFFICES ASSUME TypeOK, [Next]_vars
               PROVE  TypeOK'
    OBVIOUS
  <2>1. CASE UNCHANGED vars
    BY <2>1 DEF vars, app, operation, net, TypeOK
  <2>2. CASE Next
    BY <2>1, <2>2, AppType, WorkerType, ThreadType DEF Next, Thread, SelectTimeout, AppDone
  <2> QED
    BY <2>1, <2>2
<1> QED
  BY <1>1, InitType, PTL DEF Spec

-----------------------------------------------------------------------------
(* The queue: what a clean-up finds when its turn comes.                   *)

(* Steps that leave the queue alone and start no thread keep it quiet.     *)
LEMMA QueueFrame ==
  ASSUME QueueQuiet, UNCHANGED <<isRunning, queue>>,
         ThreadAhead' => ThreadAhead,
         worker' \in {"cleanup", "gone"} <=> worker \in {"cleanup", "gone"}
  PROVE  QueueQuiet'
<1>1. Released' <=> Released
  BY DEF Released
<1>2. ASSUME NEW i, QuietBefore(i)
      PROVE  QuietIn(queue', ThreadAhead', i)
  BY <1>2 DEF QuietBefore, QuietIn
<1> QED
  BY <1>1, <1>2 DEF QueueQuiet, QuietBefore

(* What is added at the end does not matter for the positions before it.   *)
LEMMA QuietAppend ==
  ASSUME TypeOK, NEW ops \in Seq(Operations), queue' = queue \o ops,
         UNCHANGED <<worker, resume, thread>>,
         NEW i \in 1 .. Len(queue) + 1, QuietBefore(i)
  PROVE  QuietIn(queue', ThreadAhead', i)
<1>1. PICK j \in 0 .. i - 1 :
        /\ IF j = 0 THEN ~ ThreadAhead ELSE queue[j] = "disconnect"
        /\ \A k \in j + 1 .. i - 1 : queue[k] \notin Starters
  BY DEF QuietBefore, QuietIn
<1>2. \A k \in 1 .. i - 1 : queue'[k] = queue[k]
  BY DEF TypeOK
<1>3. ThreadAhead' <=> ThreadAhead
  BY DEF ThreadAhead, Connecting
<1>4. IF j = 0 THEN ~ ThreadAhead' ELSE queue'[j] = "disconnect"
  BY <1>1, <1>2, <1>3
<1>5. \A k \in j + 1 .. i - 1 : queue'[k] \notin Starters
  BY <1>1, <1>2
<1> QED
  BY <1>1, <1>4, <1>5 DEF QuietBefore, QuietIn

(* A call: before it no clean-up is waiting.                               *)
LEMMA AppQueue ==
  ASSUME TypeOK, QueueQuiet, ConnectTo \/ Reconnect \/ Request \/ Disconnect \/ Deinit
  PROVE  QueueQuiet'
<1>1. ~ Released /\ UNCHANGED <<worker, resume, thread>>
  BY DEF ConnectTo, Reconnect, Request, Disconnect, Deinit, Call, operation
<1>2. \A i \in DOMAIN queue : queue[i] # "cleanup"
  BY <1>1 DEF Released
<1>3. worker' \notin {"cleanup", "gone"}
  BY <1>1 DEF Released
<1>4. queue \in Seq(Operations) /\ Len(queue) \in Nat
  BY DEF TypeOK
<1>5. /\ <<"connect">> \in Seq(Operations) /\ <<"reconnect">> \in Seq(Operations)
      /\ <<"request">> \in Seq(Operations) /\ <<"disconnect">> \in Seq(Operations)
      /\ <<"cleanup">> \in Seq(Operations) /\ <<"disconnect", "cleanup">> \in Seq(Operations)
  BY DEF Operations
<1>6. ~ isRunning => QuietIn(queue', ThreadAhead', Len(queue) + 1)
  <2>1. PICK ops \in Seq(Operations) : queue' = queue \o ops
    BY <1>5 DEF ConnectTo, Reconnect, Request, Disconnect, Deinit, Call
  <2>2. Len(queue) + 1 \in 1 .. Len(queue) + 1
    BY <1>4
  <2> QED
    BY <1>1, <2>1, <2>2, QuietAppend DEF QueueQuiet
<1>7. CASE ConnectTo \/ Reconnect
  <2>1. PICK op \in Starters : queue' = queue \o <<op>> /\ isRunning'
    BY <1>7 DEF ConnectTo, Reconnect, Call, Starters
  <2>2. \A i \in DOMAIN queue' : queue'[i] # "cleanup"
    BY <1>2, <1>4, <2>1 DEF Starters
  <2> QED
    BY <1>3, <2>1, <2>2 DEF QueueQuiet, QuietBefore
<1>8. CASE Request
  <2>1. queue' = queue \o <<"request">> /\ isRunning' = isRunning
    BY <1>8 DEF Request, Call
  <2>2. \A i \in DOMAIN queue' : queue'[i] # "cleanup"
    BY <1>2, <1>4, <2>1
  <2>3. ASSUME ~ isRunning
        PROVE  QuietIn(queue', ThreadAhead', Len(queue') + 1)
    <3>1. PICK j \in 0 .. Len(queue) :
            /\ IF j = 0 THEN ~ ThreadAhead' ELSE queue'[j] = "disconnect"
            /\ \A k \in j + 1 .. Len(queue) : queue'[k] \notin Starters
      BY <1>4, <1>6, <2>3 DEF QuietBefore, QuietIn
    <3>2. Len(queue') = Len(queue) + 1 /\ queue'[Len(queue) + 1] = "request"
      BY <1>4, <2>1
    <3>3. \A k \in j + 1 .. Len(queue') : queue'[k] \notin Starters
      BY <1>4, <3>1, <3>2 DEF Starters
    <3> QED
      BY <1>4, <3>1, <3>2, <3>3 DEF QuietBefore, QuietIn
  <2> QED
    BY <1>3, <2>1, <2>2, <2>3 DEF QueueQuiet, QuietBefore
<1>9. CASE Disconnect
  <2>1. queue' = queue \o <<"disconnect">>
    BY <1>9 DEF Disconnect, Call
  <2>2. /\ \A i \in DOMAIN queue' : queue'[i] # "cleanup"
        /\ Len(queue') = Len(queue) + 1 /\ queue'[Len(queue')] = "disconnect"
    BY <1>2, <1>4, <2>1
  <2>3. QuietIn(queue', ThreadAhead', Len(queue') + 1)
    BY <1>4, <2>2 DEF QuietBefore, QuietIn
  <2> QED
    BY <1>3, <2>2, <2>3 DEF QueueQuiet, QuietBefore
<1>10. CASE Deinit
  <2>1. CASE isRunning
    <3>1. queue' = queue \o <<"disconnect", "cleanup">>
      BY <1>10, <2>1 DEF Deinit, Call
    <3>2. /\ Len(queue') = Len(queue) + 2
          /\ DOMAIN queue' = 1 .. Len(queue')
          /\ queue'[Len(queue) + 1] = "disconnect" /\ queue'[Len(queue')] = "cleanup"
          /\ \A i \in 1 .. Len(queue) : queue'[i] # "cleanup"
      BY <1>2, <1>4, <3>1
    <3>3. QuietIn(queue', ThreadAhead', Len(queue'))
      BY <1>4, <3>2 DEF QuietBefore, QuietIn
    <3>4. Released'
      BY <1>4, <3>2 DEF Released
    <3>5. \A i \in DOMAIN queue' : queue'[i] = "cleanup" => i = Len(queue')
      BY <1>4, <3>2
    <3> QED
      BY <1>3, <3>3, <3>4, <3>5 DEF QueueQuiet, QuietBefore
  <2>2. CASE ~ isRunning
    <3>1. queue' = queue \o <<"cleanup">>
      BY <1>10, <2>2 DEF Deinit, Call
    <3>2. /\ Len(queue') = Len(queue) + 1
          /\ DOMAIN queue' = 1 .. Len(queue')
          /\ queue'[Len(queue')] = "cleanup"
          /\ \A i \in 1 .. Len(queue) : queue'[i] # "cleanup"
      BY <1>2, <1>4, <3>1
    <3>3. QuietIn(queue', ThreadAhead', Len(queue'))
      BY <1>6, <2>2, <3>2
    <3>4. Released'
      BY <1>4, <3>2 DEF Released
    <3>5. \A i \in DOMAIN queue' : queue'[i] = "cleanup" => i = Len(queue')
      BY <1>4, <3>2
    <3> QED
      BY <1>3, <3>3, <3>4, <3>5 DEF QueueQuiet, QuietBefore
  <2> QED
    BY <2>1, <2>2
<1> QED
  BY <1>7, <1>8, <1>9, <1>10

(* The worker takes an operation off the queue.                            *)
LEMMA TakesQueue ==
  ASSUME TypeOK, QueueQuiet, WorkerTakes
  PROVE  /\ QueueQuiet'
         /\ worker' = "cleanup" => thread = "none"
<1> DEFINE op == Head(queue)
<1>1. /\ queue \in Seq(Operations) /\ queue # <<>> /\ Len(queue) \in Nat \ {0}
      /\ worker = "idle" /\ UNCHANGED <<isRunning, thread>>
      /\ queue' = Tail(queue) /\ worker' = FirstStep(op)
  BY DEF TypeOK, WorkerTakes
<1>2. /\ op \in Operations /\ op = queue[1]
      /\ Len(queue') = Len(queue) - 1
      /\ DOMAIN queue' = 1 .. Len(queue') /\ DOMAIN queue = 1 .. Len(queue)
      /\ \A i \in DOMAIN queue' : queue'[i] = queue[i + 1]
  BY <1>1
<1>3. /\ op \in Starters => worker' \in {"r1", "start"}
      /\ op = "disconnect" => worker' = "d1"
      /\ op = "request" => worker' = "send"
      /\ op = "cleanup" => worker' = "cleanup"
  BY <1>1, <1>2 DEF FirstStep, Starters
<1>4. op \in Starters \/ op \in {"disconnect", "request", "cleanup"}
  BY <1>2 DEF Operations, Starters
<1> HIDE DEF op
<1>5. ASSUME NEW i \in 1 .. Len(queue') + 1, QuietBefore(i + 1), op # "cleanup"
      PROVE  QuietIn(queue', ThreadAhead', i)
  <2>1. PICK j \in 0 .. i :
          /\ IF j = 0 THEN ~ ThreadAhead ELSE queue[j] = "disconnect"
          /\ \A k \in j + 1 .. i : queue[k] \notin Starters
    BY <1>2, <1>5 DEF QuietBefore, QuietIn
  <2>2. CASE j >= 2
    <3>1. j - 1 \in 1 .. i - 1 /\ queue'[j - 1] = "disconnect"
      BY <1>1, <1>2, <2>1, <2>2
    <3>2. \A k \in j .. i - 1 : queue'[k] \notin Starters
      BY <1>1, <1>2, <2>1, <2>2
    <3> QED
      BY <3>1, <3>2 DEF QuietIn
  <2>3. CASE j <= 1
    <3>1. \A k \in 1 .. i - 1 : queue'[k] \notin Starters
      BY <1>1, <1>2, <2>1, <2>3
    <3>2. ~ ThreadAhead'
      <4>1. CASE j = 1
        BY <1>1, <1>2, <1>3, <2>1, <4>1 DEF ThreadAhead, Connecting
      <4>2. CASE j = 0
        <5>1. op \notin Starters /\ thread = "none"
          BY <1>1, <1>2, <2>1, <4>2 DEF ThreadAhead, Connecting, TypeOK
        <5> QED
          BY <1>1, <1>3, <1>4, <1>5, <5>1 DEF ThreadAhead, Connecting
      <4> QED
        BY <2>3, <4>1, <4>2
    <3> QED
      BY <3>1, <3>2 DEF QuietIn
  <2> QED
    BY <1>1, <1>2, <2>1, <2>2, <2>3
<1>6. CASE op = "cleanup"
  <2>1. QuietBefore(1) /\ Len(queue) = 1
    <3>1. 1 \in DOMAIN queue /\ queue[1] = "cleanup"
      BY <1>1, <1>2, <1>6
    <3> QED
      BY <3>1 DEF QueueQuiet
  <2>2. ~ ThreadAhead
    BY <2>1 DEF QuietBefore, QuietIn
  <2>3. thread = "none" /\ worker' = "cleanup"
    BY <1>1, <1>3, <1>6, <2>2 DEF ThreadAhead, Connecting
  <2>4. queue' = <<>>
    BY <1>1, <2>1
  <2> QED
    BY <2>3, <2>4 DEF QueueQuiet, Released
<1>7. CASE op # "cleanup"
  <2>1. worker' \notin {"cleanup", "gone"}
    BY <1>3, <1>4, <1>7 DEF Starters
  <2>2. Released' => Released
    BY <1>1, <1>2, <2>1 DEF Released
  <2>3. Released => Released'
    <3>1. SUFFICES ASSUME NEW i \in DOMAIN queue, queue[i] = "cleanup"
                   PROVE  Released'
      BY <1>1 DEF Released
    <3>2. i # 1
      BY <1>2, <1>7, <3>1
    <3>3. i - 1 \in DOMAIN queue' /\ queue'[i - 1] = "cleanup"
      BY <1>1, <1>2, <3>1, <3>2
    <3> QED
      BY <3>3 DEF Released
  <2>4. ASSUME NEW i \in DOMAIN queue', queue'[i] = "cleanup"
        PROVE  i = Len(queue') /\ QuietIn(queue', ThreadAhead', i)
    <3>1. i + 1 \in DOMAIN queue /\ queue[i + 1] = "cleanup"
      BY <1>1, <1>2, <2>4
    <3> QED
      BY <1>1, <1>2, <1>5, <1>7, <3>1 DEF QueueQuiet
  <2>5. ASSUME ~ isRunning, ~ Released
        PROVE  QuietIn(queue', ThreadAhead', Len(queue') + 1)
    <3>1. QuietBefore(Len(queue') + 2)
      BY <1>1, <1>2, <2>5 DEF QueueQuiet
    <3> QED
      BY <1>1, <1>2, <1>5, <1>7, <3>1
  <2> QED
    BY <1>1, <2>1, <2>2, <2>3, <2>4, <2>5 DEF QueueQuiet, QuietBefore
<1> QED
  BY <1>6, <1>7

-----------------------------------------------------------------------------
(* Threads, socket and reports.                                            *)

\* The part of the invariant that does not speak of the queue
ThreadsInv ==
  /\ ConnectedOrReporting
  /\ CleanupFindsNoThread
  /\ SuccessIsRequested
  /\ ThreadKnown
  /\ NoHost
  /\ AskedStops
  /\ OnlyOnRequest

LEMMA WorkerTakesSafe ==
  ASSUME LifecycleInv, WorkerTakes
  PROVE  LifecycleInv'
<1>1. TypeOK' /\ QueueQuiet' /\ (worker' = "cleanup" => thread = "none")
  BY TakesQueue, WorkerTakesType DEF LifecycleInv
<1>2. Head(queue) \in Operations
  BY DEF LifecycleInv, TypeOK, WorkerTakes
<1>3. /\ worker = "idle"
      /\ worker' \in {"r1", "start", "send", "d1", "cleanup"}
      /\ worker' = "r1" => host'
      /\ worker' = "start" => ~ host' /\ ~ host
      /\ host => host'
      /\ state' \in {"new", state}
      /\ host' => host \/ state' = "new"
      /\ worker' \in {"r1", "start"} => ~ asked'
      /\ worker' \notin {"r1", "start"} => asked' = asked
      /\ UNCHANGED <<thread, threaded, sock, out_packet, isConnected>>
  BY <1>2 DEF WorkerTakes, FirstStep, Operations, LifecycleInv, TypeOK
<1>4. asked => thread = "none"
  BY <1>3 DEF LifecycleInv, AskedStops, Quiet
<1>5. ConnectedOrReporting' /\ CleanupFindsNoThread' /\ ThreadKnown'
  BY <1>1, <1>3 DEF LifecycleInv, ConnectedOrReporting, CleanupFindsNoThread, ThreadKnown
<1>6. NoHost'
  BY <1>3 DEF LifecycleInv, NoHost
<1>7. SuccessIsRequested' /\ AskedStops'
  BY <1>3, <1>4 DEF LifecycleInv, SuccessIsRequested, AskedStops, Quiet, Connecting
<1>8. OnlyOnRequest'
  <2>1. (state' = "disconnecting") => \/ asked'
                                      \/ ~ host'
                                      \/ worker' = "r1" /\ thread' = "none"
    BY <1>3, <1>4 DEF LifecycleInv, OnlyOnRequest
  <2>2. ASSUME NEW i \in DOMAIN out_packet', out_packet'[i] = "DISCONNECT"
        PROVE  asked' \/ (worker' \in {"r1", "r2"} /\ thread' = "none")
    <3>1. asked /\ out_packet # <<>>
      BY <1>3, <2>2 DEF LifecycleInv, OnlyOnRequest
    <3>2. worker' # "start"
      BY <1>3, <3>1 DEF LifecycleInv, NoHost
    <3> QED
      BY <1>3, <1>4, <3>1, <3>2
  <2> QED
    BY <2>1, <2>2 DEF OnlyOnRequest
<1> QED
  BY <1>1, <1>5, <1>6, <1>7, <1>8 DEF LifecycleInv

LEMMA WorkerSafe ==
  ASSUME LifecycleInv, Worker
  PROVE  LifecycleInv'
<1> USE DEF ConnectedOrReporting, CleanupFindsNoThread, SuccessIsRequested, ThreadKnown, NoHost,
            AskedStops, OnlyOnRequest, Quiet, Connecting
<1>1. CASE WorkerTakes
  BY <1>1, WorkerTakesSafe
<1>2. TypeOK /\ TypeOK'
  BY WorkerType DEF LifecycleInv
<1>3. ASSUME QueueQuiet', ThreadsInv'
      PROVE  LifecycleInv'
  BY <1>2, <1>3 DEF LifecycleInv, ThreadsInv
<1>4. CASE WorkerReconnects
  <2>1. CASE PacketQueue("CONNECT", "r4", "start")
    <3>1. /\ worker = "r4"
          /\ \/ threaded /\ worker' = "start" /\ resume' = resume
             \/ ~ threaded /\ worker' = "write" /\ resume' = "start"
          /\ \A i \in DOMAIN out_packet' :
               \/ out_packet'[i] = "CONNECT"
               \/ i \in DOMAIN out_packet /\ out_packet'[i] = out_packet[i]
          /\ UNCHANGED <<config, app, thread, error, threaded, host, asked, state, sock, link,
                         isConnected, losses>>
      BY <1>2, <2>1, PacketQueued DEF Packets
    <3>2. QueueQuiet'
      BY <3>1, QueueFrame DEF LifecycleInv, ThreadAhead, app
    <3>3. ThreadsInv'
      BY <1>2, <3>1 DEF LifecycleInv, ThreadsInv
    <3> QED
      BY <1>3, <3>2, <3>3
  <2>2. ASSUME WorkerGoes("r1", "r2"), ReconnectBegin, UNCHANGED <<resume, asked>>
        PROVE  LifecycleInv'
    <3>1. QueueQuiet'
      BY <2>2, QueueFrame DEF LifecycleInv, ThreadAhead, WorkerGoes, app
    <3>2. ThreadsInv'
      BY <2>2 DEF LifecycleInv, ThreadsInv, WorkerGoes, ReconnectBegin
    <3> QED
      BY <1>3, <3>1, <3>2
  <2>3. ASSUME WorkerGoes("r2", "r3"), ReconnectPurge, UNCHANGED <<resume, asked>>
        PROVE  LifecycleInv'
    <3>1. QueueQuiet'
      BY <2>3, QueueFrame DEF LifecycleInv, ThreadAhead, WorkerGoes, app
    <3>2. ThreadsInv'
      BY <2>3 DEF LifecycleInv, ThreadsInv, WorkerGoes, ReconnectPurge
    <3> QED
      BY <1>3, <3>1, <3>2
  <2>4. ASSUME NEW to \in {"r4", "start"}, WorkerGoes("r3", to),
               SocketConnect \/ SocketConnectFails, UNCHANGED <<resume, asked>>
        PROVE  LifecycleInv'
    <3>1. QueueQuiet'
      BY <2>4, QueueFrame DEF LifecycleInv, ThreadAhead, WorkerGoes, app
    <3>2. ThreadsInv'
      BY <2>4 DEF LifecycleInv, ThreadsInv, WorkerGoes, SocketConnect, SocketConnectFails, net
    <3> QED
      BY <1>3, <3>1, <3>2
  <2> QED
    BY <1>4, <2>1, <2>2, <2>3, <2>4 DEF WorkerReconnects
<1>5. CASE WorkerWrites
  <2>1. /\ worker = "write"
        /\ worker' = IF Head(out_packet) = "DISCONNECT" THEN "report" ELSE "write"
        /\ UNCHANGED <<app, thread, threaded, host, resume, asked, state, isConnected>>
        /\ sock /\ out_packet # <<>>
    BY <1>5 DEF WorkerWrites, WorkerGoes, PacketWrite
  <2>2. /\ Head(out_packet) = "DISCONNECT" => asked
        /\ \A i \in DOMAIN out_packet' : out_packet'[i] = "DISCONNECT" => asked
    BY <1>2, <1>5, <2>1, PacketWritten DEF WorkerWrites, LifecycleInv
  <2>3. QueueQuiet'
    BY <2>1, QueueFrame DEF LifecycleInv, ThreadAhead, app
  <2>4. ThreadsInv'
    BY <1>2, <2>1, <2>2 DEF LifecycleInv, ThreadsInv
  <2> QED
    BY <1>3, <2>3, <2>4
<1>6. CASE WorkerStopsWriting \/ WorkerReports
  <2>1. /\ worker \in {"write", "report"} /\ worker' = resume
        /\ resume \in {"idle", "start", "join"} /\ resume' = "idle"
        /\ UNCHANGED <<app, thread, threaded, host, asked, state, sock, out_packet>>
        /\ isConnected' => isConnected
    BY <1>2, <1>6 DEF WorkerStopsWriting, WorkerReports, WorkerGoes, net, TypeOK
  <2>2. QueueQuiet'
    BY <2>1, QueueFrame DEF LifecycleInv, ThreadAhead, app
  <2>3. ThreadsInv'
    BY <1>2, <2>1 DEF LifecycleInv, ThreadsInv
  <2> QED
    BY <1>3, <2>2, <2>3
<1>7. CASE WorkerStarts
  <2>1. QueueQuiet'
    BY <1>7, QueueFrame DEF LifecycleInv, ThreadAhead, WorkerStarts, app
  <2>2. ThreadsInv'
    BY <1>2, <1>7 DEF LifecycleInv, ThreadsInv, WorkerStarts, net
  <2> QED
    BY <1>3, <2>1, <2>2
<1>8. CASE WorkerSendsRequest \/ WorkerSendsDisconnect
  <2>1. ASSUME NEW p \in {"REQUEST", "DISCONNECT"}, NEW from \in {"send", "d2"},
               NEW to \in {"idle", "join"}, PacketQueue(p, from, to), sock,
               \/ p = "REQUEST" /\ from = "send" /\ to = "idle"
               \/ p = "DISCONNECT" /\ from = "d2" /\ to = "join"
        PROVE  LifecycleInv'
    <3>1. /\ worker = from
          /\ \/ threaded /\ worker' = to /\ resume' = resume
             \/ ~ threaded /\ worker' = "write" /\ resume' = to
          /\ \A i \in DOMAIN out_packet' :
               out_packet'[i] = p \/ (i \in DOMAIN out_packet /\ out_packet'[i] = out_packet[i])
          /\ UNCHANGED <<config, app, thread, error, threaded, host, asked, state, sock, link,
                         isConnected, losses>>
      BY <1>2, <2>1, PacketQueued DEF Packets
    <3>2. QueueQuiet'
      BY <2>1, <3>1, QueueFrame DEF LifecycleInv, ThreadAhead, app
    <3>3. ThreadsInv'
      BY <1>2, <2>1, <3>1 DEF LifecycleInv, ThreadsInv
    <3> QED
      BY <1>3, <3>2, <3>3
  <2>2. CASE /\ WorkerGoes("send", "idle") \/ WorkerGoes("d2", "join")
             /\ UNCHANGED <<resume, asked, net, losses>>
    <3>1. QueueQuiet'
      BY <2>2, QueueFrame DEF LifecycleInv, ThreadAhead, WorkerGoes, app
    <3>2. ThreadsInv'
      BY <1>2, <2>2 DEF LifecycleInv, ThreadsInv, WorkerGoes, net
    <3> QED
      BY <1>3, <3>1, <3>2
  <2> QED
    BY <1>8, <2>1, <2>2 DEF WorkerSendsRequest, WorkerSendsDisconnect
<1>9. CASE WorkerDisconnecting
  <2>1. QueueQuiet'
    BY <1>9, QueueFrame DEF LifecycleInv, ThreadAhead, WorkerDisconnecting, WorkerGoes, app
  <2>2. ThreadsInv'
    BY <1>9 DEF LifecycleInv, ThreadsInv, WorkerDisconnecting, WorkerGoes
  <2> QED
    BY <1>3, <2>1, <2>2
<1>10. CASE WorkerJoins
  <2>1. QueueQuiet'
    BY <1>10, QueueFrame DEF LifecycleInv, ThreadAhead, WorkerJoins, app
  <2>2. ThreadsInv'
    BY <1>2, <1>10 DEF LifecycleInv, ThreadsInv, WorkerJoins, net
  <2> QED
    BY <1>3, <2>1, <2>2
<1>11. CASE WorkerCleansUp
  <2>1. QueueQuiet'
    BY <1>11, QueueFrame DEF LifecycleInv, ThreadAhead, WorkerCleansUp, app
  <2>2. ThreadsInv'
    <3>1. /\ worker = "cleanup" /\ worker' = "gone" /\ thread' = "none"
          /\ threaded' = (thread' # "none")
          /\ sock' = FALSE /\ out_packet' = <<>>
          /\ UNCHANGED <<asked, host, state, isConnected>>
      BY <1>11 DEF WorkerCleansUp
    <3>2. \A i \in DOMAIN out_packet' : FALSE
      BY <3>1
    <3> QED
      BY <3>1, <3>2 DEF LifecycleInv, ThreadsInv
  <2> QED
    BY <1>3, <2>1, <2>2
<1> QED
  BY <1>1, <1>4, <1>5, <1>6, <1>7, <1>8, <1>9, <1>10, <1>11 DEF Worker

LEMMA ThreadSafe ==
  ASSUME LifecycleInv, Thread
  PROVE  LifecycleInv'
<1> USE DEF ConnectedOrReporting, CleanupFindsNoThread, SuccessIsRequested, ThreadKnown, NoHost,
            AskedStops, OnlyOnRequest, Quiet, Connecting
<1>1. TypeOK /\ TypeOK'
  BY ThreadType DEF LifecycleInv
<1>2. /\ thread # "none" /\ thread' # "none"
      /\ UNCHANGED <<config, app, operation, threaded, host>>
  <2>1. ASSUME OnDisconnect
        PROVE  thread # "none" /\ thread' # "none"
    BY <2>1 DEF OnDisconnect, Returns, ThreadGoes
  <2> QED
    BY <2>1
    DEF Thread, LoopWrite, HandleConnack, HandleConnackSets, HandleConnackRefused, ConnLost,
        FatalError, KeepaliveTooSoon, KeepaliveStuck, KeepaliveExpires, Fails, SocketClose,
        ReadState, OnDisconnect, LoopNoConn, Check, Wake, ThreadReconnects, ThreadReconnectFails,
        ThreadGoes
<1>3. QueueQuiet'
  BY <1>2, QueueFrame DEF LifecycleInv, ThreadAhead, app, operation
<1>4. ASSUME ThreadsInv'
      PROVE  LifecycleInv'
  BY <1>1, <1>3, <1>4 DEF LifecycleInv, ThreadsInv
<1>5. CASE LoopWrite
  <2>1. /\ thread = "loop"
        /\ thread' = IF Head(out_packet) = "DISCONNECT" THEN "report0" ELSE "loop"
        /\ sock /\ out_packet # <<>>
        /\ UNCHANGED <<state, isConnected>>
        /\ Head(out_packet) # "DISCONNECT" => sock'
    BY <1>5 DEF LoopWrite, ThreadGoes, PacketWrite
  <2>2. /\ Head(out_packet) = "DISCONNECT" => asked
        /\ \A i \in DOMAIN out_packet' : out_packet'[i] = "DISCONNECT" => asked
    BY <1>1, <1>2, <1>5, PacketWritten DEF LoopWrite, LifecycleInv
  <2> QED
    BY <1>1, <1>2, <1>4, <2>1, <2>2 DEF LifecycleInv, ThreadsInv, operation
<1>6. CASE HandleConnack \/ HandleConnackSets
  <2>1. ThreadsInv'
    BY <1>2, <1>6
    DEF HandleConnack, HandleConnackSets, ThreadGoes, LifecycleInv, ThreadsInv, operation
  <2> QED
    BY <1>4, <2>1
<1>7. CASE HandleConnackRefused \/ ConnLost \/ FatalError \/ KeepaliveTooSoon \/ KeepaliveStuck
  <2>1. ThreadsInv'
    BY <1>1, <1>2, <1>7, FailsOnly DEF LifecycleInv, ThreadsInv, operation
  <2> QED
    BY <1>4, <2>1
<1>8. CASE SocketClose \/ ReadState
  <2>1. ThreadsInv'
    BY <1>1, <1>2, <1>8
    DEF SocketClose, ReadState, ThreadGoes, LifecycleInv, ThreadsInv, operation, net
  <2> QED
    BY <1>4, <2>1
<1>9. CASE OnDisconnect
  <2>1. /\ thread \in {"report0", "report1"}
        /\ thread' \in {"loop", "check", "ended", "error"}
        /\ isConnected' = FALSE
        /\ UNCHANGED <<state, sock, out_packet>>
    BY <1>9 DEF OnDisconnect, Returns, ThreadGoes
  <2>2. ThreadsInv'
    BY <1>1, <1>2, <2>1 DEF LifecycleInv, ThreadsInv, operation
  <2> QED
    BY <1>4, <2>2
<1>10. CASE LoopNoConn \/ Check \/ Wake
  <2>1. ThreadsInv'
    BY <1>1, <1>2, <1>10
    DEF LoopNoConn, Check, Wake, ThreadGoes, net, LifecycleInv, ThreadsInv, operation
  <2> QED
    BY <1>4, <2>1
<1>11. CASE ThreadReconnects \/ ThreadReconnectFails
  <2>1. /\ thread \in {"r1", "r2", "r3", "r4"}
        /\ thread' \in {"r2", "r3", "r4", "loop", "check"}
    BY <1>11 DEF ThreadReconnects, ThreadReconnectFails, ThreadGoes
  <2>2. host /\ ~ isConnected
    BY <2>1 DEF LifecycleInv
  <2>3. CASE ReconnectBegin \/ ReconnectPurge
    BY <1>2, <1>4, <2>1, <2>2, <2>3
    DEF ReconnectBegin, ReconnectPurge, LifecycleInv, ThreadsInv, operation
  <2>4. CASE SocketConnect \/ SocketConnectFails
    BY <1>2, <1>4, <2>1, <2>2, <2>4
    DEF SocketConnect, SocketConnectFails, net, LifecycleInv, ThreadsInv, operation
  <2>5. CASE QueueConnect
    <3>1. \A i \in DOMAIN out_packet' :
            \/ out_packet'[i] = "CONNECT"
            \/ i \in DOMAIN out_packet /\ out_packet'[i] = out_packet[i]
      BY <1>1, <2>5 DEF QueueConnect, TypeOK
    <3> QED
      BY <1>2, <1>4, <2>1, <2>2, <2>5, <3>1
      DEF QueueConnect, LifecycleInv, ThreadsInv, operation
  <2> QED
    BY <1>11, <2>3, <2>4, <2>5 DEF ThreadReconnects, ThreadReconnectFails
<1> QED
  BY <1>5, <1>6, <1>7, <1>8, <1>9, <1>10, <1>11 DEF Thread

LEMMA AppSafe ==
  ASSUME LifecycleInv, ConnectTo \/ Reconnect \/ Request \/ Disconnect \/ Deinit
  PROVE  LifecycleInv'
<1>1. TypeOK' /\ QueueQuiet'
  BY AppType, AppQueue DEF LifecycleInv
<1>2. UNCHANGED <<operation, thread, threaded, host, net>>
  BY DEF ConnectTo, Reconnect, Request, Disconnect, Deinit, Call
<1> QED
  BY <1>1, <1>2
  DEF LifecycleInv, ConnectedOrReporting, CleanupFindsNoThread, SuccessIsRequested, ThreadKnown,
      NoHost, AskedStops, OnlyOnRequest, Quiet, Connecting, net, operation

LEMMA InitSafe == Init => LifecycleInv
<1> SUFFICES ASSUME Init
             PROVE  LifecycleInv
  OBVIOUS
<1>1. TypeOK
  BY InitType
<1>2. /\ worker = "idle" /\ thread = "none" /\ threaded = FALSE /\ sock = FALSE
      /\ out_packet = <<>> /\ isConnected = FALSE /\ state = "new" /\ host = FALSE
      /\ asked = FALSE
  BY DEF Init
<1>3. queue \in {<<>>, <<"connect">>} /\ (~ isRunning => queue = <<>>)
  BY DEF Init
<1>4. QueueQuiet
  <2>1. \A i \in DOMAIN queue : queue[i] # "cleanup"
    BY <1>3
  <2>2. ~ ThreadAhead
    BY <1>2 DEF ThreadAhead, Connecting
  <2>3. queue = <<>> => QuietBefore(Len(queue) + 1)
    BY <2>2 DEF QuietBefore, QuietIn
  <2> QED
    BY <1>2, <1>3, <2>1, <2>3 DEF QueueQuiet
<1>5. threaded = (thread # "none")
  BY <1>2
<1>6. \A i \in DOMAIN out_packet : out_packet[i] # "DISCONNECT"
  BY <1>2
<1> QED
  BY <1>1, <1>2, <1>4, <1>5, <1>6
  DEF LifecycleInv, ConnectedOrReporting, CleanupFindsNoThread, SuccessIsRequested, ThreadKnown,
      NoHost, AskedStops, OnlyOnRequest

LEMMA NextSafe == LifecycleInv /\ [Next]_vars => LifecycleInv'
<1> SUFFICES ASSUME LifecycleInv, [Next]_vars
             PROVE  LifecycleInv'
  OBVIOUS
<1>1. CASE UNCHANGED vars
  BY <1>1
  DEF vars, app, net, operation, LifecycleInv, TypeOK, ConnectedOrReporting, CleanupFindsNoThread,
      SuccessIsRequested, QueueQuiet, QuietBefore, QuietIn, ThreadAhead, Connecting, Released,
      ThreadKnown, NoHost, AskedStops, OnlyOnRequest, Quiet
<1>2. CASE Next
  BY <1>1, <1>2, AppSafe, WorkerSafe, ThreadSafe DEF Next, Thread, SelectTimeout, AppDone
<1> QED
  BY <1>1, <1>2

(* A client without a connection is seen as connected only until the       *)
(* thread that closed its socket has called on_disconnect, and never once  *)
(* mosquitto_loop was left, for calls in any number and order.             *)
THEOREM ConnectedCorrect == Spec => []ConnectedOrReporting
<1>1. LifecycleInv => ConnectedOrReporting
  BY DEF LifecycleInv
<1> QED
  BY <1>1, InitSafe, NextSafe, PTL DEF Spec

(* struct mosquitto is destroyed only when the network thread has been     *)
(* joined, for calls in any number and order.                              *)
THEOREM CleanupCorrect == Spec => []CleanupFindsNoThread
<1>1. LifecycleInv => CleanupFindsNoThread
  BY DEF LifecycleInv
<1> QED
  BY <1>1, InitSafe, NextSafe, PTL DEF Spec

(* on_disconnect reports success only if no connection was asked for since *)
(* the last disconnect(), whichever thread closes the socket and whatever  *)
(* is left in the packet queue, for calls in any number and order.         *)
THEOREM ReportsCorrect == Spec => []SuccessIsRequested
<1>1. LifecycleInv => SuccessIsRequested
  BY DEF LifecycleInv
<1> QED
  BY <1>1, InitSafe, NextSafe, PTL DEF Spec
=============================================================================
