---------------------------- MODULE NetworkTimers ----------------------------
(***************************************************************************)
(* The network thread and time: the timeout of select(), the keepalive     *)
(* timers last_msg_in, last_msg_out and ping_t, the duration of an attempt *)
(* to connect, and the waits between the attempts.                         *)
(*                                                                         *)
(* Time passes in whole seconds, as mosquitto_time() counts them.  A time  *)
(* stamp is kept as its age.  A thread that has something to do does it    *)
(* before the next second begins; only the network may keep a packet from  *)
(* being written for longer.                                               *)
(***************************************************************************)
EXTENDS Integers, Sequences, FiniteSetsExt

CONSTANTS
  KeepAlive,   \* mosq->keepalive, in seconds
  Delays,      \* values of mosq->reconnect_delay
  DelayMax,    \* mosq->reconnect_delay_max
  ConnectMax,  \* bound: seconds an attempt to connect takes
  RetryCap     \* bound: attempts that are told apart

ASSUME TimersAssumption ==
  /\ KeepAlive \in Nat \ {0}
  /\ Delays \subseteq Nat
  /\ DelayMax \in Nat
  /\ ConnectMax \in Nat
  /\ RetryCap \in Nat /\ RetryCap * RetryCap > DelayMax

VARIABLES
  reconnect_delay,                \* options set before connecting,
  reconnect_exponential_backoff,  \* never changed afterwards
  thread,        \* "loop", "misc": in mosquitto_loop, before and after reading
                 \* and writing; "connack": in handle_connack; "check",
                 \* "sleep", "wake", "connect": on its way to a new connection
  left,          \* seconds until select(), sleep() or connect() returns
  worker,        \* the operation queue: "d2" and "join" in disconnect()
  state,         \* mosq->state
  sock,          \* is there a socket?
  link,          \* does the other side answer on it?
  out_packet,    \* the packet queue; packets of no interest that follow each
                 \* other are one "OTHER"
  blocked,       \* is the rest of a packet waiting for the network to take it?
  last_msg_in,   \* age of mosq->last_msg_in
  last_msg_out,  \* age of mosq->last_msg_out
  ping_t,        \* age of mosq->ping_t; NoPing: 0
  reconnects,    \* local to mosquitto_loop_forever
  (* History *)
  awaited,       \* the answer awaited from the broker
  waiting,       \* ... and for how long, from when its question was queued
  heard,         \* seconds since a packet, or a part of a long one, was received
  silent,        \* seconds since anything was written
  took,          \* seconds the attempt to make the connection has taken
  reports,       \* calls of on_disconnect for it
  stopping       \* seconds the thread has had nothing to do but to end, after
                 \* disconnect(); NotStopping: not begun

options == <<reconnect_delay, reconnect_exponential_backoff>>
timers == <<last_msg_in, last_msg_out, ping_t>>
out == <<out_packet, blocked>>
peer == <<awaited, waiting, heard, silent, took>>
vars == <<options, thread, left, worker, state, sock, link, out, timers, reconnects,
          peer, reports, stopping>>

NoPing == -1
NotStopping == -1

\* The longest silences there are (SilenceBounded, DeadPeerClosed), and where
\* counting stops
SilentMax == 2 * KeepAlive - 1
HeardMax == 4 * KeepAlive - 2
AgeCap == HeardMax + ConnectMax + 1

Packets == {"CONNECT", "PINGREQ", "DISCONNECT", "OTHER"}

TypeOK ==
  /\ reconnect_delay \in Delays
  /\ reconnect_exponential_backoff \in BOOLEAN
  /\ thread \in {"loop", "connack", "misc", "check", "sleep", "wake", "connect", "ended"}
  /\ left \in 0 .. Max({KeepAlive, DelayMax, ConnectMax})
  /\ worker \in {"idle", "d2", "join"}
  /\ state \in {"new", "connected", "disconnecting"}
  /\ sock \in BOOLEAN
  /\ link \in {"answers", "dead"}
  /\ out_packet \in Seq(Packets)
  /\ blocked \in BOOLEAN
  /\ last_msg_in \in 0 .. AgeCap
  /\ last_msg_out \in 0 .. AgeCap
  /\ ping_t \in NoPing .. AgeCap
  /\ reconnects \in 0 .. RetryCap
  /\ awaited \in {"none", "CONNACK", "PINGRESP"}
  /\ waiting \in 0 .. AgeCap
  /\ heard \in 0 .. AgeCap
  /\ silent \in 0 .. AgeCap
  /\ took \in 0 .. ConnectMax
  /\ reports \in 0 .. 2
  /\ stopping \in NotStopping .. DelayMax + 1

\* The first connection is made on the operation queue, which writes CONNECT
\* itself, or the part of it that the network takes; then mosquitto_loop_start
\* starts the network thread.
Init ==
  /\ reconnect_delay \in Delays
  /\ reconnect_exponential_backoff \in BOOLEAN
  /\ thread = "loop"
  /\ left = KeepAlive
  /\ worker = "idle"
  /\ state = "new"
  /\ sock \in BOOLEAN
  /\ link = "answers"
  /\ out_packet \in IF sock THEN {<<>>, <<"CONNECT">>} ELSE {<<>>}
  /\ blocked = (out_packet # <<>>)
  /\ took \in 0 .. ConnectMax
  /\ last_msg_in = took
  /\ last_msg_out = IF blocked THEN took ELSE 0
  /\ ping_t = NoPing
  /\ reconnects = 0
  /\ awaited = IF sock THEN "CONNACK" ELSE "none"
  /\ waiting = 0 /\ heard = 0 /\ silent = 0
  /\ reports = 0
  /\ stopping = NotStopping

-----------------------------------------------------------------------------
(* mosquitto_loop and how it ends.                                         *)

ThreadGoes(from, to) ==
  /\ thread = from
  /\ thread' = to
  /\ UNCHANGED <<options, worker>>

\* MOSQ_ERR_SUCCESS: mosquitto_loop is called again, and waits in select() for a
\* full keepalive interval.
Success ==
  /\ left' = KeepAlive
  /\ reconnects' = 0

\* _mosquitto_packet_queue, with a network thread
Queued(packet) ==
  IF packet = "OTHER" /\ out_packet # <<>> /\ out_packet[Len(out_packet)] = "OTHER"
  THEN out_packet
  ELSE Append(out_packet, packet)

Waits(packet) == \E i \in DOMAIN out_packet : out_packet[i] = packet

\* Mutant: on_disconnect is not called.
CloseSilently(n) ==
  /\ sock' = FALSE
  /\ blocked' = FALSE
  /\ awaited' = "none"
  /\ waiting' = 0 /\ heard' = 0 /\ silent' = 0 /\ took' = 0
  /\ stopping' = IF state = "disconnecting" THEN 0 ELSE stopping
  /\ UNCHANGED reports

\* The socket is closed, and on_disconnect called n times.
Close(n) ==
  /\ sock' = FALSE
  /\ blocked' = FALSE
  /\ reports' = reports + n
  /\ awaited' = "none"
  /\ waiting' = 0 /\ heard' = 0 /\ silent' = 0 /\ took' = 0
  /\ stopping' = IF state = "disconnecting" THEN 0 ELSE stopping

\* _mosquitto_loop_rc_handle: a client that is disconnecting takes an error for
\* success.
ReturnHandled ==
  \/ state = "disconnecting" /\ ThreadGoes("loop", "loop") /\ Success
  \/ state # "disconnecting" /\ ThreadGoes("loop", "check") /\ UNCHANGED <<left, reconnects>>

CloseOnError ==
  /\ sock
  /\ Close(1)
  /\ ReturnHandled
  /\ UNCHANGED <<state, link, out_packet, timers>>

\* A packet is received: select() returns, and last_msg_in is set.
Receive ==
  /\ sock
  /\ link = "answers"
  /\ last_msg_in' = 0
  /\ heard' = 0
  /\ UNCHANGED <<left, state, sock, link, blocked, last_msg_out, reconnects, silent, took,
                 reports, stopping>>

Answered(packet) ==
  /\ awaited = packet
  /\ awaited' = "none"
  /\ waiting' = 0

\* _mosquitto_handle_connack: the unlocked test of the state ...
HandleConnack ==
  /\ ThreadGoes("loop", IF state = "disconnecting" THEN "misc" ELSE "connack")
  /\ Receive
  /\ Answered("CONNACK") /\ ~ Waits("CONNECT")
  /\ UNCHANGED <<ping_t, out_packet>>

\* ... and the assignment: a disconnect() in between is forgotten.
HandleConnackSets ==
  /\ ThreadGoes("connack", "misc")
  /\ state' = "connected"
  /\ UNCHANGED <<left, sock, link, out, timers, reconnects, peer, reports, stopping>>

HandleConnackRefused ==
  /\ awaited = "CONNACK" /\ ~ Waits("CONNECT") /\ link = "answers"
  /\ CloseOnError

HandlePingresp ==
  /\ ThreadGoes("loop", "misc")
  /\ Receive
  /\ Answered("PINGRESP") /\ ~ Waits("PINGREQ")
  /\ ping_t' = NoPing
  /\ UNCHANGED out_packet

\* Any other packet, after CONNACK; PINGREQ, and PUBLISH and PUBREL at their QoS, are answered.
HandlePacket ==
  /\ ThreadGoes("loop", "misc")
  /\ Receive
  /\ awaited # "CONNACK"
  /\ out_packet' \in {out_packet, Queued("OTHER")}
  /\ UNCHANGED <<ping_t, awaited, waiting>>

\* The next part of a packet; last_msg_in is set only if it is a long one, with
\* more than 1000 bytes to come.
ReceivePart ==
  /\ ThreadGoes("loop", "misc")
  /\ sock
  /\ link = "answers" /\ ~ Waits("CONNECT")
  /\ \/ last_msg_in' = 0 /\ heard' = 0
     \/ UNCHANGED <<last_msg_in, heard>>
  /\ UNCHANGED <<left, state, sock, link, out, last_msg_out, ping_t, reconnects, awaited,
                 waiting, silent, took, reports, stopping>>

ConnLost == CloseOnError

\* mosquitto_loop_write: the packet at the head of the queue is written as a
\* whole, which sets last_msg_out ...
LoopWrite ==
  /\ sock /\ ~ blocked
  /\ out_packet # <<>> /\ Head(out_packet) # "DISCONNECT"
  /\ out_packet' = Tail(out_packet)
  /\ ThreadGoes("loop", IF out_packet' = <<>> THEN "misc" ELSE "loop")
  /\ last_msg_out' = 0
  /\ silent' = 0
  /\ UNCHANGED <<left, state, sock, link, blocked, last_msg_in, ping_t, reconnects, awaited,
                 waiting, heard, took, reports, stopping>>

\* ... or in part, which does not: EAGAIN.  Of several packets some may be whole.
LoopWritePart ==
  /\ sock /\ ~ blocked
  /\ out_packet # <<>>
  /\ ThreadGoes("loop", "misc")
  /\ blocked' = TRUE
  /\ silent' = 0
  /\ last_msg_out' \in {last_msg_out} \cup (IF Head(out_packet) = "OTHER" THEN {0} ELSE {})
  /\ UNCHANGED <<left, state, sock, link, out_packet, last_msg_in, ping_t, reconnects, awaited,
                 waiting, heard, took, reports, stopping>>

\* DISCONNECT closes the socket and calls on_disconnect.  With more than one
\* unacknowledged message the loop of mosquitto_loop_write goes on, to
\* MOSQ_ERR_NO_CONN, and on_disconnect is called again.
LoopWriteDisconnect ==
  /\ sock /\ ~ blocked
  /\ out_packet # <<>> /\ Head(out_packet) = "DISCONNECT"
  /\ out_packet' = Tail(out_packet)
  /\ last_msg_out' = 0
  /\ \/ Close(1) /\ ThreadGoes("loop", "loop") /\ Success
     \/ Close(2) /\ ReturnHandled
  /\ UNCHANGED <<state, link, last_msg_in, ping_t>>

SelectTimeout ==
  /\ ThreadGoes("loop", "misc")
  /\ sock
  /\ left = 0
  /\ UNCHANGED <<left, state, sock, link, out, timers, reconnects, peer, reports, stopping>>

\* mosquitto_loop without a socket: MOSQ_ERR_NO_CONN
LoopNoConn ==
  /\ ThreadGoes("loop", "check")
  /\ ~ sock
  /\ UNCHANGED <<left, state, sock, link, out, timers, reconnects, peer, reports, stopping>>

-----------------------------------------------------------------------------
(* mosquitto_loop_misc: first _mosquitto_check_keepalive ...               *)

\* Mutant: only received messages count.
StaleIn == last_msg_in >= KeepAlive

\* Was nothing received, or nothing written, for a keepalive interval?
Stale == last_msg_in >= KeepAlive \/ last_msg_out >= KeepAlive

Expired == ping_t # NoPing /\ ping_t >= KeepAlive

MayPing == state = "connected" /\ ping_t = NoPing

NothingDue ==
  /\ ThreadGoes("misc", "loop")
  /\ ~ Stale /\ ~ Expired
  /\ Success
  /\ UNCHANGED <<state, sock, link, out, timers, peer, reports, stopping>>

\* Mutant: the times are not reset.
SendPingreqOnly ==
  /\ ThreadGoes("misc", "loop")
  /\ Stale /\ MayPing
  /\ out_packet' = Queued("PINGREQ")
  /\ awaited' = "PINGRESP" /\ waiting' = 0
  /\ ping_t' = 0
  /\ Success
  /\ UNCHANGED <<state, sock, link, blocked, last_msg_in, last_msg_out, heard, silent, took,
                 reports, stopping>>

\* Mutant: ping_t is not set.
SendPingreqForgets ==
  /\ ThreadGoes("misc", "loop")
  /\ Stale /\ MayPing
  /\ out_packet' = Queued("PINGREQ")
  /\ awaited' = "PINGRESP" /\ waiting' = 0
  /\ last_msg_in' = 0 /\ last_msg_out' = 0
  /\ Success
  /\ UNCHANGED <<state, sock, link, blocked, ping_t, heard, silent, took, reports, stopping>>

SendPingreq ==
  /\ ThreadGoes("misc", "loop")
  /\ Stale /\ MayPing
  /\ out_packet' = Queued("PINGREQ")
  /\ awaited' = "PINGRESP" /\ waiting' = 0
  /\ ping_t' = 0
  /\ last_msg_in' = 0
  /\ last_msg_out' = 0
  /\ Success
  /\ UNCHANGED <<state, sock, link, blocked, heard, silent, took, reports, stopping>>

\* ... then the test of ping_t, made although the socket may be closed already.
\* Each of the two calls on_disconnect, and only the second returns an error.
TimeOut ==
  LET calls == (IF Stale /\ ~ MayPing THEN 1 ELSE 0) + (IF Expired THEN 1 ELSE 0)
  IN /\ ThreadGoes("misc", IF Expired THEN "check" ELSE "loop")
     /\ calls > 0
     /\ Close(calls)
     /\ IF Expired THEN UNCHANGED <<left, reconnects>> ELSE Success
     /\ UNCHANGED <<state, link, out_packet, timers>>

-----------------------------------------------------------------------------
(* mosquitto_loop_forever: waiting and connecting again.                   *)

Backoff ==
  IF reconnect_delay > 0 /\ reconnect_exponential_backoff
  THEN reconnect_delay * reconnects * reconnects
  ELSE reconnect_delay

CountUp(n) == IF n < RetryCap THEN n + 1 ELSE n

\* Mutant: the delay is not limited.
CheckUnlimited ==
  /\ ThreadGoes("check", IF state = "disconnecting" THEN "ended" ELSE "sleep")
  /\ left' = Backoff
  /\ reconnects' = CountUp(reconnects)
  /\ UNCHANGED <<state, sock, link, out, timers, peer, reports, stopping>>

\* End, or sleep.  reconnects stays as it is once the delay is at its limit.
Check ==
  /\ ThreadGoes("check", IF state = "disconnecting" THEN "ended" ELSE "sleep")
  /\ left' = Min({Backoff, DelayMax})
  /\ reconnects' = IF Backoff > DelayMax THEN reconnects ELSE CountUp(reconnects)
  /\ UNCHANGED <<state, sock, link, out, timers, peer, reports, stopping>>

\* Mutant: the state is not looked at after sleep().
WakeBlindly ==
  /\ ThreadGoes("sleep", "wake")
  /\ left = 0
  /\ UNCHANGED <<left, state, sock, link, out, timers, reconnects, peer, reports, stopping>>

\* After sleep() the state is looked at again, under its mutex ...
Wake ==
  /\ ThreadGoes("sleep", IF state = "disconnecting" THEN "ended" ELSE "wake")
  /\ left = 0
  /\ UNCHANGED <<left, state, sock, link, out, timers, reconnects, peer, reports, stopping>>

\* ... and overwritten by _mosquitto_reconnect, whatever it is by then; this
\* goes on up to the blocking connect().
ReconnectBegin ==
  /\ ThreadGoes("wake", "connect")
  /\ state' = "new"
  /\ last_msg_in' = 0
  /\ last_msg_out' = 0
  /\ ping_t' = NoPing
  /\ out_packet' = <<>>
  /\ left' \in 0 .. ConnectMax
  /\ took' = left'
  /\ UNCHANGED <<sock, link, blocked, reconnects, awaited, waiting, heard, silent, reports,
                 stopping>>

\* The connection is there, to a broker that answers or not.
Connected ==
  /\ ThreadGoes("connect", "loop")
  /\ left = 0
  /\ left' = KeepAlive
  /\ sock' = TRUE
  /\ link' \in {"answers", "dead"}
  /\ out_packet' = Queued("CONNECT")
  /\ awaited' = "CONNACK"
  /\ reports' = 0
  /\ UNCHANGED <<state, blocked, timers, reconnects, waiting, heard, silent, took, stopping>>

ConnectFails ==
  /\ ThreadGoes("connect", "check")
  /\ left = 0
  /\ took' = 0
  /\ stopping' = IF state = "disconnecting" THEN 0 ELSE stopping
  /\ UNCHANGED <<left, state, sock, link, out, timers, reconnects, awaited, waiting, heard,
                 silent, reports>>

-----------------------------------------------------------------------------
(* The operation queue, the network and time.                              *)

Request ==
  /\ worker = "idle"
  /\ sock
  /\ out_packet' = Queued("OTHER")
  /\ UNCHANGED <<options, thread, left, worker, state, sock, link, blocked, timers,
                 reconnects, peer, reports, stopping>>

\* disconnect(): the state under its mutex.  Without a socket the thread has only
\* to end, unless it is on its way through _mosquitto_reconnect.
Disconnect ==
  /\ worker = "idle"
  /\ worker' = "d2"
  /\ state' = "disconnecting"
  /\ stopping' = IF sock \/ thread \in {"wake", "connect"} THEN stopping ELSE 0
  /\ UNCHANGED <<options, thread, left, sock, link, out, timers, reconnects, peer, reports>>

\* Then DISCONNECT is queued, and mosquitto_loop_stop waits for the thread.
DisconnectSends ==
  /\ worker = "d2"
  /\ worker' = "join"
  /\ out_packet' = IF sock THEN Queued("DISCONNECT") ELSE out_packet
  /\ UNCHANGED <<options, thread, left, state, sock, link, blocked, timers, reconnects,
                 peer, reports, stopping>>

\* The broker or the network dies without a word.
PeerDies ==
  /\ sock
  /\ link = "answers"
  /\ link' = "dead"
  /\ UNCHANGED <<options, thread, left, worker, state, sock, out, timers, reconnects, peer,
                 reports, stopping>>

\* The network takes more to write.
Writable ==
  /\ blocked
  /\ link = "answers"
  /\ blocked' = FALSE
  /\ UNCHANGED <<options, thread, left, worker, state, sock, link, out_packet, timers,
                 reconnects, peer, reports, stopping>>

Older(age, cap) == IF age < cap THEN age + 1 ELSE age

\* A second passes.  Without a socket and a connect() on its way the time stamps
\* are not read before they are set again, and not counted.
Tick ==
  /\ left > 0
  /\ left' = left - 1
  /\ worker # "d2"
  /\ \/ thread = "loop" /\ sock /\ (out_packet = <<>> \/ blocked)
     \/ thread \in {"sleep", "connect"}
  /\ IF thread = "sleep"
     THEN UNCHANGED timers
     ELSE /\ last_msg_in' = Older(last_msg_in, AgeCap)
          /\ last_msg_out' = Older(last_msg_out, AgeCap)
          /\ ping_t' = IF ping_t = NoPing THEN NoPing ELSE Older(ping_t, AgeCap)
  /\ IF sock
     THEN /\ heard' = Older(heard, AgeCap)
          /\ silent' = Older(silent, AgeCap)
          /\ waiting' = IF awaited = "none" THEN 0 ELSE Older(waiting, AgeCap)
     ELSE UNCHANGED <<heard, silent, waiting>>
  /\ stopping' = IF stopping = NotStopping THEN NotStopping
                 ELSE Older(stopping, DelayMax + 1)
  /\ UNCHANGED <<options, thread, worker, state, sock, link, out, reconnects, awaited, took,
                 reports>>

Ended == thread = "ended" /\ UNCHANGED vars

-----------------------------------------------------------------------------
Next ==
  \/ HandleConnack \/ HandleConnackSets \/ HandleConnackRefused \/ HandlePingresp
  \/ HandlePacket \/ ReceivePart \/ ConnLost
  \/ LoopWrite \/ LoopWritePart \/ LoopWriteDisconnect \/ SelectTimeout \/ LoopNoConn
  \/ NothingDue \/ SendPingreq \/ TimeOut
  \/ Check \/ Wake \/ ReconnectBegin \/ Connected \/ ConnectFails
  \/ Request \/ Disconnect \/ DisconnectSends \/ PeerDies \/ Writable \/ Tick
  \/ Ended

Spec == Init /\ [][Next]_vars

-----------------------------------------------------------------------------
(* Properties.                                                             *)

\* A connected client with nothing left to write, because the network takes
\* it, is never silent for two keepalive intervals.  One interval is not kept: a
\* packet received just before its end makes select() wait for another one.
SilenceBounded ==
  (sock /\ state = "connected") => silent <= SilentMax \/ out_packet # <<>>

\* A connection on which no packet is received is closed in less than four keepalive
\* intervals: two until the ping is queued and two until its answer is missed,
\* if requests of the application make select() begin again each time, and
\* whether or not the network takes the ping.
DeadPeerClosed == sock => heard <= HeardMax

\* The timers only close a connection on which an answer is missing a keepalive
\* interval after its question was queued; the time the attempt to connect took
\* counts as well.  The time the question waits behind a slow upload counts
\* too: that the broker has been asked at all is not promised.
TimersWaitForAnswer ==
  [][(thread = "misc" /\ sock /\ ~ sock' /\ state # "disconnecting") =>
       awaited # "none" /\ waiting + took >= KeepAlive]_vars

\* Every connection is reported to on_disconnect once, and twice only if its
\* ping is not answered in time, or if it ends with a DISCONNECT that is written.
LossReported ==
  [][(sock /\ ~ sock') =>
       \/ reports' = 1
       \/ /\ reports' = 2
          /\ \/ thread = "misc" /\ awaited = "PINGRESP" /\ waiting >= KeepAlive
             \/ thread = "loop" /\ Head(out_packet) = "DISCONNECT"]_vars

\* A disconnect() that the thread does not forget ends it: once there is no
\* connection any more the thread ends within reconnect_delay_max seconds,
\* even if it sleeps when disconnect() is called.  Nothing is promised for one
\* that comes while the thread is connecting, whose state is overwritten.
StopBounded == thread # "ended" => stopping <= DelayMax
=============================================================================
