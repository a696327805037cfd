------------------------- MODULE NetworkTimersProofs -------------------------
(***************************************************************************)
(* The bounds of NetworkTimers hold for every keepalive interval, every    *)
(* delay and limit of the back-off and every duration of connect().        *)
(***************************************************************************)
EXTENDS NetworkTimers, TLAPS

\* There is a socket in mosquitto_loop only, and without one nothing is counted.
SocketKnown ==
  /\ thread \notin {"loop", "connack", "misc"} => ~ sock
  /\ thread \in {"connack", "misc"} => sock
  /\ sock => reports = 0 /\ left <= KeepAlive
  /\ ~ sock => waiting = 0 /\ heard = 0 /\ silent = 0
  /\ thread = "connect" =>
       /\ state # "connected" /\ ping_t = NoPing
       /\ last_msg_in + left <= took /\ last_msg_out + left <= took

\* Until CONNACK is received no ping is sent, and the time stamps are not older
\* than the attempt to connect.
Handshake ==
  sock =>
    /\ state = "new" => awaited = "CONNACK" \/ thread = "connack"
    /\ thread = "connack" => awaited = "none"
    /\ awaited = "CONNACK" =>
         /\ state # "connected"
         /\ last_msg_in <= waiting + took /\ last_msg_out <= waiting + took

\* ping_t says whether a ping is unanswered.  Only then is last_msg_in younger than
\* what has really been received.
Pinging ==
  sock =>
    /\ ping_t = NoPing => heard <= last_msg_in /\ heard + left <= SilentMax
    /\ ping_t # NoPing =>
         /\ awaited = "PINGRESP" /\ ping_t <= waiting
         /\ last_msg_in <= ping_t /\ last_msg_out <= ping_t
         /\ ping_t + left <= SilentMax
         /\ heard <= SilentMax + ping_t

\* With nothing left to write last_msg_out says when the last packet was written,
\* and what remains of the time-out of select() is taken from the second interval.
Silence ==
  sock =>
    /\ out_packet = <<>> => silent <= last_msg_out
    /\ Waits("CONNECT") \/ last_msg_out + left <= SilentMax

\* A thread without a connection that has to end spends time in sleep() only.
Stopping ==
  /\ thread = "sleep" => left <= DelayMax
  /\ stopping # NotStopping =>
       /\ state = "disconnecting" /\ ~ sock /\ thread \notin {"wake", "connect"}
       /\ thread = "sleep" => stopping + left <= DelayMax
       /\ thread \notin {"sleep", "ended"} => stopping = 0

\* The inductive invariant
TimersInv == TypeOK /\ SocketKnown /\ Handshake /\ Pinging /\ Silence /\ Stopping

-----------------------------------------------------------------------------
LEMMA MinOfTwo ==
  ASSUME NEW a \in Int, NEW b \in Int
  PROVE  Min({a, b}) = IF a <= b THEN a ELSE b
<1>1. \E x \in {a, b} : \A y \in {a, b} : x <= y
  OBVIOUS
<1>2. Min({a, b}) \in {a, b} /\ \A y \in {a, b} : Min({a, b}) <= y
  BY <1>1 DEF Min
<1> QED
  BY <1>2

LEMMA MaxOfThree ==
  ASSUME NEW a \in Int, NEW b \in Int, NEW c \in Int
  PROVE  /\ Max({a, b, c}) \in {a, b, c}
         /\ a <= Max({a, b, c}) /\ b <= Max({a, b, c}) /\ c <= Max({a, b, c})
<1>1. \E x \in {a, b, c} : \A y \in {a, b, c} : x >= y
  OBVIOUS
<1>2. Max({a, b, c}) \in {a, b, c} /\ \A y \in {a, b, c} : Max({a, b, c}) >= y
  BY <1>1 DEF Max
<1> QED
  BY <1>2

\* How long a wait may last at most
LeftMax == Max({KeepAlive, DelayMax, ConnectMax})

LEMMA LeftMaxFacts ==
  LeftMax \in Nat /\ KeepAlive <= LeftMax /\ DelayMax <= LeftMax /\ ConnectMax <= LeftMax
<1>1. KeepAlive \in Nat /\ DelayMax \in Nat /\ ConnectMax \in Nat
  BY TimersAssumption
<1>2. KeepAlive \in Int /\ DelayMax \in Int /\ ConnectMax \in Int
  BY <1>1
<1>3. /\ LeftMax \in {KeepAlive, DelayMax, ConnectMax}
      /\ KeepAlive <= LeftMax /\ DelayMax <= LeftMax /\ ConnectMax <= LeftMax
  BY <1>2, MaxOfThree, Zenon DEF LeftMax
<1> QED
  BY <1>1, <1>3

(* The numbers of TypeOK as integers, for the arithmetic below.            *)
LEMMA BackoffFacts ==
  ASSUME TypeOK
  PROVE  /\ Backoff \in Nat
         /\ Min({Backoff, DelayMax}) \in 0 .. DelayMax
<1>1. reconnect_delay \in Nat /\ reconnects \in Nat /\ DelayMax \in Nat
  BY TimersAssumption DEF TypeOK
<1>2. ASSUME NEW x \in Nat, NEW y \in Nat
      PROVE  x * y * y \in Nat
  <2>1. x * y \in Nat
    OBVIOUS
  <2> QED
    BY <2>1
<1>3. Backoff \in Nat
  BY <1>1, <1>2 DEF Backoff
<1> QED
  BY <1>1, <1>3, MinOfTwo

(* A packet that is queued comes last and leaves the others in the queue.  *)
LEMMA QueuedFacts ==
  ASSUME out_packet \in Seq(Packets), NEW p \in Packets, out_packet' = Queued(p)
  PROVE  /\ out_packet' \in Seq(Packets)
         /\ out_packet' # <<>>
         /\ Waits("CONNECT") => Waits("CONNECT")'
         /\ p = "CONNECT" => Waits("CONNECT")'
<1>1. CASE out_packet' = Append(out_packet, p)
  <2>1. /\ out_packet' \in Seq(Packets)
        /\ Len(out_packet') = Len(out_packet) + 1
        /\ \A i \in 1 .. Len(out_packet) : out_packet'[i] = out_packet[i]
        /\ out_packet'[Len(out_packet) + 1] = p
    BY <1>1
  <2>2. /\ Len(out_packet) \in Nat
        /\ DOMAIN out_packet = 1 .. Len(out_packet)
        /\ DOMAIN out_packet' = 1 .. Len(out_packet')
    BY <2>1
  <2>3. Waits("CONNECT") => Waits("CONNECT")'
    BY <2>1, <2>2 DEF Waits
  <2>4. p = "CONNECT" => Waits("CONNECT")'
    BY <2>1, <2>2 DEF Waits
  <2>5. out_packet' # <<>>
    BY <2>1, <2>2
  <2> QED
    BY <2>1, <2>3, <2>4, <2>5
<1>2. CASE out_packet' = out_packet /\ out_packet # <<>> /\ p = "OTHER"
  BY <1>2 DEF Waits
<1> QED
  BY <1>1, <1>2 DEF Queued

-----------------------------------------------------------------------------
(* Every action keeps the types; Close only adds to reports of an open     *)
(* connection.                                                             *)
LEMMA CloseType ==
  ASSUME TimersInv, NEW n \in 1 .. 2, sock, Close(n)
  PROVE  /\ sock' \in BOOLEAN /\ blocked' \in BOOLEAN /\ reports' = n /\ reports' \in 0 .. 2
         /\ awaited' = "none" /\ waiting' = 0 /\ heard' = 0 /\ silent' = 0 /\ took' = 0
         /\ stopping' \in NotStopping .. DelayMax + 1
<1>1. reports' = 0 + n
  BY DEF Close, TimersInv, SocketKnown
<1>2. reports' = n /\ reports' \in 0 .. 2
  BY <1>1
<1>3. stopping' \in {stopping, 0}
  BY DEF Close
<1>4. stopping' \in NotStopping .. DelayMax + 1
  BY <1>3, TimersAssumption DEF TimersInv, TypeOK, NotStopping
<1> QED
  BY <1>2, <1>4 DEF Close

(* An age is counted up to AgeCap.                                         *)
LEMMA TickAges ==
  ASSUME TypeOK, Tick
  PROVE  /\ last_msg_in' \in 0 .. AgeCap /\ last_msg_out' \in 0 .. AgeCap
         /\ ping_t' \in NoPing .. AgeCap
         /\ heard' \in 0 .. AgeCap /\ silent' \in 0 .. AgeCap /\ waiting' \in 0 .. AgeCap
<1>1. AgeCap \in Nat
  BY TimersAssumption DEF AgeCap, HeardMax
<1>2. ASSUME NEW a \in 0 .. AgeCap
      PROVE  Older(a, AgeCap) \in 0 .. AgeCap
  BY <1>1 DEF Older
<1>3. last_msg_in' \in 0 .. AgeCap /\ last_msg_out' \in 0 .. AgeCap
  BY <1>2 DEF Tick, TypeOK, timers
<1>4. ping_t' \in NoPing .. AgeCap
  <2>1. ping_t' \in {ping_t, NoPing, Older(ping_t, AgeCap)}
    BY DEF Tick, timers
  <2> QED
    BY <1>1, <2>1 DEF TypeOK, Older, NoPing
<1>5. heard' \in 0 .. AgeCap /\ silent' \in 0 .. AgeCap
  BY <1>2 DEF Tick, TypeOK
<1>6. waiting' \in 0 .. AgeCap
  <2>1. waiting' \in {waiting, 0, Older(waiting, AgeCap)}
    BY DEF Tick
  <2> QED
    BY <1>1, <1>2, <2>1 DEF TypeOK
<1> QED
  BY <1>3, <1>4, <1>5, <1>6

LEMMA TypeStep ==
  ASSUME TimersInv, Next
  PROVE  TypeOK'
<1>c. ASSUME NEW n \in 1 .. 2, sock, Close(n)
      PROVE  /\ sock' \in BOOLEAN /\ blocked' \in BOOLEAN /\ reports' \in 0 .. 2
             /\ awaited' = "none" /\ waiting' = 0 /\ heard' = 0 /\ silent' = 0 /\ took' = 0
             /\ stopping' \in NotStopping .. DelayMax + 1
  BY <1>c, CloseType
<1>t. ASSUME Tick
       PROVE  /\ last_msg_in' \in 0 .. AgeCap /\ last_msg_out' \in 0 .. AgeCap
              /\ ping_t' \in NoPing .. AgeCap
              /\ heard' \in 0 .. AgeCap /\ silent' \in 0 .. AgeCap /\ waiting' \in 0 .. AgeCap
  BY <1>t, TickAges DEF TimersInv
<1> USE TimersAssumption, LeftMaxFacts
<1> USE DEF NoPing, NotStopping, SilentMax, HeardMax, AgeCap, TimersInv, TypeOK, LeftMax
<1> USE DEF options, timers, out, peer, ThreadGoes
<1>1. CASE HandleConnack \/ HandlePingresp \/ ReceivePart \/ HandleConnackSets
  <2>1. CASE HandleConnack
    BY <2>1 DEF HandleConnack, Receive, Answered
  <2>2. CASE HandlePingresp
    BY <2>2 DEF HandlePingresp, Receive, Answered
  <2>3. CASE ReceivePart
    BY <2>3 DEF ReceivePart
  <2>4. CASE HandleConnackSets
    BY <2>4 DEF HandleConnackSets
  <2> QED
    BY <1>1, <2>1, <2>2, <2>3, <2>4
<1>2. CASE HandlePacket
  <2>1. out_packet' \in Seq(Packets)
    BY <1>2, QueuedFacts DEF HandlePacket, Packets
  <2> QED
    BY <1>2, <2>1 DEF HandlePacket, Receive
<1>3. CASE HandleConnackRefused \/ ConnLost
  <2>1. sock /\ Close(1) /\ CloseOnError
    BY <1>3 DEF HandleConnackRefused, ConnLost, CloseOnError
  <2>2. left' \in 0 .. LeftMax /\ reconnects' \in 0 .. RetryCap /\ thread' \in {"loop", "check"}
        /\ UNCHANGED <<options, worker>>
    BY <2>1 DEF CloseOnError, ReturnHandled, Success
  <2> QED
    BY <1>c, <2>1, <2>2 DEF CloseOnError
<1>4. CASE LoopWrite
  <2>1. out_packet' \in Seq(Packets)
    BY <1>4 DEF LoopWrite
  <2> QED
    BY <1>4, <2>1 DEF LoopWrite
<1>5. CASE LoopWritePart
  <2>1. last_msg_out' \in {last_msg_out, 0}
    BY <1>5 DEF LoopWritePart
  <2> QED
    BY <1>5, <2>1 DEF LoopWritePart
<1>6. CASE LoopWriteDisconnect
  <2>1. PICK n \in 1 .. 2 : Close(n)
    BY <1>6 DEF LoopWriteDisconnect
  <2>2. /\ left' \in 0 .. LeftMax /\ reconnects' \in 0 .. RetryCap /\ thread' \in {"loop", "check"}
        /\ UNCHANGED <<options, worker>>
    BY <1>6 DEF LoopWriteDisconnect, ReturnHandled, Success
  <2>3. out_packet' \in Seq(Packets)
    BY <1>6 DEF LoopWriteDisconnect
  <2>4. sock
    BY <1>6 DEF LoopWriteDisconnect
  <2> QED
    BY <1>c, <1>6, <2>1, <2>2, <2>3, <2>4 DEF LoopWriteDisconnect
<1>7. CASE SelectTimeout \/ LoopNoConn \/ NothingDue
  <2>1. CASE SelectTimeout
    BY <2>1 DEF SelectTimeout
  <2>2. CASE LoopNoConn
    BY <2>2 DEF LoopNoConn
  <2>3. CASE NothingDue
    BY <2>3 DEF NothingDue, Success
  <2> QED
    BY <1>7, <2>1, <2>2, <2>3
<1>8. CASE SendPingreq
  <2>1. out_packet' \in Seq(Packets)
    BY <1>8, QueuedFacts DEF SendPingreq, Packets
  <2> QED
    BY <1>8, <2>1 DEF SendPingreq, Success
<1>9. CASE TimeOut
  <2>1. PICK n \in 1 .. 2 : Close(n)
    BY <1>9 DEF TimeOut
  <2>2. sock
    BY <1>9 DEF TimeOut, SocketKnown
  <2>3. left' \in 0 .. LeftMax /\ reconnects' \in 0 .. RetryCap /\ thread' \in {"loop", "check"}
    BY <1>9 DEF TimeOut, Success
  <2> QED
    BY <1>c, <1>9, <2>1, <2>2, <2>3 DEF TimeOut
<1>10. CASE Check
  <2>1. reconnects' \in 0 .. RetryCap /\ left' \in 0 .. LeftMax
    BY <1>10, BackoffFacts DEF Check, CountUp
  <2> QED
    BY <1>10, <2>1 DEF Check
<1>11. CASE Wake \/ ConnectFails
  <2>1. CASE Wake
    BY <2>1 DEF Wake
  <2>2. CASE ConnectFails
    <3>1. stopping' \in {stopping, 0}
      BY <2>2 DEF ConnectFails
    <3> QED
      BY <2>2, <3>1 DEF ConnectFails
  <2> QED
    BY <1>11, <2>1, <2>2
<1>12. CASE ReconnectBegin
  <2>1. PICK n \in 0 .. ConnectMax : left' = n /\ took' = n
    BY <1>12 DEF ReconnectBegin
  <2>2. out_packet' \in Seq(Packets)
    BY <1>12 DEF ReconnectBegin
  <2> QED
    BY <1>12, <2>1, <2>2 DEF ReconnectBegin
<1>13. CASE Connected
  <2>1. out_packet' \in Seq(Packets)
    BY <1>13, QueuedFacts DEF Connected, Packets
  <2> QED
    BY <1>13, <2>1 DEF Connected
<1>14. CASE Request \/ DisconnectSends
  <2>1. out_packet' \in Seq(Packets)
    BY <1>14, QueuedFacts DEF Request, DisconnectSends, Packets
  <2>2. CASE Request
    BY <2>1, <2>2 DEF Request
  <2>3. CASE DisconnectSends
    BY <2>1, <2>3 DEF DisconnectSends
  <2> QED
    BY <1>14, <2>2, <2>3
<1>15. CASE Disconnect
  <2>1. stopping' \in {stopping, 0}
    BY <1>15 DEF Disconnect
  <2> QED
    BY <1>15, <2>1 DEF Disconnect
<1>16. CASE PeerDies \/ Writable
  <2>1. CASE PeerDies
    BY <2>1 DEF PeerDies
  <2>2. CASE Writable
    BY <2>2 DEF Writable
  <2> QED
    BY <1>16, <2>1, <2>2
<1>17. CASE Tick
  <2>1. left' \in 0 .. LeftMax /\ stopping' \in NotStopping .. DelayMax + 1
    BY <1>17 DEF Tick, Older
  <2> QED
    BY <1>t, <1>17, <2>1 DEF Tick
<1>18. CASE Ended
  BY <1>18 DEF Ended, vars
<1> QED
  BY <1>1, <1>2, <1>3, <1>4, <1>5, <1>6, <1>7, <1>8, <1>9, <1>10, <1>11, <1>12, <1>13, <1>14,
     <1>15, <1>16, <1>17, <1>18 DEF Next

-----------------------------------------------------------------------------
(* A closed connection leaves nothing to count, in mosquitto_loop and on   *)
(* the way out of it.                                                      *)
LEMMA ClosedConnection ==
  ASSUME ~ sock', thread' \in {"loop", "check"}, waiting' = 0, heard' = 0, silent' = 0
  PROVE  SocketKnown' /\ Handshake' /\ Pinging' /\ Silence'
BY DEF SocketKnown, Handshake, Pinging, Silence

LEMMA ConnectionStep ==
  ASSUME TimersInv, Next
  PROVE  SocketKnown' /\ Handshake' /\ Pinging' /\ Silence'
<1> USE TimersAssumption
<1> USE DEF NoPing, NotStopping, SilentMax, HeardMax, AgeCap, TimersInv, TypeOK
<1> USE DEF options, timers, out, peer, ThreadGoes, SocketKnown, Handshake, Pinging, Silence
<1>1. CASE HandleConnack
  BY <1>1 DEF HandleConnack, Receive, Answered
<1>2. CASE HandleConnackSets
  BY <1>2 DEF HandleConnackSets, Waits
<1>3. CASE HandlePingresp
  BY <1>3 DEF HandlePingresp, Receive, Answered, Waits
<1>4. CASE HandlePacket
  <2>1. (Waits("CONNECT") => Waits("CONNECT")') /\ (out_packet' = <<>> => out_packet = <<>>)
    BY <1>4, QueuedFacts DEF HandlePacket, Packets, Waits
  <2> QED
    BY <1>4, <2>1 DEF HandlePacket, Receive
<1>5. CASE ReceivePart
  BY <1>5 DEF ReceivePart, Waits
<1>6. CASE HandleConnackRefused \/ ConnLost
  BY <1>6, ClosedConnection DEF HandleConnackRefused, ConnLost, CloseOnError, Close, ReturnHandled
<1>7. CASE LoopWrite
  BY <1>7 DEF LoopWrite
<1>8. CASE LoopWritePart
  <2>1. last_msg_out' \in {last_msg_out, 0}
    BY <1>8 DEF LoopWritePart
  <2>2. Waits("CONNECT")' <=> Waits("CONNECT")
    BY <1>8 DEF LoopWritePart, Waits
  <2>3. SocketKnown' /\ Handshake' /\ Pinging'
    BY <1>8, <2>1 DEF LoopWritePart
  <2>4. out_packet' # <<>> /\ left' = left /\ left \in Nat /\ left <= KeepAlive
    BY <1>8, LeftMaxFacts DEF LoopWritePart, LeftMax
  <2>5. Waits("CONNECT")' \/ last_msg_out' + left' <= SilentMax
    <3>1. Waits("CONNECT") \/ last_msg_out + left <= SilentMax
      BY <1>8 DEF LoopWritePart
    <3>2. 0 + left <= SilentMax
      BY <2>4
    <3>3. last_msg_out + left <= SilentMax => last_msg_out' + left' <= SilentMax
      BY <2>1, <2>4, <3>2
    <3> QED
      BY <2>2, <3>1, <3>3
  <2>6. Silence'
    BY <2>4, <2>5
  <2> QED
    BY <2>3, <2>6
<1>9. CASE LoopWriteDisconnect
  BY <1>9, ClosedConnection DEF LoopWriteDisconnect, Close, ReturnHandled
<1>10. CASE SelectTimeout \/ LoopNoConn
  <2>1. Waits("CONNECT")' <=> Waits("CONNECT")
    BY <1>10 DEF SelectTimeout, LoopNoConn, Waits
  <2>2. CASE SelectTimeout
    BY <2>1, <2>2 DEF SelectTimeout
  <2>3. CASE LoopNoConn
    BY <2>1, <2>3 DEF LoopNoConn
  <2> QED
    BY <1>10, <2>2, <2>3
<1>11. CASE NothingDue
  BY <1>11 DEF NothingDue, Success, Stale, Expired, Waits
<1>12. CASE SendPingreq
  <2>1. (Waits("CONNECT") => Waits("CONNECT")') /\ out_packet' # <<>>
    BY <1>12, QueuedFacts DEF SendPingreq, Packets
  <2> QED
    BY <1>12, <2>1 DEF SendPingreq, Success, Stale, MayPing
<1>13. CASE TimeOut
  BY <1>13, ClosedConnection DEF TimeOut, Close
<1>14. CASE Check
  BY <1>14, BackoffFacts DEF Check
<1>15. CASE Wake \/ ConnectFails
  BY <1>15 DEF Wake, ConnectFails
<1>16. CASE ReconnectBegin
  <2>1. ~ sock' /\ waiting' = 0 /\ heard' = 0 /\ silent' = 0
    BY <1>16 DEF ReconnectBegin
  <2>2. PICK n \in 0 .. ConnectMax :
          /\ thread' = "connect" /\ state' = "new" /\ ping_t' = NoPing
          /\ last_msg_in' = 0 /\ last_msg_out' = 0 /\ left' = n /\ took' = n
    BY <1>16 DEF ReconnectBegin
  <2> QED
    BY <2>1, <2>2
<1>17. CASE Connected
  <2>1. Waits("CONNECT")' /\ out_packet' # <<>>
    BY <1>17, QueuedFacts DEF Connected, Packets
  <2> QED
    BY <1>17, <2>1 DEF Connected
<1>18. CASE Request \/ DisconnectSends
  <2>1. (Waits("CONNECT") => Waits("CONNECT")') /\ (out_packet' = <<>> => out_packet = <<>>)
    BY <1>18, QueuedFacts DEF Request, DisconnectSends, Packets, Waits
  <2>2. CASE Request
    BY <2>1, <2>2 DEF Request
  <2>3. CASE DisconnectSends
    BY <2>1, <2>3 DEF DisconnectSends
  <2> QED
    BY <1>18, <2>2, <2>3
<1>19. CASE Disconnect \/ PeerDies \/ Writable
  <2>1. Waits("CONNECT")' <=> Waits("CONNECT")
    BY <1>19 DEF Disconnect, PeerDies, Writable, Waits
  <2>2. CASE Disconnect
    BY <2>1, <2>2 DEF Disconnect
  <2>3. CASE PeerDies
    BY <2>1, <2>3 DEF PeerDies
  <2>4. CASE Writable
    BY <2>1, <2>4 DEF Writable
  <2> QED
    BY <1>19, <2>2, <2>3, <2>4
<1>20. CASE Tick
  <2>1. Waits("CONNECT")' <=> Waits("CONNECT")
    BY <1>20 DEF Tick, Waits
  <2>2. SocketKnown'
    BY <1>20 DEF Tick, Older
  <2>3. Handshake'
    BY <1>20 DEF Tick, Older
  <2>4. Pinging'
    BY <1>20 DEF Tick, Older
  <2>5. Silence'
    BY <1>20, <2>1 DEF Tick, Older
  <2> QED
    BY <2>2, <2>3, <2>4, <2>5
<1>21. CASE Ended
  BY <1>21 DEF Ended, vars, Waits
<1> QED
  BY <1>1, <1>2, <1>3, <1>4, <1>5, <1>6, <1>7, <1>8, <1>9, <1>10, <1>11, <1>12, <1>13, <1>14,
     <1>15, <1>16, <1>17, <1>18, <1>19, <1>20, <1>21 DEF Next

(* The time to end is counted from the close of the connection, or from    *)
(* disconnect() if there is none.                                          *)
LEMMA StoppingStep ==
  ASSUME TimersInv, Next
  PROVE  Stopping'
<1> USE TimersAssumption
<1> USE DEF NoPing, NotStopping, TimersInv, TypeOK, SocketKnown, Stopping
<1> USE DEF options, timers, out, peer, ThreadGoes
<1>1. CASE HandleConnack \/ HandlePingresp \/ HandlePacket \/ ReceivePart \/ HandleConnackSets
  BY <1>1 DEF HandleConnack, HandlePingresp, HandlePacket, ReceivePart, HandleConnackSets, Receive
<1>2. CASE HandleConnackRefused \/ ConnLost
  BY <1>2 DEF HandleConnackRefused, ConnLost, CloseOnError, Close, ReturnHandled
<1>3. CASE LoopWrite \/ LoopWritePart
  BY <1>3 DEF LoopWrite, LoopWritePart
<1>4. CASE LoopWriteDisconnect
  BY <1>4 DEF LoopWriteDisconnect, Close, ReturnHandled
<1>5. CASE SelectTimeout \/ LoopNoConn \/ NothingDue \/ SendPingreq
  BY <1>5 DEF SelectTimeout, LoopNoConn, NothingDue, SendPingreq
<1>6. CASE TimeOut
  BY <1>6 DEF TimeOut, Close
<1>7. CASE Check
  BY <1>7, BackoffFacts DEF Check
<1>8. CASE Wake \/ ReconnectBegin \/ Connected \/ ConnectFails
  BY <1>8 DEF Wake, ReconnectBegin, Connected, ConnectFails
<1>9. CASE Request \/ Disconnect \/ DisconnectSends \/ PeerDies \/ Writable
  BY <1>9 DEF Request, Disconnect, DisconnectSends, PeerDies, Writable
<1>10. CASE Tick
  BY <1>10 DEF Tick, Older
<1>11. CASE Ended
  BY <1>11 DEF Ended, vars
<1> QED
  BY <1>1, <1>2, <1>3, <1>4, <1>5, <1>6, <1>7, <1>8, <1>9, <1>10, <1>11 DEF Next

-----------------------------------------------------------------------------
LEMMA InitTimers ==
  ASSUME Init
  PROVE  TimersInv
<1> USE TimersAssumption, LeftMaxFacts
<1>1. out_packet \in Seq(Packets) /\ blocked \in BOOLEAN
  <2>1. out_packet = <<>> \/ out_packet = <<"CONNECT">>
    BY DEF Init
  <2>2. <<"CONNECT">> \in Seq(Packets) /\ <<>> \in Seq(Packets)
    BY DEF Packets
  <2> QED
    BY <2>1, <2>2 DEF Init
<1>2. out_packet = <<>> \/ Waits("CONNECT")
  BY DEF Init, Waits
<1>3. TypeOK
  BY <1>1 DEF Init, TypeOK, NoPing, NotStopping, SilentMax, HeardMax, AgeCap, LeftMax
<1>4. SocketKnown /\ Handshake /\ Pinging /\ Silence /\ Stopping
  <2>1. SocketKnown /\ Stopping
    BY DEF Init, SocketKnown, Stopping, NoPing, NotStopping
  <2>2. took \in Nat /\ KeepAlive \in Nat /\ KeepAlive > 0
    BY DEF Init
  <2>3. Handshake /\ Pinging
    BY <2>2 DEF Init, Handshake, Pinging, NoPing, SilentMax
  <2>4. Silence
    <3>1. out_packet = <<>> => last_msg_out = 0 /\ left = KeepAlive /\ silent = 0
      BY DEF Init
    <3> QED
      BY <1>2, <2>2, <3>1 DEF Init, Silence, SilentMax
  <2> QED
    BY <2>1, <2>3, <2>4
<1> QED
  BY <1>3, <1>4 DEF TimersInv

LEMMA NextTimers ==
  ASSUME TimersInv, [Next]_vars
  PROVE  TimersInv'
<1>1. CASE Next
  BY <1>1, TypeStep, ConnectionStep, StoppingStep DEF TimersInv
<1>2. CASE UNCHANGED vars
  BY <1>2 DEF vars, options, timers, out, peer, TimersInv, TypeOK, SocketKnown, Handshake,
              Pinging, Silence, Stopping, Waits
<1> QED
  BY <1>1, <1>2

LEMMA TimersInvariant == Spec => []TimersInv
<1>1. Init => TimersInv
  BY InitTimers
<1>2. TimersInv /\ [Next]_vars => TimersInv'
  BY NextTimers
<1> QED
  BY <1>1, <1>2, PTL DEF Spec

\* Every variable keeps its type, whatever the keepalive interval, the delays and
\* the durations of connect().
THEOREM TypeCorrect == Spec => []TypeOK
<1>1. TimersInv => TypeOK
  BY DEF TimersInv
<1> QED
  BY <1>1, TimersInvariant, PTL

\* mosquitto_loop_misc queues PINGREQ so early that a connected client is silent
\* for two keepalive intervals only if the network does not take what it writes.
THEOREM SilenceCorrect == Spec => []SilenceBounded
<1>1. TimersInv => SilenceBounded
  <2>1. ASSUME TimersInv, sock, out_packet = <<>>
        PROVE  silent <= SilentMax
    <3>1. ~ Waits("CONNECT")
      BY <2>1 DEF Waits
    <3> QED
      BY <2>1, <3>1, TimersAssumption, LeftMaxFacts
         DEF TimersInv, TypeOK, Silence, SilentMax, HeardMax, AgeCap, LeftMax
  <2> QED
    BY <2>1 DEF SilenceBounded
<1> QED
  BY <1>1, TimersInvariant, PTL

\* _mosquitto_check_keepalive and the test of ping_t close a connection on which no
\* packet is received in less than four keepalive intervals.
THEOREM DeadPeerCorrect == Spec => []DeadPeerClosed
<1>1. TimersInv => DeadPeerClosed
  <2>1. ASSUME TimersInv, sock
        PROVE  heard <= HeardMax
    BY <2>1, TimersAssumption, LeftMaxFacts
       DEF TimersInv, TypeOK, Pinging, SilentMax, HeardMax, AgeCap, NoPing, LeftMax
  <2> QED
    BY <2>1 DEF DeadPeerClosed
<1> QED
  BY <1>1, TimersInvariant, PTL

\* mosquitto_loop_forever, without a connection and with disconnect() called while
\* it was not making one, ends within reconnect_delay_max seconds.
THEOREM StopCorrect == Spec => []StopBounded
<1>1. TimersInv => StopBounded
  <2>1. ASSUME TimersInv, thread # "ended"
        PROVE  stopping <= DelayMax
    BY <2>1, TimersAssumption, LeftMaxFacts
       DEF TimersInv, TypeOK, Stopping, NotStopping, LeftMax
  <2> QED
    BY <2>1 DEF StopBounded
<1> QED
  BY <1>1, TimersInvariant, PTL

-----------------------------------------------------------------------------
(* A socket is closed by reading, by writing DISCONNECT and by the timers. *)
LEMMA Closing ==
  ASSUME TimersInv, Next, sock, ~ sock'
  PROVE  CloseOnError \/ LoopWriteDisconnect \/ TimeOut
<1> USE DEF ThreadGoes, SocketKnown, TimersInv
<1>1. CASE HandleConnack \/ HandleConnackSets \/ HandlePingresp \/ HandlePacket \/ ReceivePart
  BY <1>1 DEF HandleConnack, HandleConnackSets, HandlePingresp, HandlePacket, ReceivePart, Receive
<1>2. CASE HandleConnackRefused \/ ConnLost
  BY <1>2 DEF HandleConnackRefused, ConnLost
<1>3. CASE LoopWrite \/ LoopWritePart
  BY <1>3 DEF LoopWrite, LoopWritePart
<1>4. CASE SelectTimeout \/ LoopNoConn \/ NothingDue \/ SendPingreq
  BY <1>4 DEF SelectTimeout, LoopNoConn, NothingDue, SendPingreq
<1>5. CASE Check \/ Wake \/ ReconnectBegin \/ Connected \/ ConnectFails
  BY <1>5 DEF Check, Wake, ReconnectBegin, Connected, ConnectFails
<1>6. CASE Request \/ Disconnect \/ DisconnectSends \/ PeerDies \/ Writable \/ Tick
  BY <1>6 DEF Request, Disconnect, DisconnectSends, PeerDies, Writable, Tick
<1>7. CASE Ended
  BY <1>7 DEF Ended, vars
<1> QED
  BY <1>1, <1>2, <1>3, <1>4, <1>5, <1>6, <1>7 DEF Next

(* When the timers close a connection, an answer has been missing for as   *)
(* long.                                                                   *)
LEMMA WhenTimersClose ==
  ASSUME TimersInv, TimeOut
  PROVE  /\ sock /\ reports = 0 /\ thread = "misc"
         /\ Expired => awaited = "PINGRESP" /\ waiting >= KeepAlive
         /\ state # "disconnecting" /\ ~ Expired =>
              awaited = "CONNACK" /\ waiting + took >= KeepAlive
<1> USE TimersAssumption
<1> USE DEF TimersInv, TypeOK, NoPing, SilentMax, AgeCap, HeardMax
<1>1. sock /\ reports = 0 /\ thread = "misc"
  BY DEF TimeOut, ThreadGoes, SocketKnown
<1>2. Expired => awaited = "PINGRESP" /\ waiting >= KeepAlive
  BY <1>1 DEF Expired, Pinging
<1>3. ASSUME state # "disconnecting", ~ Expired
      PROVE  awaited = "CONNACK" /\ waiting + took >= KeepAlive
  <2>1. Stale /\ ~ MayPing
    BY <1>3 DEF TimeOut
  <2>2. ping_t = NoPing
    BY <1>1, <1>3, <2>1 DEF Stale, Expired, Pinging
  <2>3. state = "new"
    BY <1>3, <2>1, <2>2 DEF MayPing
  <2> QED
    BY <1>1, <2>1, <2>3 DEF Handshake, Stale
<1> QED
  BY <1>1, <1>2, <1>3

\* _mosquitto_check_keepalive and the test of ping_t close only a connection on which
\* CONNACK or PINGRESP is missing a keepalive interval after its question was queued.
THEOREM TimersWaitCorrect == Spec => TimersWaitForAnswer
<1>1. ASSUME TimersInv, [Next]_vars
      PROVE  [(thread = "misc" /\ sock /\ ~ sock' /\ state # "disconnecting") =>
                awaited # "none" /\ waiting + took >= KeepAlive]_vars
  <2>1. SUFFICES ASSUME Next, thread = "misc", sock, ~ sock', state # "disconnecting"
                 PROVE  awaited # "none" /\ waiting + took >= KeepAlive
    BY <1>1
  <2>2. TimeOut
    BY <1>1, <2>1, Closing DEF CloseOnError, LoopWriteDisconnect, ReturnHandled, ThreadGoes
  <2>3. waiting \in Nat /\ took \in Nat /\ KeepAlive \in Nat
    BY <1>1, TimersAssumption DEF TimersInv, TypeOK
  <2> QED
    BY <1>1, <2>1, <2>2, <2>3, WhenTimersClose
<1> QED
  BY <1>1, TimersInvariant, PTL DEF Spec, TimersWaitForAnswer

\* on_disconnect is called once for every connection that ends; a second time only
\* when _mosquitto_check_keepalive and the test of ping_t both give it up, or when
\* mosquitto_loop_write goes on after DISCONNECT.
THEOREM LossReportedCorrect == Spec => LossReported
<1> DEFINE Twice == \/ thread = "misc" /\ awaited = "PINGRESP" /\ waiting >= KeepAlive
                    \/ thread = "loop" /\ Head(out_packet) = "DISCONNECT"
<1>1. ASSUME TimersInv, [Next]_vars
      PROVE  [(sock /\ ~ sock') => reports' = 1 \/ (reports' = 2 /\ Twice)]_vars
  <2>1. SUFFICES ASSUME Next, sock, ~ sock'
                 PROVE  reports' = 1 \/ (reports' = 2 /\ Twice)
    BY <1>1
  <2>2. ASSUME NEW n \in 1 .. 2, Close(n)
        PROVE  reports' = n
    BY <1>1, <2>1, <2>2, CloseType
  <2>3. CASE CloseOnError
    BY <2>2, <2>3 DEF CloseOnError
  <2>4. CASE LoopWriteDisconnect
    <3>1. Close(1) \/ Close(2)
      BY <2>4 DEF LoopWriteDisconnect
    <3>2. Twice
      BY <2>4 DEF LoopWriteDisconnect, ReturnHandled, ThreadGoes
    <3> QED
      BY <2>2, <3>1, <3>2
  <2>5. CASE TimeOut
    <3>1. Close((IF Stale /\ ~ MayPing THEN 1 ELSE 0) + (IF Expired THEN 1 ELSE 0))
      BY <2>5 DEF TimeOut
    <3>2. Close(1) \/ (Close(2) /\ Expired)
      BY <2>5, <3>1 DEF TimeOut
    <3>3. Expired => Twice
      BY <1>1, <2>5, WhenTimersClose
    <3> QED
      BY <2>2, <3>2, <3>3
  <2> QED
    BY <1>1, <2>1, <2>3, <2>4, <2>5, Closing
<1> QED
  BY <1>1, TimersInvariant, PTL DEF Spec, LossReported
=============================================================================
