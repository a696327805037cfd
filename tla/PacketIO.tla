------------------------------- MODULE PacketIO -------------------------------
(***************************************************************************)
(* Packets and bytes: the queue of outgoing packets, which is written in   *)
(* pieces, the byte-wise reader of incoming ones, the remaining length at  *)
(* their beginning, and the socket pair that wakes the network thread.     *)
(*                                                                         *)
(* A packet is a command and a payload.  A byte is a number below 2 * Base *)
(* whose top bit, in a remaining length, says that more follow; the code   *)
(* has Base = 128 and MaxDigits = 4.                                       *)
(***************************************************************************)
EXTENDS Integers, SequencesExt

CONSTANTS
  Base,         \* digits of a remaining length
  MaxDigits,    \* how many of them there may be
  Connect,      \* the packet CONNECT
  Disconnect,   \* the packet DISCONNECT
  Reply,        \* an acknowledgement sent by a handler
  Answered,     \* the commands whose handlers send one
  Requests,     \* packets the operation queue sends
  Incoming,     \* packets the broker sends
  PairCap,      \* bytes the socket pair can hold
  MaxRequests,  \* bound: requests
  MaxIncoming,  \* bound: packets of the broker on a connection
  MaxLoss       \* bound: lost connections

Byte == 0 .. 2 * Base - 1
Packet == [command : Byte \ {0}, payload : Seq(Byte)]

ASSUME PacketIOAssumption ==
  /\ Base \in Nat \ {0, 1}
  /\ MaxDigits \in Nat \ {0}
  /\ {Connect, Disconnect, Reply} \cup Requests \cup Incoming \subseteq Packet
  /\ Answered \subseteq Byte
  /\ PairCap \in Nat \ {0}
  /\ {MaxRequests, MaxIncoming, MaxLoss} \subseteq Nat

-----------------------------------------------------------------------------
(* The remaining length.                                                   *)

\* _mosquitto_packet_alloc: least significant digit first
Digits[n \in Nat] ==
  IF n < Base THEN <<n>> ELSE <<Base + (n % Base)>> \o Digits[n \div Base]

\* Otherwise _mosquitto_packet_alloc returns MOSQ_ERR_PAYLOAD_SIZE.
Fits(p) == Len(Digits[Len(p.payload)]) <= MaxDigits

\* CONNECT and the acknowledgements do.
ASSUME FitsAssumption == Fits(Connect) /\ Fits(Reply)

Encode(p) == <<p.command>> \o Digits[Len(p.payload)] \o p.payload

EncodeAll(packets) == FlattenSeq([i \in DOMAIN packets |-> Encode(packets[i])])

-----------------------------------------------------------------------------
VARIABLES
  sock,                \* is there a socket?
  disconnecting,       \* mosq->state = mosq_cs_disconnecting
  out_packet,          \* packets waiting to be written
  current_out_packet,  \* the one being written, if any
  pos,                 \* how many of its bytes are
  sockpair,            \* bytes in the socket pair
  worker,              \* the operation queue: what it is sending, and how far
  thread,              \* where the network thread stands
  writefds,            \* is the socket in writefds?
  readfds,             \* has select() found a byte in the socket pair?
  in_packet,           \* the packet being read
  down,                \* bytes of the broker that are not read yet
  requests,
  losses,
  (* History, of the current connection *)
  queued,              \* packets queued since the last purge
  written,             \* how many of them are written
  up,                  \* bytes written
  delivered,           \* packets the broker has sent
  handled              \* packets passed to _mosquitto_packet_handle

fds == <<writefds, readfds>>
outgoing == <<out_packet, current_out_packet, pos, queued, written, up>>
incoming == <<in_packet, down, delivered, handled>>
vars == <<sock, disconnecting, outgoing, sockpair, worker, thread, fds,
          incoming, requests, losses>>

\* _mosquitto_packet_cleanup
NoPacket ==
  [command |-> 0, remaining_count |-> 0, remaining_mult |-> 1, remaining_length |-> 0,
   to_process |-> 0, payload |-> <<>>]

Idle == [step |-> "idle", packet |-> Connect]

\* The largest remaining length a packet may have
Power[n \in Nat] == IF n = 0 THEN 1 ELSE Base * Power[n - 1]

LengthMax == Power[MaxDigits] - 1

TypeOK ==
  /\ sock \in BOOLEAN
  /\ disconnecting \in BOOLEAN
  /\ out_packet \in Seq(Packet)
  /\ current_out_packet \in Seq(Packet) /\ Len(current_out_packet) <= 1
  /\ pos \in Nat
  /\ sockpair \in 0 .. PairCap
  /\ worker.step \in {"idle", "checked", "queued"} /\ worker.packet \in Packet
  /\ thread \in {"loop", "select", "read", "pair", "write", "writing", "closed",
                "purged", "opened", "ended"}
  /\ writefds \in BOOLEAN
  /\ readfds \in BOOLEAN
  /\ in_packet.command \in Byte
  /\ in_packet.remaining_count \in - MaxDigits - 1 .. MaxDigits
  /\ {in_packet.remaining_length, in_packet.to_process} \subseteq 0 .. LengthMax
  /\ down \in Seq(Byte)
  /\ requests \in 0 .. MaxRequests
  /\ losses \in 0 .. MaxLoss

Init ==
  /\ sock = TRUE
  /\ disconnecting = FALSE
  /\ out_packet = <<>>
  /\ current_out_packet = <<>>
  /\ pos = 0
  /\ sockpair = 0
  /\ worker = Idle
  /\ thread = "opened"
  /\ writefds = FALSE
  /\ readfds = FALSE
  /\ in_packet = NoPacket
  /\ down = <<>>
  /\ requests = 0
  /\ losses = 0
  /\ queued = <<>>
  /\ written = 0
  /\ up = <<>>
  /\ delivered = <<>>
  /\ handled = <<>>

-----------------------------------------------------------------------------
(* _mosquitto_packet_queue, in its two steps.                              *)

Enqueue(packets) ==
  /\ out_packet' = out_packet \o packets
  /\ queued' = queued \o packets
  /\ UNCHANGED <<current_out_packet, pos, written, up>>

\* Write a byte to the socket pair; it is lost if the pair is full.
Wake == sockpair' = IF sockpair < PairCap THEN sockpair + 1 ELSE sockpair

\* The operation queue: the socket is tested first, without a lock.  Nothing
\* follows DISCONNECT, as mosquitto_loop_stop waits for the thread.
WorkerChecks ==
  /\ worker.step = "idle"
  /\ sock /\ ~ disconnecting
  /\ requests < MaxRequests
  /\ requests' = requests + 1
  /\ \E p \in Requests \cup {Disconnect} :
       /\ Fits(p)
       /\ worker' = [step |-> "checked", packet |-> p]
       /\ disconnecting' = (p = Disconnect)
  /\ UNCHANGED <<sock, outgoing, sockpair, thread, fds, incoming, losses>>

\* Mutant: the byte first, then the packet
WorkerWakesFirst ==
  /\ \/ /\ worker.step = "checked"
        /\ worker' = [worker EXCEPT !.step = "queued"]
        /\ Wake
        /\ UNCHANGED outgoing
     \/ /\ worker.step = "queued"
        /\ worker' = Idle
        /\ Enqueue(<<worker.packet>>)
        /\ UNCHANGED sockpair
  /\ UNCHANGED <<sock, disconnecting, thread, fds, incoming, requests, losses>>

WorkerQueues ==
  /\ \/ /\ worker.step = "checked"
        /\ worker' = [worker EXCEPT !.step = "queued"]
        /\ Enqueue(<<worker.packet>>)
        /\ UNCHANGED sockpair
     \/ /\ worker.step = "queued"
        /\ worker' = Idle
        /\ Wake
        /\ UNCHANGED outgoing
  /\ UNCHANGED <<sock, disconnecting, thread, fds, incoming, requests, losses>>

-----------------------------------------------------------------------------
(* mosquitto_loop of the network thread.                                   *)

ThreadGoes(from, to) ==
  /\ thread = from
  /\ thread' = to
  /\ UNCHANGED <<worker, requests, disconnecting>>

\* The file descriptors for select(), or MOSQ_ERR_NO_CONN
LoopBegins ==
  /\ ThreadGoes("loop", IF sock THEN "select" ELSE IF disconnecting THEN "ended" ELSE "closed")
  /\ writefds' = (out_packet # <<>> \/ current_out_packet # <<>>)
  /\ readfds' = FALSE
  /\ UNCHANGED <<sock, outgoing, sockpair, incoming, losses>>

\* select() finds bytes of the broker; the byte of the socket pair, if there is
\* one, has to wait.
SelectReads ==
  /\ down # <<>>
  /\ ThreadGoes("select", "read")
  /\ readfds' = (sockpair > 0)
  /\ UNCHANGED <<sock, outgoing, sockpair, writefds, incoming, losses>>

\* It finds the socket writable, or a byte in the socket pair.  A socket that is
\* not writable is modelled by a write() that fails with EAGAIN.
SelectWrites ==
  /\ writefds \/ sockpair > 0
  /\ ThreadGoes("select", "pair")
  /\ readfds' = (sockpair > 0)
  /\ UNCHANGED <<sock, outgoing, sockpair, writefds, incoming, losses>>

\* After reading packets, the byte that select() has seen in the socket pair is
\* read and taken for permission to write.
PairRead ==
  /\ ThreadGoes("pair", "write")
  /\ sockpair' = IF readfds THEN sockpair - 1 ELSE sockpair
  /\ writefds' = (writefds \/ readfds)
  /\ UNCHANGED <<sock, outgoing, readfds, incoming, losses>>

\* Nothing is ready within the time-out.
SelectTimeout ==
  /\ ThreadGoes("select", "loop")
  /\ ~ writefds /\ sockpair = 0
  /\ UNCHANGED <<sock, outgoing, sockpair, fds, incoming, losses>>

-----------------------------------------------------------------------------
(* _mosquitto_packet_read.                                                 *)

Reading ==
  /\ thread = "read"
  /\ down # <<>>
  /\ UNCHANGED <<sock, disconnecting, worker, fds, delivered, requests, losses>>

\* The packet is complete: it is handled and, if its handler says so, answered;
\* reading goes on or ends as max_packets says.
PacketHandle(command, payload) ==
  /\ handled' = Append(handled, [command |-> command, payload |-> payload])
  /\ in_packet' = NoPacket
  /\ IF command \in Answered
     THEN Enqueue(<<Reply>>) /\ Wake
     ELSE UNCHANGED <<outgoing, sockpair>>
  /\ thread' \in {"read", "pair"}

\* The rest has not been read; what there is stays in in_packet.
KeepReading(packet) ==
  /\ in_packet' = packet
  /\ UNCHANGED <<thread, outgoing, sockpair, handled>>

ReadCommand ==
  /\ Reading
  /\ in_packet.command = 0
  /\ down' = Tail(down)
  /\ KeepReading([in_packet EXCEPT !.command = Head(down)])

\* Mutant: remaining_mult is not advanced.
WithDigitFlat(byte) ==
  [in_packet EXCEPT !.remaining_count = @ - 1,
                    !.remaining_length = @ + (byte % Base) * in_packet.remaining_mult]

WithDigit(byte) ==
  [in_packet EXCEPT !.remaining_count = @ - 1,
                    !.remaining_length = @ + (byte % Base) * in_packet.remaining_mult,
                    !.remaining_mult = @ * Base]

ReadingLength ==
  /\ Reading
  /\ in_packet.command # 0
  /\ in_packet.remaining_count <= 0

\* Mutant: one digit too many is accepted.
TooLongByTwo == in_packet.remaining_count - 1 < - MaxDigits - 1

TooLong == in_packet.remaining_count - 1 < - MaxDigits

ReadLengthGoesOn ==
  /\ ReadingLength
  /\ ~ TooLong
  /\ Head(down) >= Base
  /\ down' = Tail(down)
  /\ KeepReading(WithDigit(Head(down)))

\* Mutant: a packet without payload waits for one.
ReadLengthEndsWaits ==
  LET packet == WithDigit(Head(down))
  IN /\ ReadingLength
     /\ ~ TooLong
     /\ Head(down) < Base
     /\ down' = Tail(down)
     /\ KeepReading([packet EXCEPT !.remaining_count = - @,
                                   !.to_process = packet.remaining_length])

ReadLengthEnds ==
  LET packet == WithDigit(Head(down))
  IN /\ ReadingLength
     /\ ~ TooLong
     /\ Head(down) < Base
     /\ down' = Tail(down)
     /\ IF packet.remaining_length = 0
        THEN PacketHandle(packet.command, <<>>)
        ELSE KeepReading([packet EXCEPT !.remaining_count = - @,
                                        !.to_process = packet.remaining_length])

\* MOSQ_ERR_PROTOCOL: the socket is closed and mosquitto_loop_forever ends,
\* unless the client is disconnecting.
ReadLengthFails ==
  /\ thread = "read" /\ down # <<>>
  /\ in_packet.command # 0 /\ in_packet.remaining_count <= 0
  /\ TooLong
  /\ in_packet' = [in_packet EXCEPT !.remaining_count = @ - 1]
  /\ down' = Tail(down)
  /\ sock' = FALSE
  /\ ThreadGoes("read", IF disconnecting THEN "loop" ELSE "ended")
  /\ UNCHANGED <<outgoing, sockpair, fds, delivered, handled, losses>>

\* read() returns n bytes of what is left of the payload.
ReadPayload ==
  /\ Reading
  /\ in_packet.remaining_count > 0
  /\ \E n \in 1 .. Min({in_packet.to_process, Len(down)}) :
       LET payload == in_packet.payload \o SubSeq(down, 1, n)
       IN /\ down' = SubSeq(down, n + 1, Len(down))
          /\ IF n = in_packet.to_process
             THEN PacketHandle(in_packet.command, payload)
             ELSE KeepReading([in_packet EXCEPT !.payload = payload, !.to_process = @ - n])

\* EAGAIN: the next byte has not arrived.
ReadAgain ==
  /\ ThreadGoes("read", "pair")
  /\ UNCHANGED <<sock, outgoing, sockpair, fds, incoming, losses>>

-----------------------------------------------------------------------------
(* _mosquitto_packet_write.                                                *)

Rest(packets) == IF packets = <<>> THEN <<>> ELSE Tail(packets)
First(packets) == IF packets = <<>> THEN <<>> ELSE <<Head(packets)>>

WriteSkipped ==
  /\ ThreadGoes("write", "loop")
  /\ ~ writefds
  /\ UNCHANGED <<sock, outgoing, sockpair, fds, incoming, losses>>

WriteBegins ==
  /\ ThreadGoes("write", "writing")
  /\ writefds
  /\ IF current_out_packet = <<>>
     THEN /\ current_out_packet' = First(out_packet)
          /\ out_packet' = Rest(out_packet)
          /\ pos' = 0
     ELSE UNCHANGED <<current_out_packet, out_packet, pos>>
  /\ UNCHANGED <<sock, queued, written, up, sockpair, fds, incoming, losses>>

\* write() takes n bytes, the last ones of the packet or not; the packet DISCONNECT
\* closes the socket.
WriteSome ==
  LET packet == Head(current_out_packet)
      bytes == Encode(packet)
  IN /\ thread = "writing"
     /\ current_out_packet # <<>>
     /\ \E n \in 1 .. Len(bytes) - pos :
          /\ up' = up \o SubSeq(bytes, pos + 1, pos + n)
          /\ IF pos + n < Len(bytes)
             THEN /\ pos' = pos + n
                  /\ UNCHANGED <<sock, current_out_packet, out_packet, written, thread>>
             ELSE /\ written' = written + 1
                  /\ current_out_packet' = First(out_packet)
                  /\ out_packet' = Rest(out_packet)
                  /\ pos' = 0
                  /\ sock' = (packet # Disconnect)
                  /\ thread' = IF packet = Disconnect THEN "loop" ELSE thread
     /\ UNCHANGED <<disconnecting, queued, sockpair, worker, fds, incoming,
                    requests, losses>>

\* EAGAIN in the middle of a packet, or everything is written
WriteEnds ==
  /\ ThreadGoes("writing", "loop")
  /\ UNCHANGED <<sock, outgoing, sockpair, fds, incoming, losses>>

-----------------------------------------------------------------------------
(* A lost connection and _mosquitto_reconnect.                             *)

ConnLost ==
  /\ losses < MaxLoss
  /\ losses' = losses + 1
  /\ \E from \in {"select", "read", "writing"} :
       ThreadGoes(from, IF disconnecting THEN "loop" ELSE "closed")
  /\ sock' = FALSE
  /\ UNCHANGED <<outgoing, sockpair, fds, incoming>>

\* Mutant: the packet that is being written is kept.
PurgeQueueOnly ==
  /\ ThreadGoes("closed", "purged")
  /\ in_packet' = NoPacket
  /\ out_packet' = <<>>
  /\ queued' = current_out_packet
  /\ written' = 0
  /\ up' = <<>>
  /\ UNCHANGED <<current_out_packet, pos, sock, sockpair, fds, down,
                 delivered, handled, losses>>

\* Both packets under way and the queue are dropped.
Purge ==
  /\ ThreadGoes("closed", "purged")
  /\ in_packet' = NoPacket
  /\ out_packet' = <<>>
  /\ current_out_packet' = <<>>
  /\ pos' = 0
  /\ queued' = <<>>
  /\ written' = 0
  /\ up' = <<>>
  /\ UNCHANGED <<sock, sockpair, fds, down, delivered, handled, losses>>

SocketConnect ==
  /\ ThreadGoes("purged", "opened")
  /\ sock' = TRUE
  /\ down' = <<>>
  /\ delivered' = <<>>
  /\ handled' = <<>>
  /\ UNCHANGED <<in_packet, outgoing, sockpair, fds, losses>>

SendConnect ==
  /\ ThreadGoes("opened", "loop")
  /\ Enqueue(<<Connect>>)
  /\ Wake
  /\ UNCHANGED <<sock, fds, incoming, losses>>

-----------------------------------------------------------------------------
(* The broker and the network.                                             *)

\* The broker sends nothing before it has the packet CONNECT.
BrokerSends ==
  /\ sock /\ written > 0
  /\ Len(delivered) < MaxIncoming
  /\ \E p \in Incoming :
       /\ down' = down \o Encode(p)
       /\ delivered' = Append(delivered, p)
  /\ UNCHANGED <<sock, disconnecting, outgoing, sockpair, worker, thread, fds,
                 in_packet, handled, requests, losses>>

Ended == thread = "ended" /\ worker = Idle /\ UNCHANGED vars

-----------------------------------------------------------------------------
ReadSome ==
  \/ ReadCommand \/ ReadLengthGoesOn \/ ReadLengthEnds \/ ReadLengthFails
  \/ ReadPayload

Loop ==
  \/ LoopBegins \/ SelectWrites \/ ReadAgain \/ PairRead
  \/ WriteSkipped \/ WriteBegins \/ WriteEnds
  \/ Purge \/ SocketConnect \/ SendConnect

Next ==
  \/ WorkerChecks \/ WorkerQueues
  \/ Loop \/ SelectReads \/ SelectTimeout \/ ReadSome \/ WriteSome \/ ConnLost
  \/ BrokerSends
  \/ Ended

Spec == Init /\ [][Next]_vars

(* Both threads keep running; bytes of the broker arrive, and the broker   *)
(* reads, so that the socket is readable and writable again and again.     *)
(* Time-outs of select() are not assumed.                                  *)
Fairness ==
  /\ WF_vars(Loop)
  /\ WF_vars(WorkerQueues)
  /\ SF_vars(SelectReads) /\ SF_vars(ReadSome)
  /\ SF_vars(WriteSome)

FairSpec == Spec /\ Fairness

-----------------------------------------------------------------------------
(* Properties.                                                             *)

\* The bytes on a connection are those of the packets queued for it, one after
\* the other, in order and none of them cut off or left over from an earlier
\* connection; a packet counts as written, and on_publish is called for QoS 0,
\* only when all its bytes are.
StreamFramed ==
  /\ IsPrefix(up, EncodeAll(queued))
  /\ IsPrefix(EncodeAll(SubSeq(queued, 1, written)), up)
  /\ \A i \in DOMAIN queued : Len(queued[i].payload) <= LengthMax

\* However the bytes of the broker are split, the handlers see the packets it has
\* sent, whole and in order: the reader implements a channel of packets.
Channel == INSTANCE PacketChannel WITH
  Packet <- Incoming,
  travelling <- SubSeq(delivered, Len(handled) + 1, Len(delivered)),
  received <- handled

ImplementsChannel == Channel!Spec

\* A queued packet is written in the end if the connection holds: no wake-up is
\* lost between the test of out_packet and select(), even without time-outs.
EventuallyWritten ==
  (sock /\ out_packet # <<>>) ~> (~ sock \/ (out_packet = <<>> /\ current_out_packet = <<>>))

\* Every packet of the broker is handled if the connection holds.
EventuallyHandled == (sock /\ handled # delivered) ~> (~ sock \/ handled = delivered)
=============================================================================
