# Moscapsule: a TLA+ verification project

Moscapsule is an MQTT client for iOS: a Swift class, `MQTTClient`, over a vendored copy of
libmosquitto. This directory models the parts in which threads, lost connections and repeated packets
meet, checks them with TLC on small instances, and proves their safety properties, and that publishing
implements its abstract service, with TLAPS for every value of the constants.

The build sets `WITH_THREADING`, `WITH_TLS` and `WITH_TLS_PSK`; code under `WITH_BROKER`, `WITH_SOCKS`
or `WITH_SRV` is not compiled and not modelled. Paths below are relative to `src/`; `lib/` stands for
`mosquitto/lib/`.

## The system

Three threads act on one client:

* the **application** calls `MQTTClient`; a call changes `isRunning` and adds an operation to a queue;
* the **worker** of that serial `OperationQueue` runs one operation at a time and calls libmosquitto;
* the **network thread** of libmosquitto (`mosquitto_loop_forever`) reads, writes, retries, watches the
  keepalive and reconnects. It calls the callbacks, which set `isConnected`.

Worker and network thread share `struct mosquitto`: its state, socket, packet queue and message lists,
under several mutexes that are released in the middle of some operations.

| Component | State | Operations | Correct if |
|---|---|---|---|
| Outgoing messages (`lib/messages_mosq.c`, `mosquitto_publish`, `lib/read_handle_shared.c`) | `out_messages`, `inflight_messages`, `out_queue_len`, `last_mid` | publish, PUBACK/PUBREC/PUBCOMP, retry pass, reset on reconnect | the window is kept and never starves, QoS 2 is once, every accepted message is reported once and after delivery |
| Incoming messages (`lib/read_handle.c`, `handle_pubrel`) | `in_messages`, `in_queue_len` | PUBLISH, PUBREL, retry pass, reset | QoS 2 reaches `on_message` once, nothing is completed unseen |
| Client life cycle (`Moscapsule/Moscapsule.swift`) | `isRunning`, `serialQueue` | connectTo, reconnect, publish/subscribe/unsubscribe, disconnect, deinit | operations finish; nothing is freed under the network thread |
| Network thread (`lib/mosquitto.c`, `lib/thread_mosq.c`) | `state`, `sock`, `threaded`, its position | loop, CONNACK, errors, reconnect | it reconnects when it should and ends when it should |
| Packet queue (`lib/net_mosq.c`) | `out_packet`, `current_out_packet`, the socket pair | queue, wake, write in pieces, purge | the bytes on a connection are whole packets in order, and a queued packet is not forgotten |
| Keepalive (`lib/util_mosq.c`, `mosquitto_loop_misc`) | `last_msg_in`, `last_msg_out`, `ping_t` | ping, time out | the client pings in time, a dead connection is closed and reported, none is closed before an answer is missing |
| Back-off (`mosquitto_loop_forever`) | `reconnects` | delay of the next attempt | the delay is limited, and disconnect() does not wait for it longer than the limit |
| Packet reader and codec (`lib/net_mosq.c`) | `in_packet` | byte-wise read, remaining length | however bytes arrive, every packet is handled as it was sent |
| Message lists as pointers (`lib/messages_mosq.c`) | `next` and `last` pointers | append, remove, reset | the last pointer is the end of its own list |
| Topics (`lib/util_mosq.c`) | none | topic checks, `mosquitto_topic_matches_sub` | the matching rules of MQTT |
| Options, will, TLS settings | configuration | setters | values arrive as they were given |
| Callback bridge (`MosquittoCallbackBridge.m`) | `isConnected` | callbacks | it follows the connection |

The hard behaviours are the interleavings of worker and network thread, connections lost at any point of
an exchange, retries racing with late acknowledgements, and operations that must finish. `PROJECT.json`
lists them as hazards, each at its line.

## Modules

| Module | Models |
|---|---|
| `OutMessages` | outgoing messages |
| `PublishService` | the abstract publish service that `OutMessages` implements |
| `ListOrder` | rank and order of the positions of a list |
| `InMessages` | incoming messages |
| `Lifecycle` | application, operation queue and network thread |
| `NetworkTimers` | the network thread in seconds: keepalive, time-outs, back-off |
| `PacketIO` | packets as bytes: packet queue, socket pair, reader, remaining length |
| `PacketChannel` | the abstract channel of packets that the reader of `PacketIO` implements |
| `MessageLists` | the two linked lists with their first and last pointers |
| `OutMessagesProofs` | theorems about types and the window of `OutMessages` |
| `DeliveryProofs`, `DeliveryOrderProofs` | theorems about delivery, the refinement of `PublishService`, and order |
| `InMessagesProofs`, `LifecycleProofs`, `NetworkTimersProofs`, `PacketIOProofs` | theorems about the module each is named after |
| `ListOrderProofs` | lemmas about order, channels of packets and induction that the proof modules share |
| `MCOutMessages`, `MCInMessages`, `MCLifecycle`, `MCNetworkTimers`, `MCPacketIO` | the modules TLC runs, with `*_*.cfg` |

`Lifecycle`, `NetworkTimers` and `PacketIO` look at the same network thread from three sides, each with
what its hazards need and no more: the calls of the application and the state of the client; time; bytes.
What one of them promises the others use: `PacketIO` shows that packets leave and arrive as a FIFO, which
is what `toBroker` and `toClient` of `OutMessages` and `InMessages` and `out_packet` of `Lifecycle` are;
`NetworkTimers` shows when the keepalive expires, which `Lifecycle` lets happen whenever the code may.

Operators whose comment begins with "Mutant" are deliberate errors; each property is checked to fail when
one of them replaces the definition it perturbs.

### OutMessages

`out_messages` is a sequence of records (`id` stands for topic and payload; `due` says that the retry period
has passed since `timestamp`). `publish()` has two steps because `mosquitto_publish` releases
`out_message_mutex` before it sends: `PublishQueue` and `SendPublish`; `pending` is the pointer it holds in
between. When the network thread has freed the message meanwhile, `SendPublishFreed` either sends the old
content or crashes. `HandlePubackcomp`, `HandlePubrec` and their `Unknown` forms are the handlers with
the promotion of waiting messages; `RetryCheck` is the retry pass; `ConnLost`, `ReconnectReset`,
`SocketConnect` and `SocketConnectFails` are a lost connection and the two parts of `_mosquitto_reconnect`.
`toBroker` is the packet queue and the TCP stream together, and is emptied by a new connection. `held` is
the QoS 2 memory of the broker, which is external. Publishing is one request at a time, as the serial queue
makes it.

`accepted`, `delivered` and `reported` are history variables: what was published, what the broker took over
and what `on_publish` was called for. For QoS 0, whose `on_publish` only says that the packet was written,
nothing is reported.

The module assumes that no received QoS 2 message is waiting while the outgoing list is reset empty
(`lib/messages_mosq.c:210`); `MessageLists` shows what happens then.

### InMessages

`handle_publish`, `handle_pubrel`, the retry pass and the reset, all on the network thread. The external
broker resends what is not acknowledged after a reconnection (`clean_session` false) or forgets it (true),
reuses a message id only after its message is completed, and may or may not answer a PUBREC it does not
know.

### Lifecycle

`worker` and `thread` are the positions of the two threads, split where a mutex is released, a shared
variable is set or a callback is about to be called: `r1` to `r4` are `_mosquitto_reconnect` (state to
new; purge; socket; CONNECT), `d1`, `d2` and `join` are `mosquitto_disconnect` and `mosquitto_loop_stop`,
`connack` lies between the unlocked test and the assignment of `handle_connack`. Giving up a socket takes
three steps, with the other thread's steps between them: `SocketClose`, `ReadState` (the argument of
`on_disconnect`) and `OnDisconnect`; `error` says why, and where `mosquitto_loop_forever` goes on afterwards
(`Returns`). Two of the errors can bring `on_disconnect` twice, as the code can: the two tests of the
keepalive, and `mosquitto_loop_write` going on after DISCONNECT. Without a network thread
`_mosquitto_packet_queue` leads the worker through "write", where it writes the whole packet queue from its
head, whatever was left in it, until it is empty or the network takes no more, and through "report" if one of
the packets was a DISCONNECT; `resume` says where the operation goes on. `asked` is a history variable: was
disconnect() the last call executed that connects or disconnects? publish, subscribe and unsubscribe
are one `Request`, which queues one packet. `link` is the broker's side: it closes a connection that does
not begin with CONNECT or that carries two. Times are left out: the keepalive may expire whenever the code
would let it, `KeepaliveStuck` when no answer is coming, `KeepaliveTooSoon` (counted as a loss) when
one is. There is one application thread. `config` holds what is decided before connecting: automatic
reconnection, keepalive, whether fatal errors can occur.

### NetworkTimers

One action per branch of `mosquitto_loop`, `mosquitto_loop_misc`, `_mosquitto_check_keepalive` and
`mosquitto_loop_forever`, and `Tick`, a second in which the thread waits in `select()`, `sleep()` or
`connect()`; `left` says how long it still may. A time stamp is its age, so that states repeat.
A thread that has something to do does it within the second, unless the network does not let it:
`LoopWritePart` is a `write()` that takes a part of the queue and ends with EAGAIN, after which the rest is
`blocked` until the network has room again (`Writable`). `out_packet` is a sequence, because it matters what
waits behind what; neighbouring packets of no interest are one "OTHER". Reading and writing lead through
"misc", where the timers are tested, back to a `select()` with a full keepalive interval. The test of
the state and its overwriting are two steps in `handle_connack` (`HandleConnack`, `HandleConnackSets`) and in
the reconnection (`Wake`, `ReconnectBegin`), with `disconnect()`, itself in two steps, in between.

The broker is external: it answers CONNECT and PINGREQ once they are written, may die without a word
(`PeerDies`), or be dead from the beginning. `awaited` and `waiting` say which answer is missing and for how
long, counted from when the question was queued. The options of the back-off are chosen in `Init`. `stopping`
counts the seconds in which the thread has nothing to do but to end: after `disconnect()`, without a
connection and not while it is making one. A `disconnect()` between the last test of the state and the end of
`connect()` is not measured, as the thread forgets it or goes on to a connection first (`life_hang`), and
neither is the time a DISCONNECT waits behind packets the network does not take, for which only the
keepalive sets a limit (`DeadPeerClosed`). Closing the socket and reporting it is one step here, at
the end of which no time has passed; `Lifecycle` has the steps.

### PacketIO and PacketChannel

A byte is a number below `2 * Base`, a packet a command and a sequence of bytes; with `Base` 2 and
`MaxDigits` 2 lengths up to 3 are legal, as those up to 268,435,455 are with 128 and 4. The positions of
`thread` are those of `mosquitto_loop`: the file descriptors are set up ("loop"), `select()`, reading, the
byte of the socket pair, writing. The worker queues a packet in three steps: test of the socket, `out_packet`,
byte for the socket pair. `read()` and `write()` take any number of bytes or none (`ReadAgain`,
`WriteEnds`). `ConnLost`, `Purge`, `SocketConnect` and `SendConnect` are the reconnection by the network
thread. What a packet contains beyond its bytes is left out: which commands are answered is a
constant, and the first CONNECT is written like the later ones.

`queued`, `written`, `up`, `delivered` and `handled` are history variables of the current connection.
`PacketChannel` is a FIFO of whole packets that a lost connection empties; `ImplementsChannel` maps the
packets that are sent and not yet handled to its contents.

### MessageLists

`next`, the first and the last pointer of both lists, and what `_mosquitto_message_queue`,
`_mosquitto_message_remove` and `_mosquitto_messages_reconnect_reset` do to them. `Chain` walks a list.
The queue lengths, the window and the states of the messages are in `OutMessages` and `InMessages`.

## Runs

| Run | Result | What it shows |
|---|---|---|
| `out_window` | holds | window 2, three messages of QoS 1 and 2, two losses, persistent session: `InflightWindow`, `PubrecNeverFatal`, `ResentIsMarked`, `ExactlyOnce`, the refinement `ImplementsService`, and `EventuallyReported` |
| `out_late` | holds | window 1, four messages of any QoS, clean session, publish() preempted past the retry period: `InflightWindow`, `DeliveredInOrder` |
| `out_freed` | violated | `SendsLiveMessage`: publish() reads a freed message |
| `out_wrap` | violated | `ReportedAfterDelivery`: an id in use is given out again after the wrap |
| `life_calls` | holds | four calls and two losses, with reconnection, without, and with fatal errors and no keepalive: `ConnectedOrReporting`, `CleanupFindsNoThread`, `SuccessIsRequested`, `EventuallyConnected`, `DisconnectCompletesWithoutReconnect` |
| `life_hang` | violated | `DisconnectCompletes` with reconnection enabled: the disconnect is forgotten and `mosquitto_loop_stop` never returns |
| `life_ended` | violated | `ReconnectConnects`: after the thread has ended, reconnect() does not connect |
| `in_session` | holds | three messages of any QoS, two losses, both kinds of session: `CompletedWasReceived`, `ReceivedInOrder`, `ReceivedOnceIfSentOnce`, `EventuallyReceived` |
| `in_twice` | violated | `ReceivedOnce`: a QoS 2 message sent again is passed on twice |
| `timers` | holds | keepalive 3 s, delays of 0 and 2 s with and without back-off, limit 3 s, attempts of up to 3 s, writes blocked for any time: `SilenceBounded`, `DeadPeerClosed`, `StopBounded`, `TimersWaitForAnswer`, `LossReported` |
| `packets` | holds | packets of every legal length and one too long, a socket pair of one byte, a loss: `StreamFramed`, the refinement `ImplementsChannel`, `EventuallyWritten`, `EventuallyHandled` |
| `lists` | violated | `AcknowledgedIsPublished`: after a reset with only an incoming message waiting, a published message is linked into the wrong list |

Each violated property is something the repository says; `PROJECT.json` quotes the line under "findings".
Where one property holds under one configuration and fails under another, the pair is the result:
in these instances `disconnect()` always completes with automatic reconnection off and may hang with it on,
and QoS 2 is received once as long as the broker has no reason to repeat a PUBLISH.

Some of the properties that hold say what the code does where one may expect something else:

* `ConnectedOrReporting`: `isConnected` does not imply a socket. Between the close (`lib/net_mosq.c:228`) and
  `on_disconnect` the application reads true. The property says that this is the only time, and that it ends.
* `SuccessIsRequested` does not say that `on_disconnect(0)` comes during a disconnect(). After the thread has
  ended by itself, reconnect() leaves CONNECT in the packet queue and disconnect() a DISCONNECT behind it; a
  later request, without a thread, writes both, and reports the disconnection in the middle of a publish().
* `SilenceBounded` allows just under two keepalive intervals without a packet to the broker, not one: the
  timers are tested only when `select()` returns, and every packet received starts it anew with a full
  interval. `DeadPeerClosed` allows just under four for the same reason. Both bounds are reached. A client
  that has something to write which the network does not take may be silent for longer.
* `LossReported`: `on_disconnect` can be called twice for one connection. An unanswered ping is reported by
  `_mosquitto_check_keepalive` (`lib/util_mosq.c:128`) and again by `mosquitto_loop_misc`, which looks
  at `ping_t` and not at the socket (`lib/mosquitto.c:1097`). After DISCONNECT, with more than one
  unacknowledged message, the loop of `mosquitto_loop_write` (`lib/mosquitto.c:1194`) meets
  `MOSQ_ERR_NO_CONN`, which is reported too.
* `TimersWaitForAnswer` does not say that the timers leave a healthy connection alone. `last_msg_out` is set
  when a packet is complete (`lib/net_mosq.c:870`), so that during an upload longer than the
  interval a PINGREQ is queued behind it, and `ping_t` may expire before the broker has been asked. The time
  the attempt to connect took counts as well, since `last_msg_in` is older than the connection
  (`lib/mosquitto.c:503`).
* `StopBounded` is about a disconnect() that is not forgotten; `life_hang` is about the others.

One disagreement has no run: the delays of the back-off. No property states them, as it could only repeat
`lib/mosquitto.c:1051-1061`, which `Check` translates; but they are not those of the header.

| `reconnect_delay`, limit, back-off | `lib/mosquitto.h:1251-1257` | the code |
|---|---|---|
| 2, 10, no | 2, 4, 6, 8, 10, 10, ... | 2, 2, 2, 2, 2, 2, ... |
| 3, 30, yes | 3, 6, 12, 24, 30, 30, ... | 0, 3, 12, 27, 30, 30, ... |

### Bounds

* `MaxPublishes` / `MaxMessages` 3 or 4: more than the window, so that a message waits, is promoted and is
  overtaken by none. `MidSpace` is not smaller than that, except in `out_wrap`, where two ids stand for
  65535.
* `MaxLoss` 1 or 2: one loss in the middle of an exchange, and one more during recovery from it.
* `WireCap` 1: a retry period passes only when at most one packet is travelling. It keeps the channels
  finite, and still lets a retry cross the acknowledgement it is about.
* `CountUp` stops at 2: the properties distinguish none, one and more.
* `MaxCalls` 4: enough for connect, reconnect, disconnect and deinit to meet in any order.
* `ListCap`: a received message is queued at most once per connection.
* `KeepAlive` 3, `DelayMax` 3, `ConnectMax` 3: an interval longer than one second, delays on both sides of
  the limit, attempts as long as an interval. `AgeCap` lies above every bound the properties state, so
  that a violation shows; `RetryCap` attempts are told apart, enough to pass the limit. A write may stay
  blocked for as long as the timers let it; the queue behind it is bounded by the one ping and the one
  disconnect() there can be, as requests in a row are one.
* `Base` 2, `MaxDigits` 2: lengths of one and of two digits and one too long, with packets of up to six bytes.
  `PairCap` 1: a byte for the socket pair is lost whenever one is waiting. `MaxRequests` 1, `MaxIncoming` 2
  and `MaxLoss` 1: with CONNECT and the replies up to four packets are queued, on two connections.
* `Mids` 2, `MaxLoss` 1 in `MessageLists`: two messages in each list and one reset.

### Fairness

Weak fairness for steps of a thread that is running (the worker, the network thread, the second half of
publish()), for the broker's reading and answering, for the passing of the retry period and of a keepalive
interval, and for an attempt to connect that can succeed. In `PacketIO` strong fairness for `select()` finding
bytes, for `read()` and for `write()`: a connection that holds delivers in the end, and a broker that
reads makes the socket writable again and again, even if single calls fail with EAGAIN. Time-outs of
`select()` are not assumed there, so that `EventuallyWritten` rests on the socket pair alone. None for calls of the application, losses,
refusals, failed attempts or fatal errors. The liveness properties therefore speak of a network that
fails finitely often, which is all `mosquitto_loop_forever` can promise.

## Proofs

The theorems hold for every value of the constants: any window, any number of messages, calls, losses and
retries, any keepalive interval and delays, packets of any length, any base and number of digits of the
remaining length, any way in which `read()` and `write()` cut the bytes up. They rest on the typing assumptions of the modules
(`ConstantsAssumption`, `InMessagesAssumption`, ...) and on the following, which are hypotheses of the
theorems that need them:

* `NoWrap`: no more messages than message ids. Needed: see `out_wrap`, and below for
  incoming messages.
* `~ LateSend`: no retry pass runs between the two halves of a publish(). Needed: `out_freed`.
* `~ CleanSession`, where a theorem says that a reported message has been delivered: a broker that forgets
  the session can have acknowledged a message it then forgets.

`PacketIO` also assumes that CONNECT and the acknowledgements are not too long to be encoded
(`FitsAssumption`): `_mosquitto_packet_alloc` refuses a CONNECT that is, so such a client never gets a
connection, and an acknowledgement has two bytes. Packets of the application are checked by the model.

| Module | Theorem | Says |
|---|---|---|
| `OutMessagesProofs` | `TypeCorrect`, `WindowCorrect` | `TypeOK`, `InflightWindow` (`NoWrap`, with and without `LateSend`) |
| `DeliveryProofs` | `ExactlyOnceCorrect`, `PubrecNeverFatalCorrect`, `ResentIsMarkedCorrect`, `SendsLiveMessageCorrect` | the invariants of these names (`NoWrap`, `~ LateSend`) |
| | `ReportedAfterDeliveryCorrect`, `ServiceCorrect` | the invariant, and the refinement `ImplementsService` (also `~ CleanSession`) |
| `DeliveryOrderProofs` | `DeliveredInOrderCorrect` | `DeliveredInOrder` (`NoWrap`, `~ LateSend`) |
| `InMessagesProofs` | `TypeCorrect` | `TypeOK`, ids reused or not |
| | `CompletedWasReceivedCorrect`, `ReceivedOnceIfSentOnceCorrect`, `ReceivedInOrderCorrect` | the invariants of these names (`NoWrap`) |
| `LifecycleProofs` | `TypeCorrect`, `ConnectedCorrect`, `CleanupCorrect`, `ReportsCorrect` | `TypeOK`, `ConnectedOrReporting`, `CleanupFindsNoThread`, `SuccessIsRequested` |
| `NetworkTimersProofs` | `TypeCorrect`, `SilenceCorrect`, `DeadPeerCorrect`, `StopCorrect` | `TypeOK`, `SilenceBounded`, `DeadPeerClosed`, `StopBounded` |
| | `TimersWaitCorrect`, `LossReportedCorrect` | the action properties `TimersWaitForAnswer`, `LossReported` |
| `PacketIOProofs` | `TypeCorrect`, `StreamFramedCorrect` | `TypeOK`, `StreamFramed` |
| | `ImplementsChannelCorrect` | the refinement of `PacketChannel` |

None of these properties is inductive. What has to be added is the argument:

**The window** (`WindowInv`). When an acknowledgement removes a message the counter goes down by one whatever
state the message is in; removing a message that was still waiting would break the count. So no packet and no
pending publish() may name a waiting message: ids number the calls and the list is ordered by id
(`MidsOrdered`), and every id on the wire was given out and is not that of a waiting message (`WireKnown`).
After a removal the promoted messages are the ones that make the window a prefix of the list again, and the
packets sent for them are those messages.

**Delivery** (`DeliveryInv`). A QoS 2 message is delivered once because after its PUBREL no PUBLISH of it is
travelling any more: in `toBroker` a PUBLISH is never behind a PUBREL of its message (`BrokerOrder`), in
`toClient` no PUBREC is behind a PUBCOMP (`ClientOrder`), and the state of the message in the list follows both
(`Exchange`). Before its first PUBLISH nothing has happened to a message (`Untouched`), which is what makes the
DUP flag right (`Marking`). `SessionInv` adds, for a broker that keeps the session, that what is acknowledged
is kept; with it every step of `OutMessages` is a step of `PublishService` or changes nothing the
application sees. Message ids identify publish() calls throughout (`Names`), hence `NoWrap`.

**Order** (`Stages`, in both directions). An exchange is a chain of stages, each a kind of packet in one
channel: PUBLISH, PUBREC, PUBREL. In a stage each packet has before it a packet of every older message of
the same QoS that has not passed the stage yet, although retries put several packets of a message in the
channel. So messages leave the stage in order, and enter the next one in order. `ListOrderProofs` proves this
once for any stage: reading a packet (`StageRead`), writing some (`StageWrite`), a new message
(`StageAccept`).

**Incoming messages** (`InInv`). handle_pubrel answers PUBCOMP even if it finds no message, so one must know
that a PUBREL only travels for a message the client has, in the list or passed on (`Acknowledged`); a lost
connection takes nothing from the list. `OnePlace` says that a QoS 2 message whose PUBLISH is sent once is in
its PUBLISH, in the list or passed on, and in one of these only. The first attempt at this proof failed where
an id comes back, and rightly so: `_mosquitto_messages_reconnect_reset` keeps received QoS 2 messages whatever
the kind of session (`lib/messages_mosq.c:166`), while after a clean reconnection the broker may give the id of
such a message to another one. `_mosquitto_message_remove` then takes the first of the two: the old message is
passed on, and the new one is completed without `on_message`. TLC shows it with `MidSpace` 1, two messages of
QoS 2, one loss and a clean session, where `CompletedWasReceived` fails in ten steps.

**Life cycle** (`LifecycleInv`). The clean-up frees the context without looking for a thread. That none is
left follows from what stands in the operation queue before it: `isRunning` is false only if a disconnect
comes after every connect in the queue (`QueueQuiet`). A success is reported only on request because whatever
makes a thread report one was left behind by a disconnect(), or is gone before the next call to connect
is executed: the state "disconnecting" and a DISCONNECT in the packet queue outlive a disconnect() only when
there is no thread to act on them, and the next reconnection removes both before it opens a socket
(`OnlyOnRequest`, `AskedStops`).

**Timers** (`TimersInv`). The bounds follow from adding up intervals: what is left of the current `select()` plus
the age of `last_msg_out` stays below two intervals once CONNECT is written (`Silence`), and an unanswered
ping limits the age of what was really received although the time stamps are refreshed without a packet
(`Pinging`). That argument never asks whether the ping was written, so it covers blocked writes. Until CONNACK
is received no time stamp is older than the attempt to connect (`Handshake`), and a thread that only has
to end spends time in `sleep()` alone, whose rest and the time counted stay within the limit (`Stopping`).

**Packets and bytes** (`IInv`). Going out, what has been queued on a connection is what is written, then
`current_out_packet`, then `out_packet`, and the bytes on the wire are the encoding of the first and the
beginning of the second, up to `pos` (`Framed`). Coming in, what the broker has sent is the packets
handled, the one under way and the rest, and the unread bytes are what is missing of the packet under way
followed by the encoding of the rest (`Reads`). While the length is being read, what is missing begins with the
digits of a number m such that the length of the payload is `remaining_length + remaining_mult * m`
(`LengthUnderWay`); each digit read divides m by the base, and the one without the top bit leaves m = 0. So the
reader ends the length where the writer did, or gives the connection up at a packet that is too long.
`LengthOK` bounds what a length can come to. Then a step
of `PacketIO` appends a packet to `travelling`, moves its first one to `received`, empties both or leaves both
alone. What the recursive functions `Digits`, `Power` and the concatenation of encodings compute is proved by
induction over sets of naturals (`SetInduction`), which the provers can instantiate.

Every inductive invariant was model-checked on the instances of the runs, or on smaller ones, before it was
proved.

Only model-checked: liveness, which is out of the prover's reach (`EventuallyReported`, `EventuallyReceived`,
`EventuallyConnected`, `DisconnectCompletesWithoutReconnect`, `EventuallyWritten`, `EventuallyHandled`);
`DeliveredInOrder` with `LateSend` (run `out_late`, window 1), since its theorem assumes `~ LateSend`; and
`MessageLists`, whose run refutes what it checks.

## Not modelled

TLS and certificate checks (calls into OpenSSL); SOCKS and SRV (not compiled); logging and memory
wrappers; address resolution (I/O); failed allocation; `mosquitto_connect_async` and the other entry points
Moscapsule does not call. The topic checks and the setters of options and will are pure functions or plain
assignments made before a client connects; a refused call changes nothing. The layout of a packet
(which fields, in which order) is data to the models: types, ids, QoS, DUP, lengths and bytes are kept.
SUBACK and UNSUBACK only pass their contents on to a callback.

Two things are left out because the result would be undefined in C: a second reconnection, by the
application, that frees `in_packet` under the reading network thread, and a socket pair that is closed
while `select()` waits on it. Both are in the hazard list.

## Plan

Every safety property, action property and refinement of a passing run is stated by a theorem, some of them
under the hypotheses above. What could still be proved lies where those hypotheses end and where the
runs that expect a violation begin: how far `OutMessages` is right with `LateSend`, beyond `TypeOK` and
`InflightWindow` (`DeliveredInOrder` first, which `out_late` checks), and under which calls the pointers
`MessageLists` models stay well formed.
