# A TLA+ model of naive

naive is a proxy that carries TCP connections through the Chromium network
stack, as a client (SOCKS5, HTTP CONNECT or redirected sockets in, HTTPS or QUIC
proxy out), as a server (HTTP CONNECT in, direct out), or both. Its own code is
`src/src/net/tools/naive/`; the rest of the repository is Chromium code, patched
in a few places that matter here: Fast Open in the HTTP/2 and QUIC proxy sockets,
and the padded RST_STREAM of the HTTP/2 session.

This directory holds TLA+ modules that model that code, configurations for TLC,
and proofs for TLAPS. `PROJECT.json` maps every definition to the lines it
models.

## 1. Inventory

Everything runs on one thread with a message loop. A socket call either
completes within the call, and the caller then calls the completion handler
itself, or returns `ERR_IO_PENDING` and the loop calls the handler later. The
hard behaviours come from that: handlers nest, events of two sockets interleave,
and an object may be closed from inside its own code.

| Component | State | Operations | What makes it correct |
|---|---|---|---|
| `NaiveProxy` | accept loop, `last_id_`, map of connections by number | accept, connect, run, close | one owner per connection, no use after deletion, a callback reaches the connection that made it |
| `NaiveConnection` | connect state machine, early pull, sockets, errors, buffers, padding parser | `Connect`, `Run`, `Pull`, `Push`, completions, `Disconnect` | each direction does one thing at a time and never stops; bytes arrive in order and complete; every failure ends the connection |
| Padding codec (in `Push`) | parser state, number of frames | add a frame, remove frames from a chunk | both ends agree on the payload and on where padding ends |
| `NaiveProxyDelegate`, `PaddingDetectorDelegate` | padding support per proxy server, cached per connection | tunnel request and reply, padding direction | the direction is known when needed and stable for a connection |
| `RedirectResolver` | list of resolutions, maps by name and by address, next offset, one buffer | receive, answer, send, translate | a bijection without dangling iterators; answers translate back; one user of the buffer |
| `Socks5ServerSocket` | handshake state machine, byte counts | greeting, request, replies | partial reads and writes do not change what is understood |
| `HttpProxySocket` | header buffer, handshake state | read header, answer, hand over early payload | no byte of the payload lost; padding support reported before `Connect` completes |
| `SpdyProxyClientSocket`, `QuicProxyClientSocket` | `DoLoop` state, Fast Open flags, callbacks, buffered data | connect, authenticate, request, early connect, late reply, read, write, close, disconnect | every operation is answered once; a late refusal reaches the user and its body is not taken for data; no data and no wakeup is lost |
| `SpdySession`, `SpdyStream` | send and receive windows, unstall queue, write queue, frame being written | write, stall, resume, reset, close, window updates, settings | no byte of a window is lost or made up; whatever waits is woken; the peer is neither overrun nor blamed |
| `naive_proxy_bin` | none after start-up | parse configuration, build objects | - |

How they interact. `NaiveProxy` makes one `NaiveConnection` per accepted socket
and calls `Connect`, then `Run`; both report through a callback that carries the
connection's number. The connection asks its `PaddingDetectorDelegate` for the
padding direction, which asks `NaiveProxyDelegate`, which is shared by all
connections and is changed by the tunnel replies of each. A redirected
connection asks `RedirectResolver` for the name behind its address. The server
socket of a connection comes from Chromium's pool: a connect job drives the tunnel
socket's `Connect` and posts the result, and from then on `NaiveConnection` is the
tunnel's user. All tunnels to one HTTPS proxy are streams of one `SpdySession`, so
that what happens to one (a stall, a reset, bytes nobody reads) bears on the others.

The hazards, each at the line where it bites and with the properties that would
catch it, are listed in `PROJECT.json`.

## 2. Modules

| Module | Models |
|---|---|
| `PaddingCodec` | `Push`'s framing (`AddPadding`) and unframing (`RemovePadding`) as operators on sequences of bytes, and `Payload`, a reference definition of what a padded stream stands for |
| `PaddedStream` | an adding end and a removing end joined by a channel that cuts and joins buffers freely |
| `NaiveConnection` | one connection with its two sockets, the delegate, its owner as far as it reacts, and the message loop |
| `ByteRelay` | what a connection promises: each lane gives what it took, in order |
| `NaiveConnectionProofs` | the proofs about its control state |
| `NaiveConnectionPaddingProofs` | the proofs about its padding state |
| `NaiveProxyProofs`, `PaddingNegotiationProofs`, `RedirectResolverProofs`, `Socks5ServerSocketProofs`, `ProxyTunnelProofs`, `SpdySessionProofs` | the proofs about these modules |
| `PaddingNegotiation` | connections through two naive instances: what each learns of its server from all replies, and what its connections decide by it |
| `NaiveProxy` | the accept loop and the owner of all connections |
| `RedirectResolver` | the DNS resolver of redirected connections |
| `Socks5ServerSocket`, `HttpProxySocket` | the handshake with the client, under any cut of its messages |
| `ProxyClientSocket` | what the two tunnel sockets have in common, and their user |
| `SpdyProxyClientSocket`, `QuicProxyClientSocket` | a CONNECT tunnel over an HTTP/2 or an HTTP/3 stream |
| `ProxyTunnel` | the specification of a tunnel of either kind, and its properties |
| `SpdySession` | flow control, write queue and write loop of the session under the tunnels |
| `MCNaiveConnection`, `MCPaddingNegotiation`, `MCRedirectResolver`, `MCSocks5ServerSocket`, `MCHttpProxySocket` | constants for TLC |

### NaiveConnection

Variables carry the names of the members (`early_pull_pending`,
`can_push_to_server`, `num_paddings`, ...); `sockets`, `write_pending`, `reading`
and `writing` are the sets of sides for which the array entry is set, or the
operation outstanding. `call` is the function being executed with its arguments
(direction, result), and `resume` names the one function that still has
something to do after the function it called returns: `DoConnectClientComplete`
after the early pull, `Run` after it started the client's direction. All other
calls in this code are tail calls, so one frame and one resumption are the whole
stack. An event of the message loop (`ReadDone`, `WriteDone`, `PostedPull`,
`ClientConnected`, `ServerConnected`, the tunnel events, `Delete`) needs both to
be empty (`Idle`).

Each function is one action, or one per branch: `DoConnectClient`,
`DoConnectClientComplete` (with `EarlyPullReturned`, its rest), `DoConnectServer`,
`DoConnectServerComplete`, `HandleConnectResult`, `Run` (`RunFails`,
`RunReturned`), `Pull` (`PullReturns`), `OnPullComplete`, `Push`, `OnPushComplete`
(`PushContinues` for a short write). `OnPullError`, `OnPushError`, `Disconnect`
and `OnBothDisconnected` are operators inside them. `Close` and the delayed
deletion of the owner are included, since they decide what a late handler may
still see.

Data is real: sockets deliver any prefix of what the peer sends, `Write` takes
any prefix of the buffer, and padding is the codec's. The peer's stream is padded
when this connection removes padding from it.

Abstractions: net errors are `ERR_CONNECTION_RESET` for any failure,
`ERR_CONNECTION_CLOSED` for the end of a stream and `ERR_ADDRESS_INVALID`; whether
a direction yields (bytes passed, clock) is a free choice; the tunnel is its
progress (`connecting`, `requested`, `fastopen`, `replied`).

The socket interface it stands on is that of `ProxyTunnel`, with one
simplification: dropping a socket drops its operations, so the callback of a Write
that `SpdyProxyClientSocket::OnClose` may still run after `Disconnect` (section 3) is
left out. It would find the connection failed and change nothing.

### PaddingNegotiation

Hop 1 is the user's naive instance, hop 2 its proxy server, if that is a naive
instance too. A connection at a hop is its phase, what its delegate detected of the
client and cached of the server, and the reply that is under way. `padding_state` is
`padding_state_by_server_` of each hop. `Accept`, `DoConnectClientComplete` (the early
pull asks for the padding direction, and with it caches the answer),
`DoConnectServer` (with Fast Open the tunnel is connected at once if the server is
known) and `OnTunnelHeadersReceived` are functions of the code; `Run` is a step of its
own, since the pool posts the result of the connect. The environment handles a
request (`Handle`, which is the `Accept` of the next hop if that is naive), refuses it
(`Refuse`) or replaces the server by one of the other kind (`Replace`), in which case
both finish what they have, so that late replies of the old server follow those of the
new. A refusal is learned from like any reply. `generation`, `heard` and `basis` are
history: which server a reply came from, and which one a decision rests on.

### ProxyClientSocket, SpdyProxyClientSocket, QuicProxyClientSocket, ProxyTunnel

Handlers of these classes call each other, the stream below and the user's
callbacks, and the user calls back from inside them (a failed Read makes
`NaiveConnection` disconnect the socket before the handler returns). So a handler is
a function from the tunnel's state `x` to the next one, the calls nest as they do in
the code, and an action is one event of the message loop: a call of the user, an event
of the stream, or a posted task. `sock` is the socket's members; `failed_checks`
collects the DCHECKs that did not hold, and `user.stray` the callbacks that nobody
waited for. The user is the connect job until the tunnel is connected and
`NaiveConnection` then, as far as they react: an error destroys the socket or
disconnects it; after a challenge `RestartWithAuth` says that the connection cannot be
used again, and the job destroys the socket. The job calls `Connect` in the same
event that made the socket, so the stream is not closed before it (`SpdyReset`).

Of the HTTP/2 stream the model has what a tunnel sees (`io`, the state of the response,
what is being sent); of `QuicChromiumClientStream` and the `quic::QuicSpdyStream` under it
the body it holds, its end and its trailers, the handle's callbacks and the tasks it posts,
which may run after `Disconnect`. Trailers matter although a tunnel has no use for them: the
stream counts as read (`DoneReading`) only when its trailers are consumed, and the socket
never reads them. Data are numbered units, so that order and loss are visible.

### SpdySession

`send_window`, `stream[s].window`, `recv_window`, the two `unacked` counters, `unstall`,
`queue`, `in_flight`, `write_state` and `in_io_loop` are the members of the same names.
A handler is one action except for the three loops (`DoWriteLoop`,
`ResumeSendStalledStreams`, the visit of all streams after a change of the initial
window), whose iterations are steps with no other event between them (`Idle`), because
streams are resumed, closed and stalled again in the middle of them. `peer` is what the
other end allows and sees: its credit for the session and each stream, counted when a
frame has been written, what it may still send, and whether it broke a rule
(`faulty`; at most `MaxEvents` times). Frames are their type, stream and size. All
tunnels have one priority, as in naive; the session's WINDOW_UPDATEs have the highest.

The write queue is a set: the code's array of one deque per priority becomes a number that
`Enqueue` gives to each frame, one more than the last of its priority, and `Before` is the
order in which `Dequeue` takes them. The bytes of some frames are then the size of a set
(`Bytes`), and what is queued, written or discarded is added up without recursion.

### NaiveProxy

`stack` is the real call stack, a sequence of frames, since here it matters which
functions still hold a pointer to a connection. `Event` stands for any code of a
connection, from which the run callback may come. `IdSpace` is the number of
values of `last_id_`.

### RedirectResolver

`resolutions` is the list, with an identity for every node; the maps give the
node of a name or an address, so an iterator that dangles is visible. Time is
kept as the age of what was stamped, saturated one unit past the recycle time,
which keeps the model finite without a limit on how long it runs. `answers` is
not in the program: it is what clients were told and may still use. `AddrSpace` is
the number of addresses and `RangeSize` the number of those that share the first
`prefix_` bits of `range_`; `subnet` is the outcome of `~0U >> prefix_`, which is
`RangeSize - 1`, or a free choice where the shift is undefined (a `/32`).

### Socks5ServerSocket and HttpProxySocket

The client's half of a handshake. A client is a record of what it means to send
(methods, command, address, port; or request line, header lines, payload), chosen
in `Init`; `Stream` is what that looks like on the wire. The transport delivers any
non-empty piece of it, inside the call or later (`OnIOComplete`), ends anywhere or
fails, and takes any part of what is written. `looping`, `next_state` and `rv` are
`DoLoop`; each `Do...` function is an action. What the code made of the bytes
(`learnt`, `request_endpoint`, `detected`, `delivered`) is compared with the record
that they came from, so that the properties are a round trip through the code's
parser and not a second parser.

SOCKS5 has the program's own sizes and byte values, since only the position in the
stream multiplies states; `Char` is the value of a `char`, signed or not. The HTTP
text is a sequence of tokens: CR, LF and SP, which the code searches for, and words.

## 3. Runs

| Run | Checks | Bounds |
|---|---|---|
| `padded_stream` | `PayloadDelivered`, `EndsAgree` | 2 padded frames, then raw bytes; byte values of base 3, so that a length needs both bytes of the header |
| `padding_negotiation` | `SupportKnownWhenRunning`, `ServerChangesFollowed` | 3 connections (symmetric) over two hops, so that one may decide by the late reply of another while its own is heard; one replacement, one refusal; with and without Fast Open |
| `connection` | `TypeOK`, `NoOverlappingOperations`, `NoStalledDirection`, `SocketsUsable`, `PaddingKnown`, `PushBufferValid`, `EndOfStreamFlushes`, `StablePaddingDirection`, `RelaysBytes` (refinement of `ByteRelay`), `FailureIsFinal` | every protocol and proxy, two bytes each way: reads, writes and frames are cut, and the padding limit is crossed |
| `proxy_owner` | `TypeOK`, `NoUseAfterFree`, `OneOwner`, `CallbackFindsCaller`, `DestroyedAfterClose` | 3 connection objects at a time, 3 numbers, so that numbers wrap onto live connections |
| `resolver` | `TypeOK`, `MapsAgree`, `OneOperation`, `AnswersTranslate`, `CollectsAll` | 4 names, a range of 4 among 8 addresses that starts inside it (`range_` need not be its network), TTL 1, recycle time 2; names are symmetric |
| `socks5` | `DchecksHold`, `HandshakeExact` | 13 clients: every address type, no or no acceptable method, each header field wrong; signed char |
| `http_proxy` | `RequestUnderstood`, `PayloadIntact` | 10 requests, one above the size limit, one whose payload looks like header text; Reads smaller than the payload |
| `tunnel` | `OneAnswerEach`, `DchecksHold`, `RefusalIsSilent`, `NothingLost`, `ReadsAnswered`, `RefusalReachesUser` | both protocols, with and without Fast Open; 3 units of data in frames of up to 2, Reads of 1, so that a frame outlasts a Read; trailers; 2 Writes (43,401 states) |
| `spdy_session` | `SendWindowsExact`, `FlowControlKept`, `EveryWriteHasWaker`, `ReceiveWindowReturned`, `ResetIsLast`, `WritesEnd` | 2 tunnels; windows of up to 3 bytes, so that each window runs out before the other in some behaviour, and that an update overflows; writes longer than a window; settings that lower and raise it, to below zero too; 2 writes, frames of data or settings |

`kFirstPaddings` (8 in the code), the buffer sizes, the windows and the byte base are
constants of the modules and small in the runs; the code treats every frame before
the last, and every number, alike, and the boundary cases (last frame, full buffer,
largest padding, empty, negative and overflowing window, wrap) are within the bounds.

Three runs show a disagreement between the code and what it says of itself:

* `connection_run_dcheck`: `DCHECK(sockets_[kClient])` at the start of `Run` fails
  after the client ends during the early pull.
* `connection_report`: `OnBothDisconnected` tests the wrong entry of `errors_` and
  reports every failure as OK.
* `tunnel_read`: a pending Read is not always given the data or the end that there is
  (`ReadGetsResult`). TLC stops at one behaviour; restricting the property to one protocol,
  with or without Fast Open, shows three. Over HTTP/2 the end of a stream that comes while
  no Read is pending is forgotten, and the next Read is not answered. Over QUIC a Read is
  not told of the end of a stream with trailers, which nobody consumes: the task for them
  finds `ERR_IO_PENDING` and returns. With Fast Open over QUIC, body that comes before the
  reply is delivered is not announced again, so that a Read waits although there is data.

`ReadsAnswered` of the passing run makes exceptions for exactly these three: it says of
every pending Read that the close of its stream answers it, that data answers it except
with Fast Open over QUIC, and that the end answers it over QUIC without Fast Open and
without trailers.

Other things the models show, not as runs of their own:

* `redirect_resolver.cc:144`: an address in use is overwritten although others are
  free, since the offset simply goes round; `AnswersTranslate` lets a later answer take
  over an address.
* With Fast Open over QUIC a refusal makes the socket disconnected but does not answer
  the pending Read, and data that follows is still given to it (the comment at
  `quic_proxy_client_socket.cc:324` says it is ignored). `RefusalIsSilent` leaves this out.
* `SpdyProxyClientSocket::OnClose` runs the callback of a Write after the user
  disconnected in that of the Read: the exception in `OneAnswerEach`.
* `socks5_server_socket.cc:318`: the number of methods is read as a `char`; where
  that is signed, 128 or more methods break the `DCHECK_LT` of line 286.
* A failed `Accept` ends the accept loop for good (`NaiveProxy` then only winds down).
* With a `/32` range `~0U >> prefix_` shifts by the whole width; `MapsAgree` fails if
  the build does not shift at all.
* `http_proxy_socket.cc:275`: payload that comes with the header counts against the
  size limit of the header.
* `http_proxy_socket.cc:343`: a short write of the response header fails the connection;
  `RequestUnderstood` permits it.
* `last_id_` wraps onto a connection in use, which is then destroyed without `Close`;
  `DestroyedAfterClose` allows for it.
* A connection that decides by a refusal without the padding header takes a capable
  server for an incapable one; `ServerChangesFollowed` leaves those out.
* The padding of a RST_STREAM is counted against the session's window only, and the
  acknowledgement of a SETTINGS that lowers a window overtakes DATA queued under the
  larger one: `FlowControlKept` counts a stream's window accordingly.
* A stream that stalls repeatedly and is woken by its own window updates leaves an entry
  in the unstall queue each time, until the session's window is updated.
* The internal header `fastopen` is removed by the HTTP/2 and HTTP/3 sockets only: to
  an HTTP/1.1 proxy it leaves with the request (read in the code, not modelled).

Deadlock. `NaiveConnection`, `RedirectResolver`, the two handshake sockets and
`ProxyTunnel` never stop (a deleted connection or tunnel stutters, a socket may always
be disconnected), and deadlock is checked. It is off where the system may really stop:
`PaddedStream` when all bytes were delivered, `NaiveProxy` when the accept loop has
stopped and the last connection is gone, `PaddingNegotiation` when all connections run
or were refused, `SpdySession` when nothing is left to write and the peer is silent.

Fairness. In all cases the thread finishes what it started and runs what was posted.

* `NaiveConnection`: weak fairness of the functions on the stack and of the task
  posted by `DeleteSoon`. A connection attempt is decided, since connect jobs have
  timeouts. Nothing is assumed of the peers: reads, writes and the client's handshake may
  stay pending for ever.
* `ProxyTunnel`: the posted tasks run, and the relay comes back to Read (which is what
  `NoStalledDirection` of the connection says). Nothing is assumed of the proxy and the
  network.
* `SpdySession`: the write loop and the other loops go on; the peer takes what is
  written and gives new credit when the old is used up, without which no flow-controlled
  write can end.

## 4. Proofs

`NaiveConnectionProofs` proves, for every set of protocols and proxies, every
stream of bytes, every read and write size and all padding parameters:

* `Invariance`: `Spec => []Inv`;
* `NeverOverlapping`: `Spec => []NoOverlappingOperations`;
* `NeverStalled`: `Spec => []NoStalledDirection`;
* `AlwaysUsable`: `Spec => []SocketsUsable`.

The assumptions are those on the constants (`ByteBaseAssumption` and the
assumptions on protocols and proxies).

None of the three properties is inductive. Whether `Run` starts the client's
direction exactly once depends on `early_pull_pending_` telling exactly whether
the early pull is active, which depends on where the connection is on its way
from `Connect` to `Run`; whether an error stops everything depends on
`write_pending_` being set only during a write. So `Inv` is the conjunction of

* `ControlTypeOK`, the types of the control variables;
* `FailedInv`: a failed connection has dropped its client socket and has no
  socket operation left; the completion handlers run only before a failure;
* `ConnectInv`: which function may run in which state of the connect phase;
* `EarlyInv`: before `Run` only the early pull is active, exactly when
  `early_pull_pending_` is set; and at `Run` it is pending, failed, or has a
  result that is a count of bytes;
* `RunInv`: after `Run` each direction has activity 1 until a failure;
* `WriteInv`: `write_pending_` implies a write under way.

There is one lemma per action. Steps outside the relay leave the activity of
both directions unchanged (`QuietActivity`); the relay steps trade one kind of
activity for another, which is shown first, and then nothing needs the
definition of `Activity`. An error closes both sockets at once: `PendingWrites`
shows that the direction that met it cannot have a write pending.

`NaiveConnectionPaddingProofs` proves, from the assumption on the protocols alone:

* `PaddingInvariance`: `Spec => []PaddingInv`;
* `PaddingAlwaysKnown`: `Spec => []PaddingKnown`;
* `PaddingDirectionIsStable`: `Spec => StablePaddingDirection`.

That `Pull` and `Push` find both answers rests on facts about the past that
`PaddingInv` carries along: a tunnel in use (with Fast Open or replied) implies
that the delegate knows its server, and a server, once known, is never
forgotten; the client is known from the end of its handshake on; and nothing is
cached or relayed while the client is still connecting. The last one also gives the
stable direction: the only step that changes the client's answer comes before
anything is cached, and from then on the cached answer is read. Remembering an
answer does not change it (`SameSupport`), so `RelayingKeeps` covers every step
that moves bytes.

### NaiveProxyProofs

For any set of connections and any number of values of `last_id_`: `TypeCorrect`,
`AlwaysOneOwner`, `NeverUsedAfterFree`, `CallbacksFindCaller` and
`OnlyDestroyedAfterClose` (an action property). Assumed are the types of the constants
(`IdSpaceAssumption`, `NoConnAssumption`).

Whether a pointer on the stack is still good depends on what is below it. `Inv` says
so: the stack is empty, or the accept loop or code of a live connection, with at most
one more function above it (`StackInv`); and that function, on the way from `Connect` to
`Run`, holds a connection that is in the map and will not call back. Whoever will call
back is in the map (`CallbackInv`), which with `OneOwner` makes the numbers in callbacks
unambiguous even when `last_id_` has wrapped.

### PaddingNegotiationProofs

For any number of connections, replacements of the server and refusals, with and without
Fast Open: `AlwaysKnownWhenRunning` and `ChangesAlwaysFollowed`.

`Kind(h, g)` is what the server of a hop was in its `g`-th generation. The invariant ties
each piece of state to the generation it came from: what the hop learned is what the
server it heard last supports (`HeardInv`), a reply says what the server was that handled
the request (`HandledInv`), and what a connection decided is what the server supports
whose reply it decided by (`BasisInv`). `ChangesAlwaysFollowed` follows when the two
generations are the same; `KnownInv` gives `AlwaysKnownWhenRunning`.

### RedirectResolverProofs

For any names, times and range: `TypeCorrect`, `AlwaysOneOperation`, `MapsAlwaysAgree`,
`AnswersAlwaysTranslate` and `AlwaysCollectsAll` (an action property). `MapsAlwaysAgree`
has the hypothesis `RangeSize > 1`, a prefix shorter than 32: for a `/32` it is false of a
build that does not shift at all (section 3). The recycle time is at least the TTL, as it
is in the code (`TimesAssumption`).

The invariant says that the list is in the order of its times and has every node once
(`ListInv`), which is why looking at the front of it collects everything; that maps and
list point to each other (`MapInv`); and that an answer in use has a resolution that is no
older than it (`AnswerInv`), so that collecting garbage takes none away. Uniqueness of
names and addresses follows from `MapInv` and is not assumed. The first node that is kept
exists by the least-number principle (`Least`).

### Socks5ServerSocketProofs

For any clients, methods, addresses, ports and payloads, any cut of the messages by the
transport and any size of the Reads above: `DchecksAlwaysHold` and `HandshakeAlwaysExact`.
A client follows the framing of the protocol, as `ClientsAssumption` says: the lengths it
announces are those of what it sends, and an IPv4 address has 4 bytes, an IPv6 address 16;
all else about it may be wrong. The theorems have the hypothesis `MethodsFit`, that the
number of methods survives being read as a `char`. `WhenMethodsFit` shows what it asks:
nothing where `char` is unsigned, fewer than 128 methods where it is signed. With more the
DCHECK really fails (section 3).

The invariant is one phase of a connection or another: reading the greeting, writing its
answer, reading the request, writing the reply, connected, failed or over. `Reading` says
of a message that the buffer holds the stream from its first byte, and how the number of
bytes taken follows from where `DoLoop` is; `Writing` says the same of an answer and what
was written. The length of the next Read is right because it is the first two (or five)
bytes that told it, which needs the bytes themselves: `StreamBytes` says at which position
of the stream each field of the client's messages is. That the header is judged and the
length computed rightly (`HeaderBytes`) and the endpoint read back (`EndpointBytes`) are
then facts about sequences.

### ProxyTunnelProofs

For any amount of data, frame and buffer sizes, number of Writes, and both protocols, with
and without Fast Open: `AlwaysOneAnswerEach`, `DchecksAlwaysHold`, `RefusalAlwaysSilent`
and `NothingEverLost`.

A handler is a function on the state of the tunnel, so the invariant is a predicate on
such a state, one for each protocol, and every handler has a lemma that says what it
makes of a state that satisfies it, in the middle of an event too. The parts: the
types, with no DCHECK failed; where socket, stream and tasks are in each phase of the user
(`SpdyBegins`, `SpdyInUse`, `SpdyOver`, `QuicPhase`); what may have been received before and
after the reply (`SpdyReplied`, `QuicReplied`); and that what the user awaits is what is
kept for it, and what it read and what is buffered are what was received (`SpdyKept`,
`QuicKept`). For QUIC one more part is needed, about the order of the posted tasks
(`Delivery`): until the handle has delivered the headers it waits for them, and the task
that delivers them is the first one in the queue. That is why the task for trailers, and
those for data, find the headers delivered. The DCHECKs are the reason for the phases: each says that a state is one of a
few, and which of them it is depends on how far stream and user are.

### SpdySessionProofs

For any set of streams, any windows, frame size, paddings of a RST_STREAM, settings, and
number and size of writes and updates: `SendWindowsAreExact`, `FlowControlIsKept`,
`EveryWriteIsWoken`, `ReceiveWindowIsReturned` and `ResetIsTheLast`. Assumed are the types
of the constants: finitely many streams with numbers from 1, windows up to `MaxWindow`,
paddings up to the threshold at which they are sent, receive windows that are not empty.

The properties hold between events or of streams in some states; the invariant `IInv` says
what is true in the middle of every loop, of every stream and every frame, while the session
is not drained:

* `Types`, with the queue numbered and finite, so that its bytes can be counted;
* `OneLoop`: which loops may run together, and that a frame is in flight only while the
  write loop waits for it;
* `FramesOK`: which frames a stream may have under way in which of its states, and which
  streams the peer knows. A RST_STREAM belongs to a closed stream, HEADERS that are still
  queued to a created one; `ResetOK` adds that nothing of the stream is behind a RST_STREAM;
* `SendOK`: the accounts of the send windows. While the initial window is being changed the
  account of a stream that was not visited yet is off by the change; and a stream that is
  closed has no window, but what it still has under way is within what the peer allows it,
  until a setting lowers that. Without the last part the frame of a stream that was closed
  while it was being written might overrun the peer;
* `RecvOK`: the accounts of the receive windows with what is held, unacknowledged and on
  its way back; an unacknowledged count never passes half of a window;
* `WakersOK`: a write that is not stalled has one DATA frame under way, a stalled one none.
  In the middle of `ResumeSendStalledStreams` a stalled stream may also have been put aside
  in `streams_to_requeue`, or be due in the round that is running (`Waits`).

`FlowControlKept` is a conjunct of `IInv` of its own, as it outlives the session: that an
overflow is the peer's fault follows from the accounts and from what a peer that keeps the
rules gives at most (`Rules`).

The argument is bookkeeping over sets. `Adds` says that a step moves so many bytes of a
type and stream into or out of what is under way; there is one lemma for each operation on
the queue (`AppendedAdds`, `RemoveAdds`, `DequeueAdds`, `WrittenAdds`), and the accounts
need nothing else of it. What several handlers do is proved once: queueing data
(`DataQueuedKeeps`), closing and resetting a stream (`CloseKeeps`, `ResetKeeps`),
acknowledging (`BothAcks`), and steps that leave frames and accounts alone (`QuietStep`).

Each inductive invariant was checked with TLC, on instances like those of the runs,
before it was proved.

### What stays with TLC

* Liveness: `FailureIsFinal`, `ReadsAnswered`, `RefusalReachesUser`, `WritesEnd`.
* What recursive functions over the data return: the codec's `PayloadDelivered` and
  `EndsAgree`, and of the connection the types of the data variables (`TypeOK`),
  `PushBufferValid`, `EndOfStreamFlushes` and the refinement of `ByteRelay`.
* The HTTP socket, whose parser is a search through the text of the request (section 6).

## 5. Not modelled

* The choice of header characters and lengths that hide the traffic pattern:
  layout, not state.
* Network isolation keys and SSL configuration: passed on unchanged.
* Of `SpdySession`: connecting and pooling, header compression, pings, push streams,
  GOAWAY, the cap on queued control frames, and what a draining session still writes. None
  of it changes the windows, the write queue or the state of a tunnel except by ending
  the session, which is one of the events.
* Of the connect job: what it does between a challenge and its end, and its timeout,
  are reduced to the destruction of the socket at any time before it is connected.
* Of the QUIC stream: a RESET_STREAM over IETF QUIC that closes the read side only
  (`quic_stream.cc:558-564`) and a reset without error that closes the write side only. The
  reset of the model closes the stream, as the end of the connection does.
* Resets of an HTTP/2 stream for DATA before the headers, behind the trailers or on a
  half-closed stream (`spdy_stream.cc:518-537`), which do to the windows what the modelled
  resets do.
* `ReadIfReady` as an operation of its own and socket tags, which naive does not use.
* Configuration parsing (`naive_proxy_bin`) and logging: no state after start-up.
* All else of Chromium below the socket interface. The repository is a copy of the
  Chromium network stack of over a million lines, nearly all of it unchanged from
  upstream and most of it not reached by naive (URL requests, cache, cookies,
  certificates) or pure computation (TLS, QUIC's transport, compression). The modules
  above cover naive's own code and the parts of the stack it patches or that its
  tunnels live on; the share of the whole repository they cover stays small for
  that reason.

## 6. Plan

1. Done: the codec, the connection, its owner, the resolver, the two handshake
   sockets; the proofs about the connection's control and padding state.
2. Done: `PaddingNegotiation`; the two tunnel sockets with Fast Open and failures
   between the early connect and the reply; the HTTP/2 session under them.
3. Done: proofs of ownership in `NaiveProxy`, of the resolver's bijection, of the
   padding negotiation, of the SOCKS5 handshake, of the safety of the tunnels, and of
   all safety properties of the HTTP/2 session.
4. Proofs: `RequestUnderstood` and `PayloadIntact` of the HTTP socket.
5. An abstract client socket (connected once, endpoint, payload in order) that
   both handshake sockets refine and that `NaiveConnection` may assume.
6. Composition: `NaiveProxy` over the abstract connection that `NaiveConnection`
   refines.
