--------------------------- MODULE NaiveConnection ---------------------------
(***************************************************************************)
(* One NaiveConnection: it connects its two sockets, reads from the client *)
(* before the server is connected when it may (the early pull), and then   *)
(* relays bytes in both directions, adding or removing padding, until one  *)
(* side fails or ends.  Its owner NaiveProxy appears as far as it reacts   *)
(* to this connection: Run after Connect, Close, and the delayed deletion. *)
(*                                                                         *)
(* Everything runs on one thread.  A socket call either completes inside   *)
(* the call, and the code then calls the completion handler itself, or     *)
(* returns ERR_IO_PENDING and the handler is called later from the message *)
(* loop.  The variable call is the function being executed, resume what    *)
(* its caller still has to do when it returns; the message loop delivers   *)
(* an event only when both are empty.                                      *)
(***************************************************************************)
EXTENDS PaddingCodec

CONSTANTS
  Protocols,     \* client protocols explored, of kSocks5, kHttp and kRedir
  ProxyKinds,    \* "tunnel" (HTTP, HTTPS, QUIC proxy) or "direct" (also SOCKS)
  SourceData,    \* SourceData[d]: the payload that side d sends
  PeerPadding,   \* padding size used by a padding-capable peer
  PeerFrame,     \* payload bytes per frame of a padding-capable peer
  PaddingSizes   \* outcomes of RandInt(0, kMaxPaddingSize) explored

kClient == "client"
kServer == "server"
kNone == "none"
Sides == {kClient, kServer}
Other(side) == IF side = kClient THEN kServer ELSE kClient

kUnknown == "unknown"
kCapable == "capable"
kIncapable == "incapable"
PaddingSupport == {kUnknown, kCapable, kIncapable}

\* Net errors.  Every failure of a socket is treated alike by this code, so
\* one of them is enough; the end of the stream is 0.
OK == 0
ERR_IO_PENDING == -1
ERR_CONNECTION_CLOSED == -100
ERR_CONNECTION_RESET == -101
ERR_ADDRESS_INVALID == -108
Errors == {ERR_CONNECTION_CLOSED, ERR_CONNECTION_RESET, ERR_ADDRESS_INVALID}

ASSUME ProtocolsAssumption == Protocols \subseteq {"kSocks5", "kHttp", "kRedir"}
ASSUME ProxyKindsAssumption == ProxyKinds \subseteq {"tunnel", "direct"}
ASSUME SourceDataAssumption == SourceData \in [Sides -> Seq(Nat)]
ASSUME PeerAssumption ==
  PeerPadding \in 0..kMaxPaddingSize /\ PeerFrame \in 1..PaddedReadSize
ASSUME PaddingSizesAssumption == PaddingSizes \subseteq 0..kMaxPaddingSize

VARIABLES
  protocol,                 \* protocol_
  proxy,                    \* the kind of proxy_info_'s proxy server
  \* connecting
  next_state,
  connect_callback,         \* connect_callback_ is set
  full_duplex,
  early_pull_pending,
  early_pull_result,
  can_push_to_server,
  \* padding detection
  detected_client,          \* detected_client_padding_support_
  cached_server,            \* cached_server_padding_support_
  padding_state_by_server,  \* NaiveProxyDelegate's entry for the proxy server
  tunnel,                   \* progress of the tunnel request
  \* relaying
  sockets,                  \* the sides whose sockets_ is not null
  errors,
  write_pending,            \* the sides whose write_pending_ is true
  run_callback,             \* run_callback_ is set
  read_buffers,             \* read_buffers_: allocated kind and content
  write_buffers,            \* write_buffers_: bytes remaining (none when null)
  num_paddings,
  parser,                   \* read_padding_state_, payload_length_, padding_length_
  \* the sockets and the message loop
  reading,                  \* the sides with an outstanding Read
  writing,                  \* the sides with an outstanding Write
  posted,                   \* posted[d]: number of posted Pull(d, Other(d))
  consumed,                 \* bytes read from socket s so far
  output,                   \* bytes accepted by socket s so far
  \* the owner
  owner,
  reason,                   \* what Close was told
  \* the call stack
  call,
  resume

setupVars == <<protocol, proxy>>
connectVars == <<next_state, connect_callback, full_duplex>>
earlyVars == <<early_pull_pending, early_pull_result, can_push_to_server>>
paddingVars == <<detected_client, cached_server, padding_state_by_server, tunnel>>
linkVars == <<sockets, errors, write_pending, run_callback>>
codecVars == <<num_paddings, parser>>
bufferVars == <<read_buffers, write_buffers>>
ioVars == <<reading, writing, posted>>
dataVars == <<consumed, output>>
ownerVars == <<owner, reason>>
stackVars == <<call, resume>>
vars == <<setupVars, connectVars, earlyVars, paddingVars, linkVars, bufferVars, codecVars,
          ioVars, dataVars, ownerVars, stackVars>>

-----------------------------------------------------------------------------
\* The call stack.

Frame(op, d, rv) == [op |-> op, d |-> d, rv |-> rv]
NoCall == Frame("none", kNone, OK)
Calling(op) == call.op = op
Returned == Calling("none")
\* The message loop may run the next task.
Idle == Returned /\ resume = "none" /\ owner # "deleted"

\* A read buffer: the IOBuffer allocated for the next Read or holding what
\* the last one returned.  kind "growable" has room for a frame in place.
BufferKinds == {"none", "plain", "growable"}
Buffer(kind, data) == [kind |-> kind, data |-> data]

-----------------------------------------------------------------------------
\* Padding detection (PaddingDetectorDelegate).

GetClientPaddingSupport ==
  IF protocol \in {"kSocks5", "kRedir"} THEN kIncapable ELSE detected_client

GetProxyServerPaddingSupport ==
  IF proxy = "direct" THEN kIncapable ELSE padding_state_by_server

\* Mutant: the answer is not remembered for the connection.
GetServerPaddingSupportUncached == GetProxyServerPaddingSupport

GetServerPaddingSupport ==
  IF cached_server # kUnknown THEN cached_server ELSE GetProxyServerPaddingSupport

\* GetServerPaddingSupport also remembers what it returns.
CacheServerPaddingSupport ==
  /\ cached_server' = GetServerPaddingSupport
  /\ UNCHANGED <<detected_client, padding_state_by_server, tunnel>>

PaddingSupportKnown ==
  GetClientPaddingSupport # kUnknown /\ GetServerPaddingSupport # kUnknown

GetPaddingDirection ==
  LET c == GetClientPaddingSupport
      s == GetServerPaddingSupport
  IN IF c = kCapable /\ s = kIncapable THEN kServer
     ELSE IF c = kIncapable /\ s = kCapable THEN kClient
     ELSE kNone

\* Mutant: one buffer too many is padded.
AddsPaddingOneMore(d) ==
  d = GetPaddingDirection /\ num_paddings[d] <= kFirstPaddings

\* Does Push of a buffer read from d add, or remove, padding?
AddsPadding(d) ==
  d = GetPaddingDirection /\ num_paddings[d] < kFirstPaddings
RemovesPadding(d) ==
  Other(d) = GetPaddingDirection /\ num_paddings[d] < kFirstPaddings

ParserFields == {"state", "payload_length", "padding_length"}
\* The unpadder of PaddingCodec for the buffers read from d, and back.
Unpadder(d) == [f \in ParserFields \cup {"num_paddings"} |->
                  IF f = "num_paddings" THEN num_paddings[d] ELSE parser[f]]
ParserOf(u) == [f \in ParserFields |-> u[f]]

-----------------------------------------------------------------------------
\* The peers (external): a side whose padding this connection removes sends
\* frames, any other side sends its payload as it is.

PeerFrames(data) ==
  LET from[n \in 0..kFirstPaddings] ==
        IF n = kFirstPaddings THEN SubSeq(data, n * PeerFrame + 1, Len(data))
        ELSE LET body == SubSeq(data, n * PeerFrame + 1,
                                Lesser((n + 1) * PeerFrame, Len(data)))
             IN IF body = <<>> THEN <<>>
                ELSE AddPadding(body, PeerPadding) \o from[n + 1]
  IN from[0]

Stream(s) ==
  IF Other(s) = GetPaddingDirection THEN PeerFrames(SourceData[s])
                                    ELSE SourceData[s]

ReadSize(kind) == IF kind = "growable" THEN PaddedReadSize ELSE kBufferSize

\* What a Read of s into a buffer of that kind may complete with: some of the
\* bytes that are left, the end of the stream, or a failure.
ReadResults(s, kind) ==
  {n \in 0..ReadSize(kind) : n <= Len(Stream(s)) - Len(consumed[s])}
    \cup {ERR_CONNECTION_RESET}

Received(s, rv) ==
  IF rv > 0 THEN SubSeq(Stream(s), Len(consumed[s]) + 1, Len(consumed[s]) + rv)
            ELSE <<>>

\* What a Write of some bytes may complete with.
WriteResults(bytes) ==
  {n \in 1..kBufferSize : n <= Len(bytes)} \cup {ERR_CONNECTION_RESET}

Accepted(rv, bytes) == IF rv > 0 THEN SubSeq(bytes, 1, rv) ELSE <<>>

-----------------------------------------------------------------------------
Init ==
  /\ protocol \in Protocols /\ proxy \in ProxyKinds
  /\ next_state = "NONE" /\ connect_callback = FALSE /\ full_duplex = FALSE
  /\ early_pull_pending = FALSE /\ early_pull_result = ERR_IO_PENDING
  /\ can_push_to_server = FALSE
  /\ detected_client = kUnknown /\ cached_server = kUnknown
  /\ padding_state_by_server \in PaddingSupport
  /\ tunnel = "none"
  /\ sockets = {kClient}
  /\ errors = [s \in Sides |-> OK]
  /\ write_pending = {}
  /\ run_callback = FALSE
  /\ read_buffers = [s \in Sides |-> Buffer("none", <<>>)]
  /\ write_buffers = [s \in Sides |-> <<>>]
  /\ num_paddings = [s \in Sides |-> 0] /\ parser = ParserOf(NewUnpadder)
  /\ reading = {} /\ writing = {}
  /\ posted = [s \in Sides |-> 0]
  /\ consumed = [s \in Sides |-> <<>>] /\ output = [s \in Sides |-> <<>>]
  /\ owner = "new" /\ reason = OK
  /\ call = NoCall /\ resume = "none"

-----------------------------------------------------------------------------
\* Connecting.

\* NaiveProxy::Close: a second call finds no connection.
Close(why) ==
  IF owner = "closed" THEN UNCHANGED ownerVars
                      ELSE owner' = "closed" /\ reason' = why

\* NaiveProxy::DoConnect calls Connect on the connection it just made.
Connect ==
  /\ Idle /\ owner = "new"
  /\ owner' = "connecting"
  /\ next_state' = "CONNECT_CLIENT"
  /\ call' = Frame("DoLoop", kNone, OK)
  /\ UNCHANGED <<setupVars, connect_callback, full_duplex, earlyVars,
                 paddingVars, linkVars, bufferVars, codecVars, ioVars,
                 dataVars, reason, resume>>

\* DoLoop goes on to the next state, or returns ERR_IO_PENDING or a result
\* to Connect or OnIOComplete; the owner is told of a result either way.
LoopContinues(rv) ==
  /\ call' = Frame("DoLoop", kNone, rv)
  /\ UNCHANGED connect_callback

LoopPends ==
  /\ call' = NoCall
  /\ connect_callback' = TRUE

LoopReturns(rv) ==
  /\ call' = Frame("HandleConnectResult", kNone, rv)
  /\ connect_callback' = FALSE

LoopAt(state) == Calling("DoLoop") /\ next_state = state

\* HttpProxySocket reports the client's padding support before its Connect
\* completes; the other protocols never do (external here).
ClientDetected(rv) ==
  /\ detected_client' \in IF protocol = "kHttp" /\ rv = OK
                          THEN {kCapable, kIncapable} ELSE {detected_client}
  /\ UNCHANGED <<cached_server, padding_state_by_server, tunnel>>

DoConnectClient ==
  /\ LoopAt("CONNECT_CLIENT")
  /\ next_state' = "CONNECT_CLIENT_COMPLETE"
  /\ \/ /\ protocol # "kRedir"  \* a redirected socket is already connected
        /\ LoopPends
        /\ UNCHANGED paddingVars
     \/ \E rv \in {OK, ERR_CONNECTION_RESET} :
          LoopContinues(rv) /\ ClientDetected(rv)
  /\ UNCHANGED <<setupVars, full_duplex, earlyVars, linkVars, bufferVars,
                 codecVars, ioVars, dataVars, ownerVars, resume>>

\* OnIOComplete, called by the client socket.
ClientConnected ==
  /\ Idle /\ next_state = "CONNECT_CLIENT_COMPLETE"
  /\ \E rv \in {OK, ERR_CONNECTION_RESET} :
       LoopContinues(rv) /\ ClientDetected(rv)
  /\ UNCHANGED <<setupVars, next_state, full_duplex, earlyVars, linkVars,
                 bufferVars, codecVars, ioVars, dataVars, ownerVars, resume>>

DoConnectClientComplete ==
  /\ LoopAt("CONNECT_CLIENT_COMPLETE")
  /\ \/ /\ call.rv < 0
        /\ next_state' = "NONE"
        /\ LoopReturns(call.rv)
        /\ UNCHANGED <<early_pull_pending, early_pull_result, paddingVars, resume>>
     \/ /\ call.rv = OK /\ ~PaddingSupportKnown
        /\ early_pull_pending' = FALSE /\ early_pull_result' = 0
        /\ next_state' = "CONNECT_SERVER"
        /\ LoopContinues(OK)
        /\ CacheServerPaddingSupport
        /\ UNCHANGED resume
     \/ /\ call.rv = OK /\ PaddingSupportKnown
        /\ early_pull_pending' = TRUE
        /\ next_state' = "NONE"
        /\ call' = Frame("Pull", kClient, OK)
        /\ resume' = "DoConnectClientComplete"
        /\ CacheServerPaddingSupport
        /\ UNCHANGED <<early_pull_result, connect_callback>>
  /\ UNCHANGED <<setupVars, full_duplex, can_push_to_server, linkVars,
                 bufferVars, codecVars, ioVars, dataVars, ownerVars>>

\* The rest of DoConnectClientComplete, after Pull returned.
EarlyPullReturned ==
  /\ Returned /\ resume = "DoConnectClientComplete"
  /\ resume' = "none"
  /\ IF early_pull_result <= 0 /\ early_pull_result # ERR_IO_PENDING
     THEN /\ next_state' = "NONE"
          /\ LoopReturns(IF early_pull_result # 0 THEN early_pull_result
                         ELSE ERR_CONNECTION_CLOSED)
     ELSE /\ next_state' = "CONNECT_SERVER"
          /\ LoopContinues(OK)
  /\ UNCHANGED <<setupVars, full_duplex, earlyVars, paddingVars, linkVars,
                 bufferVars, codecVars, ioVars, dataVars, ownerVars>>

\* The origin may turn out invalid; the request may fail at once or be
\* pending; only a direct connection can succeed at once.
DoConnectServer ==
  /\ LoopAt("CONNECT_SERVER")
  /\ next_state' = "CONNECT_SERVER_COMPLETE"
  /\ \/ \E rv \in {ERR_ADDRESS_INVALID, ERR_CONNECTION_RESET} :
          LoopContinues(rv) /\ UNCHANGED tunnel
     \/ proxy = "direct" /\ LoopContinues(OK) /\ UNCHANGED tunnel
     \/ /\ LoopPends
        /\ tunnel' = IF proxy = "tunnel" THEN "connecting" ELSE tunnel
  /\ UNCHANGED <<setupVars, full_duplex, earlyVars, detected_client,
                 cached_server, padding_state_by_server, linkVars, bufferVars,
                 codecVars, ioVars, dataVars, ownerVars, resume>>

\* OnIOComplete, called by the server socket handle.  A tunnel is connected
\* when its reply came or, with Fast Open, when its request was sent.
ServerConnected ==
  /\ Idle /\ next_state = "CONNECT_SERVER_COMPLETE"
  /\ \E rv \in {OK, ERR_CONNECTION_RESET} :
       /\ rv = OK => proxy = "direct" \/ tunnel \in {"fastopen", "replied"}
       /\ LoopContinues(rv)
  /\ UNCHANGED <<setupVars, next_state, full_duplex, earlyVars, paddingVars,
                 linkVars, bufferVars, codecVars, ioVars, dataVars, ownerVars,
                 resume>>

DoConnectServerComplete ==
  /\ LoopAt("CONNECT_SERVER_COMPLETE")
  /\ next_state' = "NONE"
  /\ LoopReturns(call.rv)
  /\ IF call.rv < 0 THEN UNCHANGED <<sockets, full_duplex>>
     ELSE /\ sockets' = sockets \cup {kServer}
          /\ full_duplex' = TRUE
  /\ UNCHANGED <<setupVars, earlyVars, paddingVars, errors, write_pending,
                 run_callback, bufferVars, codecVars, ioVars, dataVars,
                 ownerVars, resume>>

\* Mutant: Fast Open from the first connection on.
UsesFastOpenAlways == TRUE

\* Fast Open is used once the padding support of the server is known.
UsesFastOpen == padding_state_by_server # kUnknown

\* NaiveProxyDelegate::OnBeforeTunnelRequest.
OnBeforeTunnelRequest ==
  /\ Idle /\ tunnel = "connecting" /\ next_state = "CONNECT_SERVER_COMPLETE"
  /\ tunnel' = IF UsesFastOpen THEN "fastopen" ELSE "requested"
  /\ UNCHANGED <<setupVars, connectVars, earlyVars, detected_client,
                 cached_server, padding_state_by_server, linkVars, bufferVars,
                 codecVars, ioVars, dataVars, ownerVars, stackVars>>

\* OnTunnelHeadersReceived, for this connection's tunnel ...
OnTunnelHeadersReceived ==
  /\ Idle /\ tunnel \in {"requested", "fastopen"}
  /\ next_state = "CONNECT_SERVER_COMPLETE" \/ kServer \in sockets
  /\ padding_state_by_server' \in {kCapable, kIncapable}
  /\ tunnel' = "replied"
  /\ UNCHANGED <<setupVars, connectVars, earlyVars, detected_client,
                 cached_server, linkVars, bufferVars, codecVars, ioVars,
                 dataVars, ownerVars, stackVars>>

\* ... and for the tunnel of another connection to the same proxy server.
OtherTunnelHeadersReceived ==
  /\ Idle /\ proxy = "tunnel"
  /\ padding_state_by_server' \in {kCapable, kIncapable} \ {padding_state_by_server}
  /\ UNCHANGED <<setupVars, connectVars, earlyVars, detected_client,
                 cached_server, tunnel, linkVars, bufferVars, codecVars,
                 ioVars, dataVars, ownerVars, stackVars>>

\* NaiveProxy::HandleConnectResult.
HandleConnectResult ==
  /\ Calling("HandleConnectResult")
  /\ IF call.rv # OK
     THEN Close(call.rv) /\ call' = NoCall
     ELSE owner' = "running" /\ UNCHANGED reason /\ call' = Frame("Run", kNone, OK)
  /\ UNCHANGED <<setupVars, connectVars, earlyVars, paddingVars, linkVars,
                 bufferVars, codecVars, ioVars, dataVars, resume>>

-----------------------------------------------------------------------------
\* Relaying.

\* Run: an error that is already known is returned, and the owner closes.
RunFails ==
  /\ Calling("Run") /\ \E s \in Sides : errors[s] # OK
  /\ Close(IF errors[kClient] # OK THEN errors[kClient] ELSE errors[kServer])
  /\ call' = NoCall
  /\ UNCHANGED <<setupVars, connectVars, earlyVars, paddingVars, linkVars,
                 bufferVars, codecVars, ioVars, dataVars, resume>>

\* Mutants: a pending early pull is started again; the early pull that was
\* never started is forgotten; the data of the early pull is forgotten.
StartClientTwice ==
  \/ /\ early_pull_result <= 0
     /\ call' = Frame("Pull", kClient, OK) /\ resume' = "Run"
  \/ /\ early_pull_result > 0
     /\ call' = Frame("Push", kClient, early_pull_result) /\ resume' = "Run"

StartClientNever ==
  \/ /\ ~early_pull_pending /\ early_pull_result # 0
     /\ call' = Frame("Push", kClient, early_pull_result) /\ resume' = "Run"
  \/ /\ early_pull_pending \/ early_pull_result = 0
     /\ call' = Frame("Pull", kServer, OK) /\ UNCHANGED resume

StartClientAnew ==
  \/ /\ ~early_pull_pending
     /\ call' = Frame("Pull", kClient, OK) /\ resume' = "Run"
  \/ /\ early_pull_pending
     /\ call' = Frame("Pull", kServer, OK) /\ UNCHANGED resume

\* Run's start of the direction from the client: an early pull that was not
\* started is made up for, one that completed is pushed, one that is pending
\* is left alone; Pull(kServer, kClient) comes after it.
StartClient ==
  \/ /\ ~early_pull_pending /\ early_pull_result = 0
     /\ call' = Frame("Pull", kClient, OK) /\ resume' = "Run"
  \/ /\ ~early_pull_pending /\ early_pull_result # 0
     /\ call' = Frame("Push", kClient, early_pull_result) /\ resume' = "Run"
  \/ /\ early_pull_pending
     /\ call' = Frame("Pull", kServer, OK) /\ UNCHANGED resume

Run ==
  /\ Calling("Run") /\ \A s \in Sides : errors[s] = OK
  /\ run_callback' = TRUE
  /\ can_push_to_server' = TRUE
  /\ StartClient
  /\ UNCHANGED <<setupVars, connectVars, early_pull_pending, early_pull_result,
                 paddingVars, sockets, errors, write_pending, bufferVars,
                 codecVars, ioVars, dataVars, ownerVars>>

\* The rest of Run, after the client's Pull or Push returned.
RunReturned ==
  /\ Returned /\ resume = "Run"
  /\ call' = Frame("Pull", kServer, OK) /\ resume' = "none"
  /\ UNCHANGED <<setupVars, connectVars, earlyVars, paddingVars, linkVars,
                 bufferVars, codecVars, ioVars, dataVars, ownerVars>>

\* Mutant: only the client's error is looked at.
FailedClient == errors[kClient] < 0

Failed == \E s \in Sides : errors[s] < 0

PullReturns ==
  /\ Calling("Pull") /\ Failed
  /\ call' = NoCall
  /\ UNCHANGED <<setupVars, connectVars, earlyVars, paddingVars, linkVars,
                 bufferVars, codecVars, ioVars, dataVars, ownerVars, resume>>

EarlyPull(d) == d = kClient /\ early_pull_pending

\* The result of a Read of d: its bytes are in the buffer.
ReadCompletes(d, kind, rv) ==
  /\ read_buffers' = [read_buffers EXCEPT ![d] = Buffer(kind, Received(d, rv))]
  /\ consumed' = [consumed EXCEPT ![d] = @ \o Received(d, rv)]
  /\ call' = Frame("OnPullComplete", d, rv)

Pull ==
  /\ Calling("Pull") /\ ~Failed
  /\ CacheServerPaddingSupport
  /\ LET d    == call.d
         kind == IF AddsPadding(d) THEN "growable" ELSE "plain"
     IN \/ /\ reading' = reading \cup {d}
           /\ read_buffers' = [read_buffers EXCEPT ![d] = Buffer(kind, <<>>)]
           /\ early_pull_result' = IF EarlyPull(d) THEN ERR_IO_PENDING
                                   ELSE early_pull_result
           /\ call' = NoCall
           /\ UNCHANGED consumed
        \/ \E rv \in ReadResults(d, kind) :
             /\ ReadCompletes(d, kind, rv)
             /\ early_pull_result' = IF EarlyPull(d) THEN rv
                                     ELSE early_pull_result
             /\ UNCHANGED reading
  /\ UNCHANGED <<setupVars, connectVars, early_pull_pending,
                 can_push_to_server, linkVars, write_buffers, codecVars,
                 writing, posted, output, ownerVars, resume>>

\* The message loop completes a Read.
ReadDone(d) ==
  /\ Idle /\ d \in reading
  /\ reading' = reading \ {d}
  /\ \E rv \in ReadResults(d, read_buffers[d].kind) :
       ReadCompletes(d, read_buffers[d].kind, rv)
  /\ UNCHANGED <<setupVars, connectVars, earlyVars, paddingVars, linkVars,
                 write_buffers, codecVars, writing, posted, output, ownerVars,
                 resume>>

\* The run callback is told of an error that is not the end of a stream.
BothDisconnectedResult(errs) ==
  LET ofClient == IF errs[kClient] # ERR_CONNECTION_CLOSED /\ errs[kClient] < 0
                  THEN errs[kClient] ELSE OK
  IN IF errs[kServer] # ERR_CONNECTION_CLOSED /\ errs[kClient] < 0
     THEN errs[kServer] ELSE ofClient

\* The run callback is NaiveProxy::OnRunComplete, which closes.
OnBothDisconnected(errs) ==
  IF run_callback
  THEN run_callback' = FALSE /\ Close(BothDisconnectedResult(errs))
  ELSE UNCHANGED <<run_callback, ownerVars>>

\* Disconnect(side) for the sides in closed, and what OnPullError and
\* OnPushError do last; wp and errs are write_pending_ and errors_ before.  A
\* disconnected socket drops its outstanding operations.
Disconnect(closed, wp, errs) ==
  /\ sockets' = sockets \ closed
  /\ write_pending' = wp \ (closed \cap sockets)
  /\ errors' = errs
  /\ reading' = reading \ closed
  /\ writing' = writing \ closed
  /\ IF sockets \subseteq closed THEN OnBothDisconnected(errs)
     ELSE UNCHANGED <<run_callback, ownerVars>>

\* Mutant: the other side is left connected, to be closed by its next write.
OnPullErrorHalf(from, to, error) ==
  Disconnect({from}, write_pending, [errors EXCEPT ![from] = error])

OnPullError(from, to, error) ==
  Disconnect({from} \cup ({to} \ write_pending), write_pending,
             [errors EXCEPT ![from] = error])

\* wp is write_pending_ as OnPushComplete left it.
OnPushError(from, to, error, wp) ==
  IF error < 0 THEN Disconnect(Sides, wp, [errors EXCEPT ![to] = error])
  ELSE Disconnect(IF from \notin sockets THEN {to} ELSE {}, wp, errors)

OnPullComplete ==
  /\ Calling("OnPullComplete")
  /\ LET d == call.d
         result == call.rv
         ended  == IF result # 0 THEN result ELSE ERR_CONNECTION_CLOSED
     IN /\ IF EarlyPull(d)
           THEN early_pull_pending' = FALSE /\ early_pull_result' = ended
           ELSE UNCHANGED <<early_pull_pending, early_pull_result>>
        /\ \/ /\ result <= 0
              /\ OnPullError(d, Other(d), ended)
              /\ call' = NoCall
           \/ /\ result > 0
              /\ call' = IF d = kClient /\ ~can_push_to_server THEN NoCall
                         ELSE Frame("Push", d, result)
              /\ UNCHANGED <<linkVars, reading, writing, ownerVars>>
  /\ UNCHANGED <<setupVars, connectVars, can_push_to_server, paddingVars,
                 bufferVars, codecVars, posted, dataVars, resume>>

\* sockets_[to]->Write(bytes) in direction d.
Write(d, bytes) ==
  \/ /\ writing' = writing \cup {Other(d)}
     /\ call' = NoCall
     /\ UNCHANGED output
  \/ \E rv \in WriteResults(bytes) :
       /\ output' = [output EXCEPT ![Other(d)] = @ \o Accepted(rv, bytes)]
       /\ call' = Frame("OnPushComplete", d, rv)
       /\ UNCHANGED writing

\* The part of Push after padding was added or removed: bytes is what the
\* write buffer takes over from the read buffer.
PushBytes(d, bytes) ==
  /\ read_buffers' = [read_buffers EXCEPT ![d] = Buffer("none", <<>>)]
  /\ write_buffers' = [write_buffers EXCEPT ![Other(d)] = bytes]
  /\ write_pending' = write_pending \cup {Other(d)}
  /\ Write(d, bytes)

Push ==
  /\ Calling("Push")
  /\ CacheServerPaddingSupport
  /\ LET d == call.d
         data == read_buffers[d].data
         r == RemovePadding(Unpadder(d), data)
     IN \/ /\ AddsPadding(d)
           /\ num_paddings' = [num_paddings EXCEPT ![d] = @ + 1]
           /\ \E pad \in PaddingSizes : PushBytes(d, AddPadding(data, pad))
           /\ UNCHANGED parser
        \/ /\ RemovesPadding(d)
           /\ num_paddings' = [num_paddings EXCEPT ![d] = r.u.num_paddings]
           /\ parser' = ParserOf(r.u)
           /\ IF r.out = <<>>
              THEN /\ read_buffers' = [read_buffers EXCEPT ![d].data = <<>>]
                   /\ call' = Frame("OnPushComplete", d, OK)
                   /\ UNCHANGED <<write_buffers, write_pending, writing, output>>
              ELSE PushBytes(d, r.out)
        \/ /\ ~AddsPadding(d) /\ ~RemovesPadding(d)
           /\ PushBytes(d, data)
           /\ UNCHANGED codecVars
  /\ UNCHANGED <<setupVars, connectVars, earlyVars, sockets, errors,
                 run_callback, reading, posted, consumed, ownerVars, resume>>

\* The message loop completes a Write to s.
WriteDone(s) ==
  /\ Idle /\ s \in writing
  /\ writing' = writing \ {s}
  /\ \E rv \in WriteResults(write_buffers[s]) :
       /\ output' = [output EXCEPT ![s] = @ \o Accepted(rv, write_buffers[s])]
       /\ call' = Frame("OnPushComplete", Other(s), rv)
  /\ UNCHANGED <<setupVars, connectVars, earlyVars, paddingVars, linkVars,
                 bufferVars, codecVars, reading, posted, consumed, ownerVars,
                 resume>>

\* Mutant: a short write counts as a whole one.
RemainingNone(to, result) == <<>>

\* What DidConsume(result) leaves of the write buffer.
Remaining(to, result) ==
  SubSeq(write_buffers[to], result + 1, Len(write_buffers[to]))

\* OnPushComplete of a partial write: the rest is written.
PushContinues ==
  /\ Calling("OnPushComplete") /\ call.rv >= 0
  /\ LET to   == Other(call.d)
         rest == Remaining(to, call.rv)
     IN /\ rest # <<>>
        /\ write_buffers' = [write_buffers EXCEPT ![to] = rest]
        /\ Write(call.d, rest)
  /\ UNCHANGED <<setupVars, connectVars, earlyVars, paddingVars, linkVars,
                 read_buffers, codecVars, reading, posted, consumed,
                 ownerVars, resume>>

\* OnPushComplete of a whole or failed write: the next Pull is called, or
\* posted when the direction used up its bytes or its time (the choice is
\* left open, since the clock may have passed yield_after_time_).
OnPushComplete ==
  /\ Calling("OnPushComplete")
  /\ LET d  == call.d
         to == Other(d)
     IN /\ call.rv >= 0 => Remaining(to, call.rv) = <<>>
        /\ write_buffers' = IF call.rv < 0 THEN write_buffers
                            ELSE [write_buffers EXCEPT ![to] = <<>>]
        /\ OnPushError(d, to, IF call.rv >= 0 THEN OK ELSE call.rv,
                       write_pending \ {to})
        /\ \/ /\ posted' = [posted EXCEPT ![d] = @ + 1]
              /\ call' = NoCall
           \/ /\ call' = Frame("Pull", d, OK)
              /\ UNCHANGED posted
  /\ UNCHANGED <<setupVars, connectVars, earlyVars, paddingVars, read_buffers,
                 codecVars, dataVars, resume>>

\* The message loop runs a posted Pull.
PostedPull(d) ==
  /\ Idle /\ posted[d] > 0
  /\ posted' = [posted EXCEPT ![d] = @ - 1]
  /\ call' = Frame("Pull", d, OK)
  /\ UNCHANGED <<setupVars, connectVars, earlyVars, paddingVars, linkVars,
                 bufferVars, codecVars, reading, writing, dataVars, ownerVars,
                 resume>>

\* The message loop runs the task posted by DeleteSoon: the destructor
\* disconnects, and callbacks bound to a weak pointer no longer run.
Delete ==
  /\ Idle /\ owner = "closed"
  /\ owner' = "deleted"
  /\ full_duplex' = FALSE /\ next_state' = "NONE"
  /\ connect_callback' = FALSE /\ run_callback' = FALSE
  /\ reading' = {} /\ writing' = {}
  /\ posted' = [d \in Sides |-> 0]
  /\ UNCHANGED <<setupVars, earlyVars, paddingVars, sockets, errors,
                 write_pending, bufferVars, codecVars, dataVars, reason,
                 stackVars>>

\* A deleted connection does nothing more.
Deleted == owner = "deleted" /\ UNCHANGED vars

ConnectStep ==
  \/ DoConnectClient \/ DoConnectClientComplete \/ EarlyPullReturned
  \/ DoConnectServer \/ DoConnectServerComplete \/ HandleConnectResult

RelayStep ==
  \/ Run \/ RunFails \/ RunReturned
  \/ Pull \/ PullReturns \/ OnPullComplete
  \/ Push \/ PushContinues \/ OnPushComplete

Event ==
  \/ Connect \/ ClientConnected \/ ServerConnected \/ Delete
  \/ OnBeforeTunnelRequest \/ OnTunnelHeadersReceived
  \/ OtherTunnelHeadersReceived
  \/ \E s \in Sides : ReadDone(s) \/ WriteDone(s) \/ PostedPull(s)

Next == ConnectStep \/ RelayStep \/ Event \/ Deleted

\* The thread finishes every call it started and runs the tasks posted to it;
\* a connection attempt is decided sooner or later (connect jobs time out).
\* No fairness for the peers: a Read, a Write and the client's handshake may
\* stay pending forever.
Fairness ==
  /\ WF_vars(ConnectStep \/ RelayStep)
  /\ WF_vars(ServerConnected)
  /\ WF_vars(Delete)

Spec == Init /\ [][Next]_vars /\ Fairness

-----------------------------------------------------------------------------
\* Properties.

Ops == {"none", "DoLoop", "HandleConnectResult", "Run",
        "Pull", "OnPullComplete", "Push", "OnPushComplete"}
RelayOps == {"Pull", "OnPullComplete", "Push", "OnPushComplete"}

ControlTypeOK ==
  /\ protocol \in {"kSocks5", "kHttp", "kRedir"}
  /\ proxy \in {"tunnel", "direct"}
  /\ next_state \in {"NONE", "CONNECT_CLIENT", "CONNECT_CLIENT_COMPLETE",
                     "CONNECT_SERVER", "CONNECT_SERVER_COMPLETE"}
  /\ connect_callback \in BOOLEAN /\ run_callback \in BOOLEAN
  /\ full_duplex \in BOOLEAN
  /\ early_pull_pending \in BOOLEAN /\ can_push_to_server \in BOOLEAN
  /\ early_pull_result \in Nat \cup Errors \cup {ERR_IO_PENDING}
  /\ detected_client \in PaddingSupport /\ cached_server \in PaddingSupport
  /\ padding_state_by_server \in PaddingSupport
  /\ tunnel \in {"none", "connecting", "requested", "fastopen", "replied"}
  /\ sockets \subseteq Sides /\ write_pending \subseteq Sides
  /\ errors \in [Sides -> Errors \cup {OK}]
  /\ reading \subseteq Sides /\ writing \subseteq Sides
  /\ posted \in [Sides -> Nat]
  /\ owner \in {"new", "connecting", "running", "closed", "deleted"}
  /\ reason \in Errors \cup {OK}
  /\ call \in [op : Ops, d : Sides \cup {kNone}, rv : Nat \cup Errors]
  /\ resume \in {"none", "DoConnectClientComplete", "Run"}

DataTypeOK ==
  /\ read_buffers \in [Sides -> [kind : BufferKinds, data : Seq(Nat)]]
  /\ write_buffers \in [Sides -> Seq(Nat)]
  /\ num_paddings \in [Sides -> 0..kFirstPaddings]
  /\ parser \in [state : PaddingStates, payload_length : Nat,
                 padding_length : Nat]
  /\ consumed \in [Sides -> Seq(Nat)] /\ output \in [Sides -> Seq(Nat)]

TypeOK == ControlTypeOK /\ DataTypeOK

\* How many things direction d is doing: an outstanding Read or Write, posted
\* Pulls, or a handler on the stack.
One(b) == IF b THEN 1 ELSE 0
Activity(d) ==
  One(d \in reading) + One(Other(d) \in writing) + posted[d]
    + One(call.op \in RelayOps /\ call.d = d)

(***************************************************************************)
(* A direction never does two things at once: no Read or Write is issued   *)
(* while one is outstanding and read_buffers_ / write_buffers_ are never   *)
(* replaced under an operation that uses them, whatever the interleaving   *)
(* of the early pull, Run, synchronous completions and posted Pulls.       *)
(***************************************************************************)
NoOverlappingOperations == \A d \in Sides : Activity(d) <= 1

(***************************************************************************)
(* While the run callback is set no direction is stalled: each has a Read, *)
(* a Write or a posted Pull that will wake it up (Run starts the client's  *)
(* direction in whichever of the three states the early pull left it).     *)
(***************************************************************************)
NoStalledDirection ==
  run_callback /\ Returned /\ resume = "none" =>
    \A d \in Sides : Activity(d) = 1

(***************************************************************************)
(* The DCHECKs on sockets_ in Pull and Push, and the unchecked use in      *)
(* OnPushComplete: no handler that runs late (a posted Pull, a completion  *)
(* after the other direction failed) touches a socket that was dropped.    *)
(***************************************************************************)
SocketsUsable ==
  /\ Calling("Pull") /\ ~Failed => call.d \in sockets
  /\ Calling("Push") => Other(call.d) \in sockets
  /\ Calling("OnPushComplete") => Other(call.d) \in sockets

(***************************************************************************)
(* The CHECKs of GetPaddingDirection: padding support is known whenever a  *)
(* buffer is read or written, with Fast Open too, where the connection is  *)
(* used before the server's reply.                                         *)
(***************************************************************************)
PaddingKnown ==
  (Calling("Pull") /\ ~Failed) \/ Calling("Push") => PaddingSupportKnown

(***************************************************************************)
(* Push finds the buffer that the matching Pull filled: as many bytes as   *)
(* it is told (early_pull_result_ is read long after the early pull), and  *)
(* when it frames them in place a GrowableIOBuffer with enough room, since *)
(* the decision to pad is the one taken by Pull.                           *)
(***************************************************************************)
PushBufferValid ==
  Calling("Push") =>
    /\ Len(read_buffers[call.d].data) = call.rv /\ call.rv > 0
    /\ AddsPadding(call.d) =>
         /\ read_buffers[call.d].kind = "growable"
         /\ \A pad \in PaddingSizes :
              Len(AddPadding(read_buffers[call.d].data, pad)) <= kBufferSize

(***************************************************************************)
(* Once a connection knows both sides its padding direction never changes, *)
(* although other connections go on updating what the delegate knows.      *)
(***************************************************************************)
StablePaddingDirection ==
  [][cached_server # kUnknown /\ GetClientPaddingSupport # kUnknown =>
       GetPaddingDirection' = GetPaddingDirection]_vars

\* The payload taken from d and the payload given to the other side.
PayloadTaken(d) ==
  IF Other(d) = GetPaddingDirection THEN Payload(consumed[d]) ELSE consumed[d]
PayloadGiven(d) ==
  IF d = GetPaddingDirection THEN Payload(output[Other(d)]) ELSE output[Other(d)]

Relay == INSTANCE ByteRelay
  WITH Lanes <- Sides,
       taken <- [d \in Sides |-> PayloadTaken(d)],
       given <- [d \in Sides |-> PayloadGiven(d)],
       open  <- ~Failed /\ owner # "deleted"

(***************************************************************************)
(* The connection implements ByteRelay: through partial reads and writes,  *)
(* padding in either role, early data and yields, each direction gives     *)
(* exactly what it took, in order, one buffer at a time, and nothing moves *)
(* after an error.                                                         *)
(***************************************************************************)
RelaysBytes == Relay!Spec

(***************************************************************************)
(* When side d ended its stream, everything it had sent was given to the   *)
(* other side before both sockets were disconnected.                       *)
(***************************************************************************)
EndOfStreamFlushes ==
  \A d \in Sides :
    errors[d] = ERR_CONNECTION_CLOSED => PayloadGiven(d) = PayloadTaken(d)

(***************************************************************************)
(* DCHECK(sockets_[kClient]) at the start of Run.                          *)
(***************************************************************************)
RunHasClient == Calling("Run") => kClient \in sockets

(***************************************************************************)
(* A connection that is closed as OK met no error other than the end of a  *)
(* stream: the callback given to Run reports the network error, if any.    *)
(***************************************************************************)
ErrorIsReported ==
  owner = "closed" /\ reason = OK =>
    \A s \in Sides : errors[s] \in {OK, ERR_CONNECTION_CLOSED}

(***************************************************************************)
(* A connection with an error is eventually deleted, whichever handler met *)
(* the error and whatever was pending then (an early pull that fails while *)
(* the server is being connected has nobody to tell: Run must find it).    *)
(***************************************************************************)
FailureIsFinal == Failed ~> owner = "deleted"
=============================================================================
