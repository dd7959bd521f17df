-------------------- MODULE NaiveConnectionPaddingProofs --------------------
(***************************************************************************)
(* Proofs that a connection of NaiveConnection knows its padding direction *)
(* when it needs it and never changes it, for every protocol, proxy,       *)
(* stream of bytes and padding parameters.                                 *)
(***************************************************************************)
EXTENDS NaiveConnection, TLAPS

\* The connection is relaying, is about to, or has started the early pull.
Relaying ==
  \/ can_push_to_server \/ resume # "none"
  \/ reading # {} \/ writing # {} \/ \E d \in Sides : posted[d] > 0
  \/ call.op \in RelayOps \cup {"Run"}
  \/ Calling("HandleConnectResult") /\ call.rv = OK

\* The client's handshake succeeded and the server is being connected.
ClientIsConnected ==
  \/ next_state \in {"CONNECT_SERVER", "CONNECT_SERVER_COMPLETE"}
  \/ LoopAt("CONNECT_CLIENT_COMPLETE") /\ call.rv = OK

\* The client's handshake has not completed yet.
ClientIsConnecting ==
  owner = "new" \/ next_state \in {"CONNECT_CLIENT", "CONNECT_CLIENT_COMPLETE"}

\* A tunnel that is in use told what its server supports; nothing is cached or
\* relayed while the client is connecting, its support is known afterwards,
\* the server's when it is connected, and both once bytes may be moved.
PaddingInv ==
  /\ protocol \in {"kSocks5", "kHttp", "kRedir"}
  /\ tunnel \in {"fastopen", "replied"} => padding_state_by_server # kUnknown
  /\ ClientIsConnecting => cached_server = kUnknown /\ ~Relaying
  /\ owner = "new" => Returned /\ next_state = "NONE"
  /\ ClientIsConnected => GetClientPaddingSupport # kUnknown
  /\ LoopAt("CONNECT_SERVER_COMPLETE") /\ call.rv = OK =>
       GetServerPaddingSupport # kUnknown
  /\ Relaying => PaddingSupportKnown

USE DEF kUnknown, kCapable, kIncapable, OK, ERR_CONNECTION_RESET,
        ERR_ADDRESS_INVALID, ERR_CONNECTION_CLOSED

-----------------------------------------------------------------------------
\* Remembering the server's support does not change the answers.
LEMMA SameSupport ==
  ASSUME UNCHANGED setupVars,
         UNCHANGED paddingVars \/ CacheServerPaddingSupport
  PROVE  /\ GetClientPaddingSupport' = GetClientPaddingSupport
         /\ GetServerPaddingSupport' = GetServerPaddingSupport
         /\ UNCHANGED <<detected_client, padding_state_by_server, tunnel>>
BY DEF setupVars, paddingVars, CacheServerPaddingSupport,
       GetClientPaddingSupport, GetServerPaddingSupport,
       GetProxyServerPaddingSupport

\* A step of a relaying connection, whatever it does to the streams.
LEMMA RelayingKeeps ==
  ASSUME PaddingInv, Relaying,
         UNCHANGED <<setupVars, next_state>>,
         UNCHANGED paddingVars \/ CacheServerPaddingSupport,
         owner' \in {owner, "running", "closed"},
         call'.op # "DoLoop"
  PROVE  PaddingInv'
<1>1. /\ GetClientPaddingSupport' = GetClientPaddingSupport
      /\ GetServerPaddingSupport' = GetServerPaddingSupport
      /\ UNCHANGED <<detected_client, padding_state_by_server, tunnel>>
  BY SameSupport
<1>2. PaddingSupportKnown /\ PaddingSupportKnown'
  BY <1>1 DEF PaddingInv, PaddingSupportKnown
<1>3. ~ClientIsConnecting /\ ~ClientIsConnecting' /\ owner' # "new"
  BY DEF PaddingInv, ClientIsConnecting
<1>4. /\ ~LoopAt("CONNECT_SERVER_COMPLETE")'
      /\ ClientIsConnected' => GetClientPaddingSupport' # kUnknown
  BY <1>2 DEF LoopAt, Calling, PaddingSupportKnown
<1> QED
  BY <1>1, <1>2, <1>3, <1>4 DEF PaddingInv, setupVars

LEMMA PaddingInitInv == Init => PaddingInv
BY ProtocolsAssumption
   DEF Init, PaddingInv, ClientIsConnecting, ClientIsConnected, Relaying,
       LoopAt, Calling, Returned, NoCall, Frame, RelayOps, Sides, kClient, kServer

-----------------------------------------------------------------------------
\* The steps that move bytes.

LEMMA ReadCompletesCalls ==
  ASSUME NEW d, NEW kind, NEW rv, ReadCompletes(d, kind, rv)
  PROVE  call'.op # "DoLoop"
BY DEF ReadCompletes, Frame

LEMMA WriteCalls ==
  ASSUME NEW d, NEW bytes, Write(d, bytes)
  PROVE  call'.op # "DoLoop"
BY DEF Write, Frame, NoCall

LEMMA PushCalls ==
  ASSUME NEW d, NEW bytes, PushBytes(d, bytes)
  PROVE  call'.op # "DoLoop"
BY WriteCalls DEF PushBytes

LEMMA RelayStepKeeps == PaddingInv /\ RelayStep => PaddingInv'
<1> SUFFICES ASSUME PaddingInv, RelayStep PROVE PaddingInv'
  OBVIOUS
<1> USE DEF Calling, Returned, Frame, NoCall, Relaying, RelayOps
<1>1. CASE Run
  BY <1>1, RelayingKeeps DEF Run, StartClient, connectVars, ownerVars
<1>2. CASE RunFails
  BY <1>2, RelayingKeeps DEF RunFails, Close, connectVars, ownerVars
<1>3. CASE RunReturned
  BY <1>3, RelayingKeeps DEF RunReturned, connectVars, ownerVars
<1>4. CASE Pull
  <2>1. call'.op # "DoLoop"
    BY <1>4, ReadCompletesCalls DEF Pull
  <2> QED
    BY <1>4, <2>1, RelayingKeeps DEF Pull, connectVars, ownerVars
<1>5. CASE PullReturns
  BY <1>5, RelayingKeeps DEF PullReturns, connectVars, ownerVars
<1>6. CASE OnPullComplete
  <2>1. call'.op # "DoLoop"
    BY <1>6 DEF OnPullComplete
  <2>2. owner' \in {owner, "closed"}
    BY <1>6 DEF OnPullComplete, OnPullError, Disconnect, OnBothDisconnected,
                Close, ownerVars
  <2> QED
    BY <1>6, <2>1, <2>2, RelayingKeeps DEF OnPullComplete, connectVars
<1>7. CASE Push
  <2>1. call'.op # "DoLoop"
    BY <1>7, PushCalls DEF Push
  <2> QED
    BY <1>7, <2>1, RelayingKeeps DEF Push, connectVars, ownerVars
<1>8. CASE PushContinues
  <2>1. call'.op # "DoLoop"
    BY <1>8, WriteCalls DEF PushContinues
  <2> QED
    BY <1>8, <2>1, RelayingKeeps DEF PushContinues, connectVars, ownerVars
<1>9. CASE OnPushComplete
  <2>1. call'.op # "DoLoop"
    BY <1>9 DEF OnPushComplete
  <2>2. owner' \in {owner, "closed"}
    BY <1>9 DEF OnPushComplete, OnPushError, Disconnect, OnBothDisconnected,
                Close, ownerVars
  <2> QED
    BY <1>9, <2>1, <2>2, RelayingKeeps DEF OnPushComplete, connectVars
<1> QED
  BY <1>1, <1>2, <1>3, <1>4, <1>5, <1>6, <1>7, <1>8, <1>9 DEF RelayStep

LEMMA RelayEventKeeps ==
  ASSUME PaddingInv, NEW s \in Sides, ReadDone(s) \/ WriteDone(s) \/ PostedPull(s)
  PROVE  PaddingInv'
<1> USE DEF Frame, NoCall, Relaying
<1>1. CASE ReadDone(s)
  <2>1. call'.op # "DoLoop"
    BY <1>1, ReadCompletesCalls DEF ReadDone
  <2> QED
    BY <1>1, <2>1, RelayingKeeps DEF ReadDone, connectVars, ownerVars
<1>2. CASE WriteDone(s)
  <2>1. call'.op # "DoLoop"
    BY <1>2 DEF WriteDone
  <2> QED
    BY <1>2, <2>1, RelayingKeeps DEF WriteDone, connectVars, ownerVars
<1>3. CASE PostedPull(s)
  <2>1. call'.op # "DoLoop"
    BY <1>3 DEF PostedPull
  <2> QED
    BY <1>3, <2>1, RelayingKeeps DEF PostedPull, connectVars, ownerVars
<1> QED
  BY <1>1, <1>2, <1>3

-----------------------------------------------------------------------------
\* The steps that connect.

\* A connection that is not relaying goes on connecting.
LEMMA StillConnecting ==
  ASSUME ~Relaying, UNCHANGED <<can_push_to_server, resume, ioVars>>,
         \/ call'.op \in {"none", "DoLoop"}
         \/ call'.op = "HandleConnectResult" /\ call'.rv # OK
  PROVE  ~Relaying'
BY DEF Relaying, ioVars, Calling, RelayOps

\* What is known of both sides after a step that detects nothing.
LEMMA SameKnown ==
  ASSUME UNCHANGED setupVars,
         UNCHANGED paddingVars \/ CacheServerPaddingSupport
  PROVE  PaddingSupportKnown' = PaddingSupportKnown
BY SameSupport DEF PaddingSupportKnown

LEMMA DoConnectClientKeeps == PaddingInv /\ DoConnectClient => PaddingInv'
<1> SUFFICES ASSUME PaddingInv, DoConnectClient PROVE PaddingInv'
  OBVIOUS
<1>1. /\ UNCHANGED <<protocol, can_push_to_server, ioVars, owner, resume,
                     cached_server, padding_state_by_server, tunnel>>
      /\ next_state' = "CONNECT_CLIENT_COMPLETE"
      /\ LoopAt("CONNECT_CLIENT")
      /\ call'.op \in {"DoLoop", "none"}
  BY DEF DoConnectClient, ClientDetected, paddingVars, setupVars, ownerVars,
         earlyVars, LoopPends, LoopContinues, Frame, NoCall
<1>2. call'.op = "DoLoop" /\ call'.rv = OK => GetClientPaddingSupport' # kUnknown
  BY <1>1 DEF PaddingInv, DoConnectClient, ClientDetected, LoopPends,
              LoopContinues, Frame, NoCall, GetClientPaddingSupport
<1>3. ClientIsConnecting /\ owner # "new"
  BY <1>1 DEF ClientIsConnecting, LoopAt, PaddingInv, Returned, Calling
<1>4. ~Relaying'
  BY <1>1, <1>3, StillConnecting DEF PaddingInv
<1> QED
  BY <1>1, <1>2, <1>3, <1>4
     DEF PaddingInv, ClientIsConnected, ClientIsConnecting, LoopAt, Calling

LEMMA ClientConnectedKeeps == PaddingInv /\ ClientConnected => PaddingInv'
<1> SUFFICES ASSUME PaddingInv, ClientConnected PROVE PaddingInv'
  OBVIOUS
<1>1. /\ UNCHANGED <<protocol, next_state, can_push_to_server, ioVars, owner,
                     resume, cached_server, padding_state_by_server, tunnel>>
      /\ next_state = "CONNECT_CLIENT_COMPLETE"
      /\ call'.op = "DoLoop"
  BY DEF ClientConnected, ClientDetected, paddingVars, setupVars, ownerVars,
         earlyVars, LoopContinues, Frame
<1>2. call'.rv = OK => GetClientPaddingSupport' # kUnknown
  BY <1>1 DEF PaddingInv, ClientConnected, ClientDetected, LoopContinues,
              Frame, GetClientPaddingSupport
<1>3. ClientIsConnecting /\ owner # "new"
  BY <1>1 DEF ClientIsConnecting, PaddingInv
<1>4. ~Relaying'
  BY <1>1, <1>3, StillConnecting DEF PaddingInv
<1> QED
  BY <1>1, <1>2, <1>3, <1>4
     DEF PaddingInv, ClientIsConnected, ClientIsConnecting, LoopAt, Calling

LEMMA DoConnectClientCompleteKeeps ==
  PaddingInv /\ DoConnectClientComplete => PaddingInv'
<1> SUFFICES ASSUME PaddingInv, DoConnectClientComplete PROVE PaddingInv'
  OBVIOUS
<1>1. /\ UNCHANGED <<setupVars, can_push_to_server, ioVars, owner>>
      /\ LoopAt("CONNECT_CLIENT_COMPLETE")
      /\ UNCHANGED paddingVars \/ CacheServerPaddingSupport
  BY DEF DoConnectClientComplete, ownerVars
<1>2. /\ GetClientPaddingSupport' = GetClientPaddingSupport
      /\ UNCHANGED <<padding_state_by_server, tunnel, protocol>>
      /\ PaddingSupportKnown' = PaddingSupportKnown
  BY <1>1, SameSupport, SameKnown DEF setupVars
<1>3. ~Relaying /\ owner # "new"
  BY <1>1 DEF ClientIsConnecting, LoopAt, PaddingInv, Returned, Calling
<1>4. \/ /\ next_state' = "NONE" /\ UNCHANGED resume
         /\ call'.op = "HandleConnectResult" /\ call'.rv # OK
      \/ /\ next_state' = "CONNECT_SERVER" /\ UNCHANGED resume
         /\ call'.op = "DoLoop" /\ call.rv = OK
      \/ /\ next_state' = "NONE" /\ PaddingSupportKnown
         /\ call'.op = "Pull"
  BY DEF DoConnectClientComplete, LoopReturns, LoopContinues, Frame
<1>5. next_state' = "CONNECT_SERVER" => GetClientPaddingSupport' # kUnknown
  BY <1>1, <1>2, <1>4 DEF PaddingInv, ClientIsConnected
<1>6. Relaying' => PaddingSupportKnown'
  BY <1>1, <1>2, <1>3, <1>4, StillConnecting
<1> QED
  BY <1>1, <1>2, <1>3, <1>4, <1>5, <1>6
     DEF PaddingInv, ClientIsConnected, ClientIsConnecting, LoopAt, Calling

LEMMA EarlyPullReturnedKeeps == PaddingInv /\ EarlyPullReturned => PaddingInv'
<1> SUFFICES ASSUME PaddingInv, EarlyPullReturned PROVE PaddingInv'
  OBVIOUS
<1>1. /\ UNCHANGED <<setupVars, paddingVars, owner>>
      /\ next_state' \in {"NONE", "CONNECT_SERVER"}
      /\ resume = "DoConnectClientComplete"
  BY DEF EarlyPullReturned, ownerVars
<1>2. /\ GetClientPaddingSupport' = GetClientPaddingSupport
      /\ UNCHANGED <<padding_state_by_server, tunnel, protocol>>
      /\ PaddingSupportKnown' = PaddingSupportKnown
  BY <1>1, SameSupport, SameKnown DEF setupVars
<1>3. PaddingSupportKnown /\ owner # "new"
  BY <1>1 DEF Relaying, PaddingInv, ClientIsConnecting
<1> QED
  BY <1>1, <1>2, <1>3
     DEF PaddingInv, PaddingSupportKnown, ClientIsConnected,
         ClientIsConnecting, LoopAt

LEMMA DoConnectServerKeeps == PaddingInv /\ DoConnectServer => PaddingInv'
<1> SUFFICES ASSUME PaddingInv, DoConnectServer PROVE PaddingInv'
  OBVIOUS
<1>1. /\ UNCHANGED <<protocol, proxy, can_push_to_server, ioVars, owner, resume,
                     detected_client, cached_server, padding_state_by_server>>
      /\ tunnel' \in {tunnel, "connecting"}
      /\ LoopAt("CONNECT_SERVER")
      /\ next_state' = "CONNECT_SERVER_COMPLETE"
      /\ call'.op \in {"DoLoop", "none"}
      /\ call'.op = "DoLoop" /\ call'.rv = OK => proxy = "direct"
  BY DEF DoConnectServer, setupVars, earlyVars, ownerVars, LoopContinues,
         LoopPends, Frame, NoCall
<1>2. /\ GetClientPaddingSupport' = GetClientPaddingSupport
      /\ GetServerPaddingSupport' = GetServerPaddingSupport
  BY <1>1 DEF GetClientPaddingSupport, GetServerPaddingSupport,
              GetProxyServerPaddingSupport
<1>3. GetClientPaddingSupport # kUnknown /\ owner # "new"
  BY <1>1 DEF PaddingInv, ClientIsConnected, LoopAt, Returned, Calling
<1>4. proxy = "direct" => GetServerPaddingSupport # kUnknown
  BY DEF GetServerPaddingSupport, GetProxyServerPaddingSupport
<1>5. Relaying' => Relaying
  BY <1>1, StillConnecting
<1> QED
  BY <1>1, <1>2, <1>3, <1>4, <1>5
     DEF PaddingInv, PaddingSupportKnown, ClientIsConnected,
         ClientIsConnecting, LoopAt, Calling

LEMMA ServerConnectedKeeps == PaddingInv /\ ServerConnected => PaddingInv'
<1> SUFFICES ASSUME PaddingInv, ServerConnected PROVE PaddingInv'
  OBVIOUS
<1>1. /\ UNCHANGED <<setupVars, paddingVars, next_state, can_push_to_server,
                     ioVars, owner, resume>>
      /\ next_state = "CONNECT_SERVER_COMPLETE"
      /\ call'.op = "DoLoop"
      /\ call'.rv = OK => proxy = "direct" \/ tunnel \in {"fastopen", "replied"}
  BY DEF ServerConnected, ownerVars, earlyVars, LoopContinues, Frame
<1>2. /\ GetClientPaddingSupport' = GetClientPaddingSupport
      /\ GetServerPaddingSupport' = GetServerPaddingSupport
      /\ PaddingSupportKnown' = PaddingSupportKnown
      /\ UNCHANGED <<cached_server, padding_state_by_server, tunnel, protocol>>
  BY <1>1, SameSupport, SameKnown DEF setupVars, paddingVars
<1>3. call'.rv = OK => GetServerPaddingSupport # kUnknown
  BY <1>1 DEF PaddingInv, GetServerPaddingSupport, GetProxyServerPaddingSupport
<1>4. Relaying' => Relaying
  BY <1>1, StillConnecting
<1>5. owner # "new" /\ ~ClientIsConnecting'
  BY <1>1 DEF PaddingInv, ClientIsConnecting
<1> QED
  BY <1>1, <1>2, <1>3, <1>4, <1>5
     DEF PaddingInv, ClientIsConnected, LoopAt, Calling

LEMMA DoConnectServerCompleteKeeps ==
  PaddingInv /\ DoConnectServerComplete => PaddingInv'
<1> SUFFICES ASSUME PaddingInv, DoConnectServerComplete PROVE PaddingInv'
  OBVIOUS
<1>1. /\ UNCHANGED <<setupVars, paddingVars, can_push_to_server, ioVars, owner,
                     resume>>
      /\ LoopAt("CONNECT_SERVER_COMPLETE") /\ next_state' = "NONE"
      /\ call'.op = "HandleConnectResult" /\ call'.rv = call.rv
  BY DEF DoConnectServerComplete, ownerVars, earlyVars, LoopReturns, Frame
<1>2. /\ PaddingSupportKnown' = PaddingSupportKnown
      /\ UNCHANGED <<padding_state_by_server, tunnel, protocol>>
  BY <1>1, SameSupport, SameKnown DEF setupVars
<1>3. call.rv = OK => PaddingSupportKnown
  BY <1>1 DEF PaddingInv, PaddingSupportKnown, ClientIsConnected, LoopAt
<1>4. Relaying' => PaddingSupportKnown
  BY <1>1, <1>3, StillConnecting DEF PaddingInv
<1>5. owner # "new"
  BY <1>1 DEF PaddingInv, LoopAt, Returned, Calling
<1> QED
  BY <1>1, <1>2, <1>4, <1>5
     DEF PaddingInv, ClientIsConnected, ClientIsConnecting, LoopAt, Calling

LEMMA HandleConnectResultKeeps == PaddingInv /\ HandleConnectResult => PaddingInv'
<1> SUFFICES ASSUME PaddingInv, HandleConnectResult PROVE PaddingInv'
  OBVIOUS
<1>1. /\ UNCHANGED <<setupVars, paddingVars, can_push_to_server, ioVars,
                     next_state, resume>>
      /\ owner' \in {owner, "running", "closed"}
      /\ Calling("HandleConnectResult")
      /\ call'.op \in {"none", "Run"} /\ (call'.op = "Run" => call.rv = OK)
  BY DEF HandleConnectResult, Close, ownerVars, connectVars, earlyVars, Frame, NoCall
<1>2. CASE Relaying
  BY <1>1, <1>2, RelayingKeeps
<1>3. CASE ~Relaying
  <2>1. call'.op = "none"
    BY <1>1, <1>3 DEF Relaying
  <2>2. ~Relaying'
    BY <1>1, <1>3, <2>1, StillConnecting
  <2>3. /\ GetClientPaddingSupport' = GetClientPaddingSupport
        /\ UNCHANGED <<cached_server, padding_state_by_server, tunnel, protocol>>
    BY <1>1, SameSupport DEF setupVars, paddingVars
  <2>4. owner # "new" /\ owner' # "new"
    BY <1>1 DEF PaddingInv, Returned, Calling
  <2> QED
    BY <1>1, <2>1, <2>2, <2>3, <2>4
       DEF PaddingInv, ClientIsConnected, ClientIsConnecting, LoopAt, Calling
<1> QED
  BY <1>2, <1>3

-----------------------------------------------------------------------------
\* The other events.

\* The proxy server's support can be learnt again, never forgotten.
LEMMA LearnsServer ==
  ASSUME UNCHANGED <<setupVars, detected_client, cached_server>>,
         padding_state_by_server' \in
           {padding_state_by_server, kCapable, kIncapable}
  PROVE  /\ GetClientPaddingSupport' = GetClientPaddingSupport
         /\ GetServerPaddingSupport # kUnknown =>
              GetServerPaddingSupport' # kUnknown
         /\ PaddingSupportKnown => PaddingSupportKnown'
BY DEF setupVars, GetClientPaddingSupport, GetServerPaddingSupport,
       GetProxyServerPaddingSupport, PaddingSupportKnown

\* A step of the proxy delegate, for this tunnel or another one.
LEMMA DelegateKeeps ==
  ASSUME PaddingInv,
         UNCHANGED <<setupVars, connectVars, earlyVars, detected_client,
                     cached_server, ioVars, ownerVars, stackVars>>,
         padding_state_by_server' \in
           {padding_state_by_server, kCapable, kIncapable},
         tunnel' \in {"fastopen", "replied"} =>
           padding_state_by_server' # kUnknown
  PROVE  PaddingInv'
<1>1. /\ GetClientPaddingSupport' = GetClientPaddingSupport
      /\ GetServerPaddingSupport # kUnknown =>
           GetServerPaddingSupport' # kUnknown
      /\ PaddingSupportKnown => PaddingSupportKnown'
  BY LearnsServer
<1>2. /\ UNCHANGED <<protocol, next_state, can_push_to_server, cached_server,
                     reading, writing, posted, owner, call, resume>>
      /\ Relaying' = Relaying
      /\ ClientIsConnecting' = ClientIsConnecting
      /\ ClientIsConnected' = ClientIsConnected
      /\ LoopAt("CONNECT_SERVER_COMPLETE")' = LoopAt("CONNECT_SERVER_COMPLETE")
      /\ Returned' = Returned
  BY DEF setupVars, connectVars, earlyVars, ioVars, ownerVars, stackVars,
         Relaying, ClientIsConnecting, ClientIsConnected, LoopAt, Returned, Calling
<1> QED
  BY <1>1, <1>2 DEF PaddingInv

LEMMA DelegateEventKeeps ==
  ASSUME PaddingInv,
         \/ OnBeforeTunnelRequest \/ OnTunnelHeadersReceived
         \/ OtherTunnelHeadersReceived
  PROVE  PaddingInv'
<1>1. CASE OnBeforeTunnelRequest
  BY <1>1, DelegateKeeps DEF OnBeforeTunnelRequest, UsesFastOpen
<1>2. CASE OnTunnelHeadersReceived
  BY <1>2, DelegateKeeps DEF OnTunnelHeadersReceived
<1>3. CASE OtherTunnelHeadersReceived
  BY <1>3, DelegateKeeps DEF OtherTunnelHeadersReceived
<1> QED
  BY <1>1, <1>2, <1>3

LEMMA ConnectKeeps == PaddingInv /\ Connect => PaddingInv'
<1> SUFFICES ASSUME PaddingInv, Connect PROVE PaddingInv'
  OBVIOUS
<1>1. /\ UNCHANGED <<setupVars, paddingVars, can_push_to_server, ioVars, resume>>
      /\ owner = "new" /\ owner' = "connecting"
      /\ next_state' = "CONNECT_CLIENT"
      /\ call'.op = "DoLoop"
  BY DEF Connect, earlyVars, Frame
<1>2. UNCHANGED <<cached_server, padding_state_by_server, tunnel, protocol>>
  BY <1>1 DEF setupVars, paddingVars
<1>3. ~Relaying'
  BY <1>1, StillConnecting DEF PaddingInv, ClientIsConnecting
<1> QED
  BY <1>1, <1>2, <1>3
     DEF PaddingInv, ClientIsConnected, ClientIsConnecting, LoopAt, Calling

LEMMA DeleteKeeps == PaddingInv /\ Delete => PaddingInv'
<1> SUFFICES ASSUME PaddingInv, Delete PROVE PaddingInv'
  OBVIOUS
<1>1. /\ UNCHANGED <<setupVars, paddingVars, can_push_to_server, stackVars>>
      /\ Idle /\ owner' = "deleted" /\ next_state' = "NONE"
      /\ reading' = {} /\ writing' = {} /\ posted' = [d \in Sides |-> 0]
  BY DEF Delete, earlyVars
<1>2. /\ UNCHANGED <<padding_state_by_server, tunnel, protocol, call, resume>>
      /\ PaddingSupportKnown' = PaddingSupportKnown
  BY <1>1, SameKnown DEF setupVars, paddingVars, stackVars
<1>3. Relaying' => Relaying
  BY <1>1, <1>2 DEF Relaying, Calling, Idle, Returned, RelayOps
<1> QED
  BY <1>1, <1>2, <1>3
     DEF PaddingInv, ClientIsConnected, ClientIsConnecting, LoopAt, Calling,
         Idle, Returned

LEMMA PaddingNextKeeps == PaddingInv /\ [Next]_vars => PaddingInv'
<1> SUFFICES ASSUME PaddingInv, [Next]_vars PROVE PaddingInv'
  OBVIOUS
<1>1. CASE ConnectStep
  BY <1>1, DoConnectClientKeeps, DoConnectClientCompleteKeeps,
     EarlyPullReturnedKeeps, DoConnectServerKeeps,
     DoConnectServerCompleteKeeps, HandleConnectResultKeeps DEF ConnectStep
<1>2. CASE RelayStep
  BY <1>2, RelayStepKeeps
<1>3. CASE Event
  BY <1>3, ConnectKeeps, ClientConnectedKeeps, ServerConnectedKeeps,
     DeleteKeeps, DelegateEventKeeps, RelayEventKeeps DEF Event
<1>4. CASE UNCHANGED vars
  BY <1>4, DelegateKeeps DEF vars, paddingVars, PaddingInv
<1> QED
  BY <1>1, <1>2, <1>3, <1>4 DEF Next, Deleted

(***************************************************************************)
(* PaddingInv holds in every reachable state: a tunnel that is in use told *)
(* what its server supports, the client's support is known from the end of *)
(* its handshake on, and both are known before a byte is moved.            *)
(***************************************************************************)
THEOREM PaddingInvariance == Spec => []PaddingInv
BY PaddingInitInv, PaddingNextKeeps, PTL DEF Spec

(***************************************************************************)
(* The CHECKs of GetPaddingDirection never fail: whatever the protocol and *)
(* the proxy, and with Fast Open too, Pull and Push run only when the      *)
(* padding support of both sides is known.                                 *)
(***************************************************************************)
THEOREM PaddingAlwaysKnown == Spec => []PaddingKnown
<1>1. PaddingInv => PaddingKnown
  BY DEF PaddingInv, PaddingKnown, Relaying, Calling, RelayOps
<1> QED
  BY <1>1, PaddingInvariance, PTL

-----------------------------------------------------------------------------
\* The padding direction.

\* Padding state after a step: the server's support is cached, the delegate
\* learns it, or, while the client is connecting, its support is detected.
PaddingStep ==
  \/ UNCHANGED paddingVars
  \/ CacheServerPaddingSupport
  \/ UNCHANGED <<detected_client, cached_server>>
  \/ ClientIsConnecting

LEMMA NextPaddingStep == [Next]_vars => UNCHANGED setupVars /\ PaddingStep
<1> SUFFICES ASSUME [Next]_vars PROVE UNCHANGED setupVars /\ PaddingStep
  OBVIOUS
<1>1. CASE ConnectStep
  BY <1>1 DEF ConnectStep, DoConnectClient, DoConnectClientComplete,
     EarlyPullReturned, DoConnectServer, DoConnectServerComplete,
     HandleConnectResult, PaddingStep, ClientIsConnecting, LoopAt
<1>2. CASE RelayStep
  BY <1>2 DEF RelayStep, Run, RunFails, RunReturned, Pull, PullReturns,
     OnPullComplete, Push, PushContinues, OnPushComplete, PaddingStep
<1>3. CASE Event
  BY <1>3 DEF Event, Connect, ClientConnected, ServerConnected, Delete,
     OnBeforeTunnelRequest, OnTunnelHeadersReceived,
     OtherTunnelHeadersReceived, ReadDone, WriteDone, PostedPull,
     PaddingStep, ClientIsConnecting
<1>4. CASE UNCHANGED vars
  BY <1>4 DEF vars, PaddingStep
<1> QED
  BY <1>1, <1>2, <1>3, <1>4 DEF Next, Deleted

(***************************************************************************)
(* StablePaddingDirection holds: a connection that knows both sides keeps  *)
(* its padding direction although the delegate goes on learning from other *)
(* connections, because the cached support is read from then on and the    *)
(* client is detected only before anything is cached.                      *)
(***************************************************************************)
THEOREM PaddingDirectionIsStable == Spec => StablePaddingDirection
<1> DEFINE Step == cached_server # kUnknown /\ GetClientPaddingSupport # kUnknown
                     => GetPaddingDirection' = GetPaddingDirection
<1>1. PaddingInv /\ [Next]_vars => [Step]_vars
  <2> SUFFICES ASSUME PaddingInv, [Next]_vars, cached_server # kUnknown
               PROVE  GetPaddingDirection' = GetPaddingDirection
    OBVIOUS
  <2>1. UNCHANGED setupVars /\ PaddingStep /\ ~ClientIsConnecting
    BY NextPaddingStep DEF PaddingInv
  <2>2. UNCHANGED <<protocol, detected_client, cached_server>>
    BY <2>1 DEF setupVars, PaddingStep, paddingVars,
                CacheServerPaddingSupport, GetServerPaddingSupport
  <2> QED
    BY <2>2 DEF GetPaddingDirection, GetClientPaddingSupport,
                GetServerPaddingSupport
<1> QED
  BY <1>1, PaddingInvariance, PTL DEF Spec, StablePaddingDirection
=============================================================================
