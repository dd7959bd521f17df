------------------------ MODULE NaiveConnectionProofs ------------------------
(***************************************************************************)
(* Proofs about NaiveConnection, for every protocol, proxy, stream of      *)
(* bytes and padding parameters.                                           *)
(***************************************************************************)
EXTENDS NaiveConnection, TLAPS

\* A failed connection has dropped its client socket and has no outstanding
\* socket operation; a connection that did not fail has its client socket.
FailedInv ==
  /\ kClient \in sockets <=> ~Failed
  /\ Failed => reading = {} /\ writing = {}
  /\ call.op \in {"OnPullComplete", "Push", "OnPushComplete"} => ~Failed

\* Where the connection is on its way to Run.
ConnectInv ==
  /\ call.op \in {"DoLoop", "HandleConnectResult"}
       => owner = "connecting" /\ resume = "none"
  /\ call.op = "DoLoop" => /\ next_state # "NONE"
                           /\ call.rv \in {OK} \cup Errors
  /\ call.op = "HandleConnectResult" => /\ next_state = "NONE"
                                        /\ call.rv \in {OK} \cup Errors
                                        /\ call.rv = OK => kServer \in sockets
  /\ call.op = "Run" => /\ owner = "running" /\ resume = "none"
                        /\ ~can_push_to_server /\ kServer \in sockets
  /\ next_state # "NONE" => owner = "connecting" /\ resume = "none"
  /\ next_state \in {"CONNECT_CLIENT", "CONNECT_CLIENT_COMPLETE"} =>
       ~Failed /\ ~early_pull_pending
  /\ next_state \in {"CONNECT_CLIENT", "CONNECT_SERVER"} => call.op = "DoLoop"
  /\ owner = "new" => /\ call.op = "none" /\ resume = "none"
                      /\ ~Failed /\ ~early_pull_pending
  /\ owner \in {"new", "connecting"} => ~can_push_to_server
  /\ owner = "running" => can_push_to_server \/ call.op = "Run"
  /\ resume = "DoConnectClientComplete" =>
       /\ owner = "connecting" /\ next_state = "NONE"
       /\ call.op \in {"none", "Pull", "OnPullComplete"}
  /\ call.op \in RelayOps => call.d \in Sides

\* Before Run only the client's direction is active, with the early pull;
\* early_pull_pending_ tells exactly whether it is.
EarlyInv ==
  /\ ~can_push_to_server =>
       /\ Activity(kServer) = 0
       /\ Activity(kClient) = One(early_pull_pending /\ owner # "deleted")
       /\ writing = {} /\ posted[kClient] = 0
  /\ call.op \in {"Push", "OnPushComplete"} => can_push_to_server
  /\ call.op = "Pull" /\ ~can_push_to_server => ~Failed
  /\ \/ next_state \in {"CONNECT_SERVER", "CONNECT_SERVER_COMPLETE"}
     \/ resume = "DoConnectClientComplete"
     \/ call.op = "HandleConnectResult" /\ call.rv = OK
     \/ call.op = "Run"
     => early_pull_pending \/ Failed \/ early_pull_result \in Nat

\* After Run each direction does exactly one thing until one fails.
RunInv ==
  /\ run_callback <=> (can_push_to_server /\ ~Failed)
  /\ can_push_to_server /\ ~Failed =>
       /\ owner = "running" /\ kServer \in sockets
       /\ Activity(kClient) = 1
       /\ Activity(kServer) = One(resume # "Run")
  /\ resume = "Run" => /\ can_push_to_server /\ Activity(kServer) = 0
  /\ \A d \in Sides : Activity(d) <= 1

\* write_pending_ is set only while a Write is under way.
WriteInv ==
  \A s \in write_pending :
    s \in writing \/ (call.op = "OnPushComplete" /\ call.d = Other(s))

Inv == ControlTypeOK /\ FailedInv /\ ConnectInv /\ EarlyInv /\ RunInv /\ WriteInv

USE DEF kClient, kServer, kNone, Sides, Other, OK, ERR_IO_PENDING,
        ERR_CONNECTION_CLOSED, ERR_CONNECTION_RESET, ERR_ADDRESS_INVALID, Errors

-----------------------------------------------------------------------------
\* Facts about the operators that the steps below share.

LEMMA BufferSizes == kBufferSize \in Int /\ PaddedReadSize \in Int
BY ByteBaseAssumption
   DEF kBufferSize, PaddedReadSize, kPaddingHeaderSize, kMaxPaddingSize

\* Results of socket operations are byte counts or net errors.
LEMMA ReadResultsType ==
  ASSUME NEW s, NEW kind, NEW rv \in ReadResults(s, kind)
  PROVE  rv \in Nat \cup Errors
BY BufferSizes DEF ReadResults, ReadSize

LEMMA WriteResultsType ==
  ASSUME NEW bytes, NEW rv \in WriteResults(bytes)
  PROVE  rv \in Nat \cup Errors
BY BufferSizes DEF WriteResults

LEMMA CacheType ==
  ASSUME ControlTypeOK, CacheServerPaddingSupport
  PROVE  cached_server' \in PaddingSupport
BY DEF ControlTypeOK, CacheServerPaddingSupport, GetServerPaddingSupport,
       GetProxyServerPaddingSupport, PaddingSupport

\* A step that starts no socket operation and enters no relay handler leaves
\* both directions as they were.
LEMMA QuietActivity ==
  ASSUME UNCHANGED <<reading, writing, posted>>,
         call.op \notin RelayOps, call'.op \notin RelayOps
  PROVE  /\ Activity(kClient)' = Activity(kClient)
         /\ Activity(kServer)' = Activity(kServer)
BY DEF Activity, One

LEMMA ActivityType ==
  ASSUME ControlTypeOK, NEW d \in Sides
  PROVE  Activity(d) \in Nat
BY DEF ControlTypeOK, Activity, One

LEMMA InitInv == Init => Inv
<1> SUFFICES ASSUME Init PROVE Inv
  OBVIOUS
<1> USE DEF Init, Frame, NoCall
<1>1. ControlTypeOK
  BY ProtocolsAssumption, ProxyKindsAssumption
     DEF ControlTypeOK, Ops, PaddingSupport, kUnknown, kCapable, kIncapable
<1>2. ~Failed
  BY DEF Failed
<1>3. FailedInv
  BY <1>2 DEF FailedInv
<1>4. ConnectInv
  BY <1>2 DEF ConnectInv, RelayOps
<1>5. EarlyInv
  BY <1>2 DEF EarlyInv, Activity, One, RelayOps
<1>6. RunInv
  BY <1>2 DEF RunInv, Activity, One, RelayOps
<1>7. WriteInv
  BY DEF WriteInv
<1> QED
  BY <1>1, <1>3, <1>4, <1>5, <1>6, <1>7 DEF Inv

-----------------------------------------------------------------------------
\* Steps of the connect phase.

LEMMA ConnectKeeps == Inv /\ Connect => Inv'
<1> SUFFICES ASSUME Inv, Connect PROVE Inv'
  OBVIOUS
<1> USE DEF Inv, Connect, Idle, Returned, Calling, Frame, NoCall,
        setupVars, connectVars, earlyVars, paddingVars, linkVars, bufferVars,
        codecVars, ioVars, dataVars, ownerVars, stackVars
<1>1. ControlTypeOK'
  BY DEF ControlTypeOK, Ops, ConnectInv
<1>2. Failed' = Failed
  BY DEF Failed
<1>3. /\ Activity(kClient)' = Activity(kClient)
      /\ Activity(kServer)' = Activity(kServer)
  BY QuietActivity DEF RelayOps
<1>4. FailedInv'
  BY <1>2 DEF FailedInv, ConnectInv
<1>5. ConnectInv'
  BY <1>2 DEF ConnectInv, RelayOps, ControlTypeOK
<1>6. EarlyInv'
  BY <1>2, <1>3 DEF EarlyInv, ConnectInv, One, ControlTypeOK
<1>7. RunInv'
  BY <1>2, <1>3 DEF RunInv, EarlyInv, ConnectInv, One
<1>8. WriteInv'
  BY DEF WriteInv
<1> QED
  BY <1>1, <1>4, <1>5, <1>6, <1>7, <1>8

LEMMA DoConnectClientKeeps == Inv /\ DoConnectClient => Inv'
<1> SUFFICES ASSUME Inv, DoConnectClient PROVE Inv'
  OBVIOUS
<1> USE DEF Inv, DoConnectClient, LoopAt, LoopPends, LoopContinues, ClientDetected,
        PaddingSupport, kUnknown, kCapable, kIncapable, Idle, Returned, Calling, Frame, NoCall,
        setupVars, connectVars, earlyVars, paddingVars, linkVars, bufferVars,
        codecVars, ioVars, dataVars, ownerVars, stackVars
<1>1. ControlTypeOK'
  <2>1. call' \in [op : Ops, d : Sides \cup {kNone}, rv : Nat \cup Errors]
    BY DEF ControlTypeOK, Ops, ConnectInv
  <2>2. connect_callback' \in BOOLEAN
    BY DEF ControlTypeOK
  <2>3. /\ sockets' \subseteq Sides /\ full_duplex' \in BOOLEAN
    BY DEF ControlTypeOK
  <2>4. /\ tunnel' \in {"none", "connecting", "requested", "fastopen", "replied"}
        /\ detected_client' \in PaddingSupport
    BY DEF ControlTypeOK, PaddingSupport
  <2> QED
    BY <2>1, <2>2, <2>3, <2>4 DEF ControlTypeOK, PaddingSupport
<1>2. Failed' = Failed
  BY DEF Failed
<1>3. /\ Activity(kClient)' = Activity(kClient)
      /\ Activity(kServer)' = Activity(kServer)
  BY QuietActivity DEF RelayOps
<1>4. FailedInv'
  BY <1>2 DEF FailedInv, ConnectInv
<1>5. ConnectInv'
  BY <1>2 DEF ConnectInv, RelayOps, ControlTypeOK
<1>6. EarlyInv'
  BY <1>2, <1>3 DEF EarlyInv, ConnectInv, One, ControlTypeOK
<1>7. RunInv'
  BY <1>2, <1>3 DEF RunInv, EarlyInv, ConnectInv, One
<1>8. WriteInv'
  BY DEF WriteInv
<1> QED
  BY <1>1, <1>4, <1>5, <1>6, <1>7, <1>8

LEMMA ClientConnectedKeeps == Inv /\ ClientConnected => Inv'
<1> SUFFICES ASSUME Inv, ClientConnected PROVE Inv'
  OBVIOUS
<1> USE DEF Inv, ClientConnected, LoopContinues, ClientDetected,
        PaddingSupport, kUnknown, kCapable, kIncapable, Idle, Returned, Calling, Frame, NoCall,
        setupVars, connectVars, earlyVars, paddingVars, linkVars, bufferVars,
        codecVars, ioVars, dataVars, ownerVars, stackVars
<1>1. ControlTypeOK'
  BY DEF ControlTypeOK, Ops, ConnectInv
<1>2. Failed' = Failed
  BY DEF Failed
<1>3. /\ Activity(kClient)' = Activity(kClient)
      /\ Activity(kServer)' = Activity(kServer)
  BY QuietActivity DEF RelayOps
<1>4. FailedInv'
  BY <1>2 DEF FailedInv, ConnectInv
<1>5. ConnectInv'
  BY <1>2 DEF ConnectInv, RelayOps, ControlTypeOK
<1>6. EarlyInv'
  BY <1>2, <1>3 DEF EarlyInv, ConnectInv, One, ControlTypeOK
<1>7. RunInv'
  BY <1>2, <1>3 DEF RunInv, EarlyInv, ConnectInv, One
<1>8. WriteInv'
  BY DEF WriteInv
<1> QED
  BY <1>1, <1>4, <1>5, <1>6, <1>7, <1>8

LEMMA EarlyPullReturnedKeeps == Inv /\ EarlyPullReturned => Inv'
<1> SUFFICES ASSUME Inv, EarlyPullReturned PROVE Inv'
  OBVIOUS
<1> USE DEF Inv, EarlyPullReturned, LoopReturns, LoopContinues, Idle, Returned, Calling, Frame, NoCall,
        setupVars, connectVars, earlyVars, paddingVars, linkVars, bufferVars,
        codecVars, ioVars, dataVars, ownerVars, stackVars
<1>1. ControlTypeOK'
  <2>1. call' \in [op : Ops, d : Sides \cup {kNone}, rv : Nat \cup Errors]
    BY DEF ControlTypeOK, Ops, ConnectInv
  <2>2. connect_callback' \in BOOLEAN
    BY DEF ControlTypeOK
  <2>3. /\ sockets' \subseteq Sides /\ full_duplex' \in BOOLEAN
    BY DEF ControlTypeOK
  <2>4. /\ tunnel' \in {"none", "connecting", "requested", "fastopen", "replied"}
        /\ detected_client' \in PaddingSupport
    BY DEF ControlTypeOK, PaddingSupport
  <2> QED
    BY <2>1, <2>2, <2>3, <2>4 DEF ControlTypeOK, PaddingSupport
<1>2. Failed' = Failed
  BY DEF Failed
<1>3. /\ Activity(kClient)' = Activity(kClient)
      /\ Activity(kServer)' = Activity(kServer)
  BY QuietActivity DEF RelayOps
<1>4. FailedInv'
  BY <1>2 DEF FailedInv, ConnectInv
<1>5. ConnectInv'
  BY <1>2 DEF ConnectInv, RelayOps, ControlTypeOK
<1>6. EarlyInv'
  BY <1>2, <1>3 DEF EarlyInv, ConnectInv, One, ControlTypeOK
<1>7. RunInv'
  BY <1>2, <1>3 DEF RunInv, EarlyInv, ConnectInv, One
<1>8. WriteInv'
  BY DEF WriteInv
<1> QED
  BY <1>1, <1>4, <1>5, <1>6, <1>7, <1>8

LEMMA DoConnectServerKeeps == Inv /\ DoConnectServer => Inv'
<1> SUFFICES ASSUME Inv, DoConnectServer PROVE Inv'
  OBVIOUS
<1> USE DEF Inv, DoConnectServer, LoopAt, LoopPends, LoopContinues, Idle, Returned, Calling, Frame, NoCall,
        setupVars, connectVars, earlyVars, paddingVars, linkVars, bufferVars,
        codecVars, ioVars, dataVars, ownerVars, stackVars
<1>1. ControlTypeOK'
  <2>1. call' \in [op : Ops, d : Sides \cup {kNone}, rv : Nat \cup Errors]
    BY DEF ControlTypeOK, Ops, ConnectInv
  <2>2. connect_callback' \in BOOLEAN
    BY DEF ControlTypeOK
  <2>3. /\ sockets' \subseteq Sides /\ full_duplex' \in BOOLEAN
    BY DEF ControlTypeOK
  <2>4. /\ tunnel' \in {"none", "connecting", "requested", "fastopen", "replied"}
        /\ detected_client' \in PaddingSupport
    BY DEF ControlTypeOK, PaddingSupport
  <2> QED
    BY <2>1, <2>2, <2>3, <2>4 DEF ControlTypeOK, PaddingSupport
<1>2. Failed' = Failed
  BY DEF Failed
<1>3. /\ Activity(kClient)' = Activity(kClient)
      /\ Activity(kServer)' = Activity(kServer)
  BY QuietActivity DEF RelayOps
<1>4. FailedInv'
  BY <1>2 DEF FailedInv, ConnectInv
<1>5. ConnectInv'
  BY <1>2 DEF ConnectInv, RelayOps, ControlTypeOK
<1>6. EarlyInv'
  BY <1>2, <1>3 DEF EarlyInv, ConnectInv, One, ControlTypeOK
<1>7. RunInv'
  BY <1>2, <1>3 DEF RunInv, EarlyInv, ConnectInv, One
<1>8. WriteInv'
  BY DEF WriteInv
<1> QED
  BY <1>1, <1>4, <1>5, <1>6, <1>7, <1>8

LEMMA ServerConnectedKeeps == Inv /\ ServerConnected => Inv'
<1> SUFFICES ASSUME Inv, ServerConnected PROVE Inv'
  OBVIOUS
<1> USE DEF Inv, ServerConnected, LoopContinues, Idle, Returned, Calling, Frame, NoCall,
        setupVars, connectVars, earlyVars, paddingVars, linkVars, bufferVars,
        codecVars, ioVars, dataVars, ownerVars, stackVars
<1>1. ControlTypeOK'
  BY DEF ControlTypeOK, Ops, ConnectInv
<1>2. Failed' = Failed
  BY DEF Failed
<1>3. /\ Activity(kClient)' = Activity(kClient)
      /\ Activity(kServer)' = Activity(kServer)
  BY QuietActivity DEF RelayOps
<1>4. FailedInv'
  BY <1>2 DEF FailedInv, ConnectInv
<1>5. ConnectInv'
  BY <1>2 DEF ConnectInv, RelayOps, ControlTypeOK
<1>6. EarlyInv'
  BY <1>2, <1>3 DEF EarlyInv, ConnectInv, One, ControlTypeOK
<1>7. RunInv'
  BY <1>2, <1>3 DEF RunInv, EarlyInv, ConnectInv, One
<1>8. WriteInv'
  BY DEF WriteInv
<1> QED
  BY <1>1, <1>4, <1>5, <1>6, <1>7, <1>8

LEMMA DoConnectServerCompleteKeeps == Inv /\ DoConnectServerComplete => Inv'
<1> SUFFICES ASSUME Inv, DoConnectServerComplete PROVE Inv'
  OBVIOUS
<1> USE DEF Inv, DoConnectServerComplete, LoopAt, LoopReturns, Idle, Returned, Calling, Frame, NoCall,
        setupVars, connectVars, earlyVars, paddingVars, linkVars, bufferVars,
        codecVars, ioVars, dataVars, ownerVars, stackVars
<1>1. ControlTypeOK'
  <2>1. call' \in [op : Ops, d : Sides \cup {kNone}, rv : Nat \cup Errors]
    BY DEF ControlTypeOK, Ops, ConnectInv
  <2>2. connect_callback' \in BOOLEAN
    BY DEF ControlTypeOK
  <2>3. /\ sockets' \subseteq Sides /\ full_duplex' \in BOOLEAN
    BY DEF ControlTypeOK
  <2>4. /\ tunnel' \in {"none", "connecting", "requested", "fastopen", "replied"}
        /\ detected_client' \in PaddingSupport
    BY DEF ControlTypeOK, PaddingSupport
  <2> QED
    BY <2>1, <2>2, <2>3, <2>4 DEF ControlTypeOK, PaddingSupport
<1>2. Failed' = Failed
  BY DEF Failed
<1>3. /\ Activity(kClient)' = Activity(kClient)
      /\ Activity(kServer)' = Activity(kServer)
  BY QuietActivity DEF RelayOps
<1>4. FailedInv'
  BY <1>2 DEF FailedInv, ConnectInv
<1>5. ConnectInv'
  BY <1>2 DEF ConnectInv, RelayOps, ControlTypeOK
<1>6. EarlyInv'
  BY <1>2, <1>3 DEF EarlyInv, ConnectInv, One, ControlTypeOK
<1>7. RunInv'
  BY <1>2, <1>3 DEF RunInv, EarlyInv, ConnectInv, One
<1>8. WriteInv'
  BY DEF WriteInv
<1> QED
  BY <1>1, <1>4, <1>5, <1>6, <1>7, <1>8

LEMMA OnBeforeTunnelRequestKeeps == Inv /\ OnBeforeTunnelRequest => Inv'
<1> SUFFICES ASSUME Inv, OnBeforeTunnelRequest PROVE Inv'
  OBVIOUS
<1> USE DEF Inv, OnBeforeTunnelRequest, Idle, Returned, Calling, Frame, NoCall,
        setupVars, connectVars, earlyVars, paddingVars, linkVars, bufferVars,
        codecVars, ioVars, dataVars, ownerVars, stackVars
<1>1. ControlTypeOK'
  BY DEF ControlTypeOK, Ops, ConnectInv
<1>2. Failed' = Failed
  BY DEF Failed
<1>3. /\ Activity(kClient)' = Activity(kClient)
      /\ Activity(kServer)' = Activity(kServer)
  BY QuietActivity DEF RelayOps
<1>4. FailedInv'
  BY <1>2 DEF FailedInv, ConnectInv
<1>5. ConnectInv'
  BY <1>2 DEF ConnectInv, RelayOps, ControlTypeOK
<1>6. EarlyInv'
  BY <1>2, <1>3 DEF EarlyInv, ConnectInv, One, ControlTypeOK
<1>7. RunInv'
  BY <1>2, <1>3 DEF RunInv, EarlyInv, ConnectInv, One
<1>8. WriteInv'
  BY DEF WriteInv
<1> QED
  BY <1>1, <1>4, <1>5, <1>6, <1>7, <1>8

LEMMA OnTunnelHeadersReceivedKeeps == Inv /\ OnTunnelHeadersReceived => Inv'
<1> SUFFICES ASSUME Inv, OnTunnelHeadersReceived PROVE Inv'
  OBVIOUS
<1> USE DEF Inv, OnTunnelHeadersReceived, PaddingSupport, kUnknown, kCapable, kIncapable,
        Idle, Returned, Calling, Frame, NoCall,
        setupVars, connectVars, earlyVars, paddingVars, linkVars, bufferVars,
        codecVars, ioVars, dataVars, ownerVars, stackVars
<1>1. ControlTypeOK'
  BY DEF ControlTypeOK, Ops, ConnectInv
<1>2. Failed' = Failed
  BY DEF Failed
<1>3. /\ Activity(kClient)' = Activity(kClient)
      /\ Activity(kServer)' = Activity(kServer)
  BY QuietActivity DEF RelayOps
<1>4. FailedInv'
  BY <1>2 DEF FailedInv, ConnectInv
<1>5. ConnectInv'
  BY <1>2 DEF ConnectInv, RelayOps, ControlTypeOK
<1>6. EarlyInv'
  BY <1>2, <1>3 DEF EarlyInv, ConnectInv, One, ControlTypeOK
<1>7. RunInv'
  BY <1>2, <1>3 DEF RunInv, EarlyInv, ConnectInv, One
<1>8. WriteInv'
  BY DEF WriteInv
<1> QED
  BY <1>1, <1>4, <1>5, <1>6, <1>7, <1>8

LEMMA OtherTunnelHeadersReceivedKeeps == Inv /\ OtherTunnelHeadersReceived => Inv'
<1> SUFFICES ASSUME Inv, OtherTunnelHeadersReceived PROVE Inv'
  OBVIOUS
<1> USE DEF Inv, OtherTunnelHeadersReceived, PaddingSupport, kUnknown, kCapable, kIncapable,
        Idle, Returned, Calling, Frame, NoCall,
        setupVars, connectVars, earlyVars, paddingVars, linkVars, bufferVars,
        codecVars, ioVars, dataVars, ownerVars, stackVars
<1>1. ControlTypeOK'
  BY DEF ControlTypeOK, Ops, ConnectInv
<1>2. Failed' = Failed
  BY DEF Failed
<1>3. /\ Activity(kClient)' = Activity(kClient)
      /\ Activity(kServer)' = Activity(kServer)
  BY QuietActivity DEF RelayOps
<1>4. FailedInv'
  BY <1>2 DEF FailedInv, ConnectInv
<1>5. ConnectInv'
  BY <1>2 DEF ConnectInv, RelayOps, ControlTypeOK
<1>6. EarlyInv'
  BY <1>2, <1>3 DEF EarlyInv, ConnectInv, One, ControlTypeOK
<1>7. RunInv'
  BY <1>2, <1>3 DEF RunInv, EarlyInv, ConnectInv, One
<1>8. WriteInv'
  BY DEF WriteInv
<1> QED
  BY <1>1, <1>4, <1>5, <1>6, <1>7, <1>8

LEMMA HandleConnectResultKeeps == Inv /\ HandleConnectResult => Inv'
<1> SUFFICES ASSUME Inv, HandleConnectResult PROVE Inv'
  OBVIOUS
<1> USE DEF Inv, HandleConnectResult, Close, Idle, Returned, Calling, Frame, NoCall,
        setupVars, connectVars, earlyVars, paddingVars, linkVars, bufferVars,
        codecVars, ioVars, dataVars, ownerVars, stackVars
<1>1. ControlTypeOK'
  BY DEF ControlTypeOK, Ops, ConnectInv
<1>2. Failed' = Failed
  BY DEF Failed
<1>3. /\ Activity(kClient)' = Activity(kClient)
      /\ Activity(kServer)' = Activity(kServer)
  BY QuietActivity DEF RelayOps
<1>4. FailedInv'
  BY <1>2 DEF FailedInv, ConnectInv
<1>5. ConnectInv'
  BY <1>2 DEF ConnectInv, RelayOps, ControlTypeOK
<1>6. EarlyInv'
  BY <1>2, <1>3 DEF EarlyInv, ConnectInv, One, ControlTypeOK
<1>7. RunInv'
  BY <1>2, <1>3 DEF RunInv, EarlyInv, ConnectInv, One
<1>8. WriteInv'
  BY DEF WriteInv
<1> QED
  BY <1>1, <1>4, <1>5, <1>6, <1>7, <1>8

LEMMA RunFailsKeeps == Inv /\ RunFails => Inv'
<1> SUFFICES ASSUME Inv, RunFails PROVE Inv'
  OBVIOUS
<1> USE DEF Inv, RunFails, Close, Idle, Returned, Calling, Frame, NoCall,
        setupVars, connectVars, earlyVars, paddingVars, linkVars, bufferVars,
        codecVars, ioVars, dataVars, ownerVars, stackVars
<1>1. ControlTypeOK'
  BY DEF ControlTypeOK, Ops, ConnectInv
<1>2. Failed' = Failed
  BY DEF Failed
<1>3. /\ Activity(kClient)' = Activity(kClient)
      /\ Activity(kServer)' = Activity(kServer)
  BY QuietActivity DEF RelayOps
<1>4. FailedInv'
  BY <1>2 DEF FailedInv, ConnectInv
<1>5. ConnectInv'
  BY <1>2 DEF ConnectInv, RelayOps, ControlTypeOK
<1>6. EarlyInv'
  BY <1>2, <1>3 DEF EarlyInv, ConnectInv, One, ControlTypeOK
<1>7. RunInv'
  BY <1>2, <1>3 DEF RunInv, EarlyInv, ConnectInv, One
<1>8. WriteInv'
  BY DEF WriteInv
<1> QED
  BY <1>1, <1>4, <1>5, <1>6, <1>7, <1>8

LEMMA DoConnectClientCompleteKeeps == Inv /\ DoConnectClientComplete => Inv'
<1> SUFFICES ASSUME Inv, DoConnectClientComplete PROVE Inv'
  OBVIOUS
<1> USE DEF Inv, LoopAt, LoopReturns, LoopContinues, Calling, Returned, Frame,
        setupVars, connectVars, earlyVars, paddingVars, linkVars, bufferVars,
        codecVars, ioVars, dataVars, ownerVars, stackVars
<1>1. ControlTypeOK'
  <2>1. cached_server' \in PaddingSupport
    BY CacheType DEF DoConnectClientComplete, ControlTypeOK
  <2>2. UNCHANGED <<detected_client, padding_state_by_server, tunnel>>
    BY DEF DoConnectClientComplete, CacheServerPaddingSupport
  <2>3. /\ call' \in [op : Ops, d : Sides \cup {kNone}, rv : Nat \cup Errors]
        /\ next_state' \in {"NONE", "CONNECT_SERVER"}
    BY DEF DoConnectClientComplete, ControlTypeOK, Ops, ConnectInv
  <2>4. connect_callback' \in BOOLEAN /\ early_pull_pending' \in BOOLEAN
    BY DEF DoConnectClientComplete, ControlTypeOK
  <2>5. /\ early_pull_result' \in Nat \cup Errors \cup {ERR_IO_PENDING}
        /\ resume' \in {"none", "DoConnectClientComplete", "Run"}
    BY DEF DoConnectClientComplete, ControlTypeOK
  <2> QED
    BY <2>1, <2>2, <2>3, <2>4, <2>5 DEF DoConnectClientComplete, ControlTypeOK
<1>2. Failed' = Failed /\ ~Failed
  BY DEF DoConnectClientComplete, Failed, ConnectInv
<1>3. /\ ~can_push_to_server /\ ~early_pull_pending
      /\ owner = "connecting" /\ resume = "none" /\ ~run_callback
      /\ Activity(kServer) = 0 /\ Activity(kClient) = 0
  BY DEF DoConnectClientComplete, ConnectInv, EarlyInv, RunInv, One
<1>4. /\ Activity(kServer)' = 0
      /\ Activity(kClient)' = One(call'.op = "Pull")
  <2>1. UNCHANGED <<reading, writing, posted>> /\ call.op = "DoLoop"
    BY DEF DoConnectClientComplete
  <2>2. \/ call'.op = "Pull" /\ call'.d = kClient
        \/ call'.op \in {"DoLoop", "HandleConnectResult"}
    BY DEF DoConnectClientComplete
  <2>3. /\ Activity(kServer) = One(kServer \in reading) + One(kClient \in writing)
                                  + posted[kServer]
        /\ Activity(kClient) = One(kClient \in reading) + One(kServer \in writing)
                                  + posted[kClient]
        /\ posted[kServer] \in Nat /\ posted[kClient] \in Nat
    BY <2>1 DEF Activity, One, RelayOps, ControlTypeOK
  <2>4. CASE call'.op = "Pull" /\ call'.d = kClient
    BY <1>3, <2>1, <2>3, <2>4 DEF Activity, One, RelayOps
  <2>5. CASE call'.op \in {"DoLoop", "HandleConnectResult"}
    BY <1>3, <2>1, <2>3, <2>5 DEF Activity, One, RelayOps
  <2> QED
    BY <2>2, <2>4, <2>5
<1>5. FailedInv'
  BY <1>2 DEF DoConnectClientComplete, FailedInv
<1>6. ConnectInv'
  BY <1>2, <1>3 DEF DoConnectClientComplete, ConnectInv, RelayOps
<1>7. EarlyInv'
  BY <1>2, <1>3, <1>4 DEF DoConnectClientComplete, EarlyInv, ConnectInv, One
<1>8. RunInv'
  BY <1>2, <1>3, <1>4 DEF DoConnectClientComplete, RunInv, One
<1>9. WriteInv'
  BY DEF DoConnectClientComplete, WriteInv
<1> QED
  BY <1>1, <1>5, <1>6, <1>7, <1>8, <1>9

-----------------------------------------------------------------------------
\* Steps of the relay.

LEMMA RunKeeps == Inv /\ Run => Inv'
<1> SUFFICES ASSUME Inv, Run PROVE Inv'
  OBVIOUS
<1> USE DEF Inv, Run, StartClient, Calling, Returned, Frame,
        setupVars, connectVars, earlyVars, paddingVars, linkVars, bufferVars,
        codecVars, ioVars, dataVars, ownerVars, stackVars
<1>1. Failed' = Failed /\ ~Failed
  BY DEF Failed
<1>2. /\ owner = "running" /\ resume = "none"
      /\ ~can_push_to_server /\ ~run_callback /\ kServer \in sockets
      /\ next_state = "NONE"
      /\ early_pull_pending \/ early_pull_result \in Nat
      /\ Activity(kServer) = 0
      /\ Activity(kClient) = One(early_pull_pending)
  BY <1>1 DEF ConnectInv, EarlyInv, RunInv, One
<1>3. ControlTypeOK'
  <2>1. /\ call' \in [op : Ops, d : Sides \cup {kNone}, rv : Nat \cup Errors]
        /\ resume' \in {"none", "DoConnectClientComplete", "Run"}
    BY <1>2 DEF ControlTypeOK, Ops
  <2> QED
    BY <2>1 DEF ControlTypeOK
<1>4. /\ Activity(kClient)' = 1
      /\ Activity(kServer)' = One(resume' # "Run")
  BY <1>2 DEF Activity, One, RelayOps, ControlTypeOK
<1>5. FailedInv'
  BY <1>1 DEF FailedInv
<1>6. ConnectInv'
  BY <1>1, <1>2 DEF ConnectInv, RelayOps
<1>7. EarlyInv'
  BY <1>1, <1>2 DEF EarlyInv
<1>8. RunInv'
  BY <1>1, <1>2, <1>4 DEF RunInv, One
<1>9. WriteInv'
  BY DEF WriteInv
<1> QED
  BY <1>3, <1>5, <1>6, <1>7, <1>8, <1>9

LEMMA RunReturnedKeeps == Inv /\ RunReturned => Inv'
<1> SUFFICES ASSUME Inv, RunReturned PROVE Inv'
  OBVIOUS
<1> USE DEF Inv, RunReturned, Calling, Returned, Frame,
        setupVars, connectVars, earlyVars, paddingVars, linkVars, bufferVars,
        codecVars, ioVars, dataVars, ownerVars, stackVars
<1>1. ControlTypeOK'
  BY DEF ControlTypeOK, Ops
<1>2. Failed' = Failed
  BY DEF Failed
<1>3. /\ can_push_to_server /\ Activity(kServer) = 0 /\ next_state = "NONE"
      /\ owner # "new" /\ owner # "connecting"
  BY DEF RunInv, ConnectInv
<1>4. Activity(kClient)' = Activity(kClient) /\ Activity(kServer)' = 1
  BY <1>3 DEF Activity, One, RelayOps, ControlTypeOK
<1>5. FailedInv'
  BY <1>2 DEF FailedInv
<1>6. ConnectInv'
  BY <1>2, <1>3 DEF ConnectInv, RelayOps
<1>7. EarlyInv'
  BY <1>3 DEF EarlyInv
<1>8. RunInv'
  BY <1>2, <1>3, <1>4 DEF RunInv, One
<1>9. WriteInv'
  BY DEF WriteInv
<1> QED
  BY <1>1, <1>5, <1>6, <1>7, <1>8, <1>9

LEMMA PullReturnsKeeps == Inv /\ PullReturns => Inv'
<1> SUFFICES ASSUME Inv, PullReturns PROVE Inv'
  OBVIOUS
<1> USE DEF Inv, PullReturns, Calling, Returned, Frame, NoCall,
        setupVars, connectVars, earlyVars, paddingVars, linkVars, bufferVars,
        codecVars, ioVars, dataVars, ownerVars, stackVars
<1>1. ControlTypeOK'
  BY DEF ControlTypeOK, Ops
<1>2. Failed' = Failed /\ Failed
  BY DEF Failed
<1>3. can_push_to_server
  BY <1>2 DEF EarlyInv
<1>4. /\ Activity(kClient)' <= Activity(kClient)
      /\ Activity(kServer)' <= Activity(kServer)
      /\ Activity(kClient)' \in Nat /\ Activity(kServer)' \in Nat
  BY <1>1 DEF Activity, One, RelayOps, ControlTypeOK
<1>5. FailedInv'
  BY <1>2 DEF FailedInv
<1>6. ConnectInv'
  BY <1>2, <1>3 DEF ConnectInv, RelayOps
<1>7. EarlyInv'
  BY <1>2, <1>3 DEF EarlyInv, ConnectInv
<1>8. RunInv'
  BY <1>2, <1>3, <1>4, ActivityType DEF RunInv
<1>9. WriteInv'
  BY DEF WriteInv
<1> QED
  BY <1>1, <1>5, <1>6, <1>7, <1>8, <1>9

LEMMA PullKeeps == Inv /\ Pull => Inv'
<1> SUFFICES ASSUME Inv, Pull PROVE Inv'
  OBVIOUS
<1> DEFINE d == call.d
<1>1. d \in Sides /\ call.op = "Pull"
  BY DEF Inv, ConnectInv, Pull, Calling, RelayOps
\* What Pull does to the variables of the invariant.
<1>2. /\ \/ reading' = reading \cup {d} /\ call' = NoCall
         \/ /\ reading' = reading
            /\ \E rv \in Nat \cup Errors : call' = Frame("OnPullComplete", d, rv)
      /\ early_pull_result' \in Nat \cup Errors \cup {ERR_IO_PENDING}
      /\ ~EarlyPull(d) => early_pull_result' = early_pull_result
  <2> DEFINE kind == IF AddsPadding(d) THEN "growable" ELSE "plain"
  <2>1. CASE /\ reading' = reading \cup {d}
             /\ early_pull_result' = IF EarlyPull(d) THEN ERR_IO_PENDING
                                     ELSE early_pull_result
             /\ call' = NoCall
    BY <2>1 DEF Inv, ControlTypeOK
  <2>2. CASE \E rv \in ReadResults(d, kind) :
               /\ ReadCompletes(d, kind, rv)
               /\ early_pull_result' = IF EarlyPull(d) THEN rv
                                       ELSE early_pull_result
               /\ UNCHANGED reading
    <3> PICK rv \in ReadResults(d, kind) :
               /\ ReadCompletes(d, kind, rv)
               /\ early_pull_result' = IF EarlyPull(d) THEN rv
                                       ELSE early_pull_result
               /\ UNCHANGED reading
      BY <2>2
    <3> HIDE DEF kind
    <3>1. rv \in Nat \cup Errors
      BY ReadResultsType
    <3> QED
      BY <3>1 DEF Inv, ControlTypeOK, ReadCompletes
  <2> QED
    BY <2>1, <2>2 DEF Pull
<1>3. /\ UNCHANGED <<protocol, proxy, connectVars, early_pull_pending,
                     can_push_to_server, linkVars, writing, posted, ownerVars,
                     resume, detected_client, padding_state_by_server, tunnel>>
      /\ cached_server' \in PaddingSupport
  BY CacheType DEF Inv, Pull, CacheServerPaddingSupport, setupVars
<1>4. Failed' = Failed /\ ~Failed
  BY <1>3 DEF Failed, Pull, linkVars
<1> HIDE DEF d
<1> USE <1>1, <1>2, <1>3, <1>4
        DEF Inv, Frame, NoCall, connectVars, linkVars, ownerVars
<1>5. ControlTypeOK'
  <2>1. call' \in [op : Ops, d : Sides \cup {kNone}, rv : Nat \cup Errors]
    BY DEF Ops
  <2>2. reading' \subseteq Sides
    BY DEF ControlTypeOK
  <2> QED
    BY <2>1, <2>2 DEF ControlTypeOK
<1>6. /\ Activity(kClient)' = Activity(kClient)
      /\ Activity(kServer)' = Activity(kServer)
  BY DEF Activity, One, RelayOps, ControlTypeOK, RunInv, d
<1>7. FailedInv'
  BY DEF FailedInv
<1>8. ConnectInv'
  BY DEF ConnectInv, RelayOps, d
<1>9. EarlyInv'
  BY <1>6 DEF EarlyInv, EarlyPull, d
<1>10. RunInv'
  BY <1>6 DEF RunInv
<1>11. WriteInv'
  BY DEF WriteInv, d
<1> QED
  BY <1>5, <1>7, <1>8, <1>9, <1>10, <1>11

LEMMA ReadDoneKeeps == ASSUME NEW d \in Sides PROVE Inv /\ ReadDone(d) => Inv'
<1> SUFFICES ASSUME Inv, ReadDone(d) PROVE Inv'
  OBVIOUS
<1>1. PICK rv \in Nat \cup Errors : call' = Frame("OnPullComplete", d, rv)
  BY ReadResultsType DEF ReadDone, ReadCompletes
<1> USE DEF Inv, ReadDone, Idle, Returned, Calling, Frame,
        setupVars, connectVars, earlyVars, paddingVars, linkVars, ownerVars
<1>2. ControlTypeOK'
  BY <1>1 DEF ControlTypeOK, Ops
<1>3. Failed' = Failed /\ ~Failed
  BY DEF Failed, FailedInv
<1>4. /\ Activity(kClient)' = Activity(kClient)
      /\ Activity(kServer)' = Activity(kServer)
      /\ Activity(d) > 0
  BY <1>1 DEF Activity, One, RelayOps, ControlTypeOK
<1>5. owner # "new" /\ next_state # "CONNECT_CLIENT_COMPLETE"
  BY <1>4 DEF ConnectInv, EarlyInv, One
<1>6. FailedInv'
  BY <1>1, <1>3 DEF FailedInv
<1>7. ConnectInv'
  BY <1>1, <1>3, <1>5 DEF ConnectInv, RelayOps
<1>8. EarlyInv'
  BY <1>1, <1>3, <1>4 DEF EarlyInv
<1>9. RunInv'
  BY <1>3, <1>4 DEF RunInv
<1>10. WriteInv'
  BY DEF WriteInv
<1> QED
  BY <1>2, <1>6, <1>7, <1>8, <1>9, <1>10

\* While a Read or Write completes or a Push runs, the direction is active;
\* write_pending_ is then clear for the socket that the direction writes to,
\* and every side with a pending write has its socket.
LEMMA PendingWrites ==
  ASSUME Inv
  PROVE  /\ call.op = "OnPullComplete" => Other(call.d) \notin write_pending
         /\ \A s \in write_pending : s \in sockets
<1> USE DEF Inv
<1>1. ASSUME call.op = "OnPullComplete", Other(call.d) \in write_pending
      PROVE  FALSE
  <2>1. call.d \in Sides /\ Other(call.d) \in writing
    BY <1>1 DEF WriteInv, ConnectInv, RelayOps
  <2> QED
    BY <1>1, <2>1 DEF RunInv, Activity, One, RelayOps, ControlTypeOK
<1>2. ASSUME NEW s \in write_pending
      PROVE  s \in sockets
  <2>1. ~Failed /\ can_push_to_server
    BY DEF WriteInv, FailedInv, EarlyInv
  <2> QED
    BY <2>1 DEF FailedInv, RunInv, ControlTypeOK
<1> QED
  BY <1>1, <1>2

LEMMA OnPullCompleteKeeps == Inv /\ OnPullComplete => Inv'
<1> SUFFICES ASSUME Inv, OnPullComplete PROVE Inv'
  OBVIOUS
<1> DEFINE d == call.d
<1>1. d \in Sides /\ call.op = "OnPullComplete" /\ call.rv \in Nat \cup Errors
  BY DEF Inv, ConnectInv, OnPullComplete, Calling, RelayOps, ControlTypeOK
<1>2. ~Failed /\ Activity(d) = 1
  BY <1>1 DEF Inv, FailedInv, RunInv, Activity, One, RelayOps, ControlTypeOK
\* Before Run it is the early pull that completes.
<1>3. /\ ~can_push_to_server => d = kClient /\ early_pull_pending
      /\ owner # "new"
      /\ next_state \notin {"CONNECT_CLIENT", "CONNECT_CLIENT_COMPLETE"}
  BY <1>1, <1>2 DEF Inv, EarlyInv, ConnectInv, One, RunInv
<1>4. /\ UNCHANGED <<setupVars, connectVars, can_push_to_server, paddingVars,
                     posted, resume>>
      /\ IF EarlyPull(d) THEN /\ early_pull_pending' = FALSE
                              /\ early_pull_result' =
                                   IF call.rv # 0 THEN call.rv
                                   ELSE ERR_CONNECTION_CLOSED
         ELSE UNCHANGED <<early_pull_pending, early_pull_result>>
  BY DEF OnPullComplete
<1>5. early_pull_result' \in Nat \cup Errors \cup {ERR_IO_PENDING}
  BY <1>1, <1>4 DEF Inv, ControlTypeOK
<1>6. early_pull_pending' \in BOOLEAN
  BY <1>4 DEF Inv, ControlTypeOK
<1>7. CASE call.rv > 0
  <2>1. /\ call' = IF d = kClient /\ ~can_push_to_server THEN NoCall
                   ELSE Frame("Push", d, call.rv)
        /\ UNCHANGED <<linkVars, reading, writing, ownerVars>>
    BY <1>1, <1>7 DEF OnPullComplete
  <2>2. Failed' = Failed
    BY <2>1 DEF Failed, linkVars
  <2> HIDE DEF d
  <2> USE <1>1, <1>2, <1>3, <1>4, <1>7, <2>1, <2>2
          DEF Inv, Frame, NoCall, setupVars, connectVars, paddingVars, linkVars,
              ownerVars
  <2>3. ControlTypeOK'
    <3>1. call' \in [op : Ops, d : Sides \cup {kNone}, rv : Nat \cup Errors]
      BY DEF Ops
    <3> QED
      BY <3>1, <1>5, <1>6 DEF ControlTypeOK
  <2>4. /\ can_push_to_server =>
             /\ Activity(kClient)' = Activity(kClient)
             /\ Activity(kServer)' = Activity(kServer)
        /\ ~can_push_to_server =>
             /\ Activity(kClient)' = 0
             /\ Activity(kServer)' = Activity(kServer)
    BY DEF Activity, One, RelayOps, ControlTypeOK, d
  <2>5. FailedInv'
    BY DEF FailedInv
  <2>6. ConnectInv'
    BY DEF ConnectInv, RelayOps, d
  <2>7. EarlyInv'
    BY <2>4 DEF EarlyInv, EarlyPull, One
  <2>8. RunInv'
    BY <2>4 DEF RunInv, EarlyInv
  <2>9. WriteInv'
    BY DEF WriteInv
  <2> QED
    BY <2>3, <2>5, <2>6, <2>7, <2>8, <2>9
<1>8. CASE call.rv <= 0
  <2> DEFINE ended == IF call.rv # 0 THEN call.rv ELSE ERR_CONNECTION_CLOSED
  <2>1. ended \in Errors
    BY <1>1, <1>8
  <2>2. call' = NoCall /\ OnPullError(d, Other(d), ended)
    BY <1>1, <1>8 DEF OnPullComplete
  \* Both sockets are closed: no write to the other side can be pending.
  <2>3. /\ sockets' = {} /\ write_pending' = {} /\ reading' = {} /\ writing' = {}
        /\ errors' = [errors EXCEPT ![d] = ended]
        /\ OnBothDisconnected(errors')
    <3>1. {d} \cup ({Other(d)} \ write_pending) = Sides
      BY <1>1, PendingWrites
    <3>2. Disconnect(Sides, write_pending, [errors EXCEPT ![d] = ended])
      BY <2>2, <3>1 DEF OnPullError
    <3>3. /\ sockets \subseteq Sides /\ write_pending \subseteq sockets
          /\ reading \subseteq Sides /\ writing \subseteq Sides
      BY PendingWrites DEF Inv, ControlTypeOK
    <3> HIDE DEF d, ended
    <3> QED
      BY <3>2, <3>3 DEF Disconnect
  <2>4. IF can_push_to_server
        THEN run_callback' = FALSE /\ owner' = "closed" /\ reason' \in Errors \cup {OK}
        ELSE UNCHANGED <<run_callback, owner, reason>> /\ ~run_callback
    <3>1. run_callback <=> can_push_to_server
      BY <1>2 DEF Inv, RunInv
    <3>2. errors' \in [Sides -> Errors \cup {OK}]
      BY <1>1, <2>1, <2>3 DEF Inv, ControlTypeOK
    <3>3. can_push_to_server => owner # "closed"
      BY <1>2 DEF Inv, RunInv
    <3> QED
      BY <2>3, <3>1, <3>2, <3>3
         DEF OnBothDisconnected, BothDisconnectedResult, Close, ownerVars
  <2>5. Failed'
    BY <1>1, <2>1, <2>3 DEF Failed, Inv, ControlTypeOK
  <2>owner. /\ reason' \in Errors \cup {OK}
            /\ owner' \in {"new", "connecting", "running", "closed", "deleted"}
    BY <2>4 DEF Inv, ControlTypeOK
  <2>callback. run_callback' \in BOOLEAN
    BY <2>4 DEF Inv, ControlTypeOK
  <2> HIDE DEF d, ended
  <2> USE <1>1, <1>2, <1>3, <1>4, <1>8, <2>1, <2>2, <2>3, <2>4, <2>5
          DEF Inv, Frame, NoCall, setupVars, connectVars, paddingVars
  <2>6. ControlTypeOK'
    <3>1. call' \in [op : Ops, d : Sides \cup {kNone}, rv : Nat \cup Errors]
      BY DEF Ops
    <3>2. errors' \in [Sides -> Errors \cup {OK}]
      BY DEF ControlTypeOK
    <3> QED
      BY <3>1, <3>2, <1>5, <1>6, <2>owner, <2>callback
         DEF ControlTypeOK
  <2>7. /\ Activity(kClient)' <= Activity(kClient)
        /\ Activity(kServer)' <= Activity(kServer)
        /\ Activity(kClient)' = posted[kClient]
        /\ Activity(kServer)' \in Nat
    BY DEF Activity, One, RelayOps, ControlTypeOK
  <2>8. FailedInv'
    BY DEF FailedInv
  <2>9. ConnectInv'
    BY DEF ConnectInv, RelayOps, EarlyPull
  <2>10. EarlyInv'
    BY <2>7 DEF EarlyInv, EarlyPull, One
  <2>11. RunInv'
    BY <2>7, ActivityType DEF RunInv
  <2>12. WriteInv'
    BY DEF WriteInv
  <2> QED
    BY <2>6, <2>8, <2>9, <2>10, <2>11, <2>12
<1> QED
  BY <1>1, <1>7, <1>8

\* What Push and PushContinues have in common: the direction d, which was in a
\* handler, now waits for a Write or is in OnPushComplete.
WriteStarts(d) ==
  \/ writing' = writing \cup {Other(d)} /\ call' = NoCall
  \/ /\ writing' = writing
     /\ \E rv \in Nat \cup Errors : call' = Frame("OnPushComplete", d, rv)

LEMMA WriteStartsIt ==
  ASSUME NEW d, NEW bytes, Write(d, bytes)
  PROVE  WriteStarts(d)
BY WriteResultsType DEF Write, WriteStarts

LEMMA WriteStartsKeeps ==
  ASSUME Inv, call.op \in {"Push", "OnPushComplete"}, WriteStarts(call.d),
         write_pending' \in {write_pending, write_pending \cup {Other(call.d)}},
         UNCHANGED <<protocol, proxy, connectVars, earlyVars, detected_client,
                     padding_state_by_server, tunnel, sockets, errors,
                     run_callback, reading, posted, ownerVars, resume>>,
         cached_server' \in PaddingSupport
  PROVE  Inv'
<1> DEFINE d == call.d
<1> USE DEF Inv, connectVars, earlyVars, ownerVars, Frame, NoCall
<1>1. /\ d \in Sides /\ can_push_to_server /\ ~Failed
      /\ Failed' = Failed
  BY DEF ConnectInv, EarlyInv, FailedInv, Failed, RelayOps
<1>2. PICK rv \in Nat \cup Errors :
        \/ writing' = writing \cup {Other(d)} /\ call' = NoCall
        \/ writing' = writing /\ call' = Frame("OnPushComplete", d, rv)
  BY DEF WriteStarts
<1>3. ControlTypeOK'
  <2>1. call' \in [op : Ops, d : Sides \cup {kNone}, rv : Nat \cup Errors]
    BY <1>1, <1>2 DEF Ops
  <2>2. writing' \subseteq Sides /\ write_pending' \subseteq Sides
    BY <1>1, <1>2 DEF ControlTypeOK
  <2> QED
    BY <2>1, <2>2 DEF ControlTypeOK
<1>4. /\ Activity(kClient)' = Activity(kClient)
      /\ Activity(kServer)' = Activity(kServer)
  BY <1>1, <1>2 DEF Activity, One, RelayOps, ControlTypeOK, RunInv
<1>5. FailedInv'
  BY <1>1, <1>2 DEF FailedInv
<1>6. ConnectInv'
  BY <1>1, <1>2 DEF ConnectInv, RelayOps
<1>7. EarlyInv'
  BY <1>1, <1>2 DEF EarlyInv
<1>8. RunInv'
  BY <1>1, <1>4 DEF RunInv
<1>9. WriteInv'
  BY <1>1, <1>2 DEF WriteInv, ControlTypeOK
<1> QED
  BY <1>3, <1>5, <1>6, <1>7, <1>8, <1>9

LEMMA PushKeeps == Inv /\ Push => Inv'
<1> SUFFICES ASSUME Inv, Push PROVE Inv'
  OBVIOUS
<1> DEFINE d == call.d
<1>1. ASSUME NEW bytes, PushBytes(d, bytes)
      PROVE  WriteStarts(d) /\ write_pending' = write_pending \cup {Other(d)}
  BY <1>1, WriteStartsIt DEF PushBytes
<1>2. \/ WriteStarts(d) /\ write_pending' = write_pending \cup {Other(d)}
      \/ /\ call' = Frame("OnPushComplete", d, OK)
         /\ UNCHANGED <<write_pending, writing>>
  BY <1>1 DEF Push
<1>3. /\ WriteStarts(d)
      /\ write_pending' \in {write_pending, write_pending \cup {Other(d)}}
  BY <1>2 DEF WriteStarts, Frame
<1>4. /\ UNCHANGED <<protocol, proxy, connectVars, earlyVars, detected_client,
                     padding_state_by_server, tunnel, sockets, errors,
                     run_callback, reading, posted, ownerVars, resume>>
      /\ cached_server' \in PaddingSupport
      /\ call.op = "Push"
  BY CacheType DEF Inv, Push, Calling, CacheServerPaddingSupport, setupVars
<1> QED
  BY <1>3, <1>4, WriteStartsKeeps

LEMMA PushContinuesKeeps == Inv /\ PushContinues => Inv'
<1> SUFFICES ASSUME Inv, PushContinues PROVE Inv'
  OBVIOUS
<1>1. WriteStarts(call.d) /\ call.op = "OnPushComplete"
  BY WriteStartsIt DEF PushContinues, Calling
<1>2. /\ UNCHANGED <<protocol, proxy, connectVars, earlyVars, detected_client,
                     padding_state_by_server, tunnel, sockets, errors,
                     run_callback, reading, posted, ownerVars, resume,
                     write_pending>>
      /\ cached_server' \in PaddingSupport
  BY DEF Inv, ControlTypeOK, PushContinues, setupVars, paddingVars, linkVars
<1> QED
  BY <1>1, <1>2, WriteStartsKeeps

LEMMA WriteDoneKeeps == ASSUME NEW s \in Sides PROVE Inv /\ WriteDone(s) => Inv'
<1> SUFFICES ASSUME Inv, WriteDone(s) PROVE Inv'
  OBVIOUS
<1>1. PICK rv \in Nat \cup Errors : call' = Frame("OnPushComplete", Other(s), rv)
  BY WriteResultsType DEF WriteDone
<1> USE DEF Inv, WriteDone, Idle, Returned, Calling, Frame,
        setupVars, connectVars, earlyVars, paddingVars, linkVars, ownerVars
<1>2. ControlTypeOK'
  BY <1>1 DEF ControlTypeOK, Ops
<1>3. Failed' = Failed /\ ~Failed /\ can_push_to_server
  BY DEF Failed, FailedInv, EarlyInv
<1>4. /\ Activity(kClient)' = Activity(kClient)
      /\ Activity(kServer)' = Activity(kServer)
  BY <1>1 DEF Activity, One, RelayOps, ControlTypeOK
<1>5. FailedInv'
  BY <1>1, <1>3 DEF FailedInv
<1>6. ConnectInv'
  BY <1>1, <1>3 DEF ConnectInv, RelayOps
<1>7. EarlyInv'
  BY <1>1, <1>3 DEF EarlyInv
<1>8. RunInv'
  BY <1>3, <1>4 DEF RunInv
<1>9. WriteInv'
  BY <1>1 DEF WriteInv, ControlTypeOK
<1> QED
  BY <1>2, <1>5, <1>6, <1>7, <1>8, <1>9

LEMMA OnPushCompleteKeeps == Inv /\ OnPushComplete => Inv'
<1> SUFFICES ASSUME Inv, OnPushComplete PROVE Inv'
  OBVIOUS
<1> DEFINE d == call.d
<1>1. d \in Sides /\ call.op = "OnPushComplete" /\ call.rv \in Nat \cup Errors
  BY DEF Inv, ConnectInv, OnPushComplete, Calling, RelayOps, ControlTypeOK
<1>2. ~Failed /\ can_push_to_server /\ owner = "running" /\ run_callback
  BY <1>1 DEF Inv, FailedInv, EarlyInv, RunInv
<1>3. sockets = Sides /\ next_state = "NONE" /\ resume \in {"none", "Run"}
  <2>1. kClient \in sockets /\ kServer \in sockets /\ sockets \subseteq Sides
    BY <1>2 DEF Inv, FailedInv, RunInv, ControlTypeOK
  <2>2. next_state = "NONE" /\ resume \in {"none", "Run"}
    BY <1>2 DEF Inv, ConnectInv, ControlTypeOK
  <2> QED
    BY <2>1, <2>2
<1>4. /\ UNCHANGED <<setupVars, connectVars, earlyVars, paddingVars, resume>>
      /\ \/ posted' = [posted EXCEPT ![d] = @ + 1] /\ call' = NoCall
         \/ posted' = posted /\ call' = Frame("Pull", d, OK)
      /\ OnPushError(d, Other(d), IF call.rv >= 0 THEN OK ELSE call.rv,
                     write_pending \ {Other(d)})
  BY DEF OnPushComplete
<1>5. call' \in [op : Ops, d : Sides \cup {kNone}, rv : Nat \cup Errors]
  BY <1>1, <1>4 DEF Ops, Frame, NoCall
<1>6. posted' \in [Sides -> Nat]
  BY <1>1, <1>4 DEF Inv, ControlTypeOK
\* A write that succeeded leaves the links alone.
<1>7. CASE call.rv >= 0
  <2>1. Disconnect({}, write_pending \ {Other(d)}, errors)
    BY <1>1, <1>3, <1>4, <1>7 DEF OnPushError
  <2>2. /\ write_pending' = write_pending \ {Other(d)}
        /\ UNCHANGED <<sockets, errors, reading, writing, run_callback, owner, reason>>
    BY <1>3, <2>1 DEF Disconnect, ownerVars
  <2>3. Failed' = Failed
    BY <2>2 DEF Failed
  <2> HIDE DEF d
  <2> USE <1>1, <1>2, <1>3, <1>4, <1>5, <1>6, <2>2, <2>3
          DEF Inv, Frame, NoCall, setupVars, connectVars, earlyVars, paddingVars
  <2>4. ControlTypeOK'
    BY DEF ControlTypeOK
  <2>5. /\ Activity(kClient)' = Activity(kClient)
        /\ Activity(kServer)' = Activity(kServer)
    BY DEF Activity, One, RelayOps, ControlTypeOK, d
  <2>6. FailedInv'
    BY DEF FailedInv
  <2>7. ConnectInv'
    BY DEF ConnectInv, RelayOps
  <2>8. EarlyInv'
    BY DEF EarlyInv
  <2>9. RunInv'
    BY <2>5 DEF RunInv
  <2>10. WriteInv'
    BY DEF WriteInv, d, ControlTypeOK
  <2> QED
    BY <2>4, <2>6, <2>7, <2>8, <2>9, <2>10
\* A write that failed closes both sockets.
<1>8. CASE call.rv < 0
  <2>1. /\ call.rv \in Errors
        /\ Disconnect(Sides, write_pending \ {Other(d)},
                      [errors EXCEPT ![Other(d)] = call.rv])
    <3>1. call.rv \in Errors /\ (IF call.rv >= 0 THEN OK ELSE call.rv) = call.rv
      BY <1>1, <1>8
    <3>2. OnPushError(d, Other(d), call.rv, write_pending \ {Other(d)})
      BY <1>4, <3>1
    <3> QED
      BY <1>8, <3>1, <3>2 DEF OnPushError
  <2>2. /\ sockets' = {} /\ write_pending' = {} /\ reading' = {} /\ writing' = {}
        /\ errors' = [errors EXCEPT ![Other(d)] = call.rv]
        /\ OnBothDisconnected(errors')
    <3>1. write_pending \subseteq Sides /\ reading \subseteq Sides /\ writing \subseteq Sides
      BY DEF Inv, ControlTypeOK
    <3> HIDE DEF d
    <3> QED
      BY <1>3, <2>1, <3>1 DEF Disconnect
  <2>3. errors' \in [Sides -> Errors \cup {OK}]
    BY <1>1, <2>1, <2>2 DEF Inv, ControlTypeOK
  <2>4. run_callback' = FALSE /\ owner' = "closed" /\ reason' \in Errors \cup {OK}
    BY <1>2, <2>2, <2>3
       DEF OnBothDisconnected, BothDisconnectedResult, Close, ownerVars
  <2>callback. run_callback' \in BOOLEAN
    BY <2>4
  <2>5. Failed'
    BY <1>1, <2>1, <2>2 DEF Failed, Inv, ControlTypeOK
  <2> HIDE DEF d
  <2> USE <1>1, <1>2, <1>3, <1>4, <1>5, <1>6, <2>2, <2>3, <2>4, <2>5
          DEF Inv, Frame, NoCall, setupVars, connectVars, earlyVars, paddingVars
  <2>6. ControlTypeOK'
    BY <2>callback DEF ControlTypeOK
  <2>7. /\ Activity(kClient)' <= Activity(kClient)
        /\ Activity(kServer)' <= Activity(kServer)
        /\ Activity(kClient)' \in Nat /\ Activity(kServer)' \in Nat
    BY DEF Activity, One, RelayOps, ControlTypeOK, d
  <2>8. FailedInv'
    BY DEF FailedInv
  <2>9. ConnectInv'
    BY DEF ConnectInv, RelayOps
  <2>10. EarlyInv'
    BY DEF EarlyInv
  <2>11. RunInv'
    BY <2>7, ActivityType DEF RunInv
  <2>12. WriteInv'
    BY DEF WriteInv
  <2> QED
    BY <2>6, <2>8, <2>9, <2>10, <2>11, <2>12
<1> QED
  BY <1>1, <1>7, <1>8

LEMMA PostedPullKeeps == ASSUME NEW d \in Sides PROVE Inv /\ PostedPull(d) => Inv'
<1> SUFFICES ASSUME Inv, PostedPull(d) PROVE Inv'
  OBVIOUS
<1> USE DEF Inv, PostedPull, Idle, Returned, Calling, Frame,
        setupVars, connectVars, earlyVars, paddingVars, linkVars, ownerVars
<1>1. ControlTypeOK'
  BY DEF ControlTypeOK, Ops
<1>2. Failed' = Failed
  BY DEF Failed
<1>3. /\ Activity(kClient)' = Activity(kClient)
      /\ Activity(kServer)' = Activity(kServer)
      /\ Activity(d) > 0
  BY DEF Activity, One, RelayOps, ControlTypeOK
<1>4. can_push_to_server
  BY <1>3 DEF EarlyInv
<1>5. FailedInv'
  BY <1>2 DEF FailedInv
<1>6. ConnectInv'
  BY <1>2, <1>4 DEF ConnectInv, RelayOps
<1>7. EarlyInv'
  BY <1>2, <1>4 DEF EarlyInv
<1>8. RunInv'
  BY <1>2, <1>3 DEF RunInv
<1>9. WriteInv'
  BY DEF WriteInv
<1> QED
  BY <1>1, <1>5, <1>6, <1>7, <1>8, <1>9

LEMMA DeleteKeeps == Inv /\ Delete => Inv'
<1> SUFFICES ASSUME Inv, Delete PROVE Inv'
  OBVIOUS
<1> USE DEF Inv, Delete, Idle, Returned, Calling,
        setupVars, earlyVars, paddingVars, stackVars
<1>1. ControlTypeOK'
  <2>1. posted' \in [Sides -> Nat]
    OBVIOUS
  <2>2. full_duplex' \in BOOLEAN /\ connect_callback' \in BOOLEAN /\ run_callback' \in BOOLEAN
    OBVIOUS
  <2> QED
    BY <2>1, <2>2 DEF ControlTypeOK
<1>2. Failed' = Failed /\ (can_push_to_server => Failed)
  BY DEF Failed, RunInv
<1>3. Activity(kClient)' = 0 /\ Activity(kServer)' = 0
  BY DEF Activity, One, RelayOps
<1>4. FailedInv'
  BY <1>2 DEF FailedInv
<1>5. ConnectInv'
  BY DEF ConnectInv, RelayOps
<1>6. EarlyInv'
  BY <1>3 DEF EarlyInv, One, ConnectInv
<1>7. RunInv'
  BY <1>2, <1>3 DEF RunInv
<1>8. WriteInv'
  BY <1>2 DEF WriteInv, FailedInv, EarlyInv
<1> QED
  BY <1>1, <1>4, <1>5, <1>6, <1>7, <1>8

LEMMA StutterKeeps == Inv /\ UNCHANGED vars => Inv'
<1> SUFFICES ASSUME Inv, UNCHANGED vars PROVE Inv'
  OBVIOUS
<1> USE DEF Inv, vars, setupVars, connectVars, earlyVars, paddingVars, linkVars,
        bufferVars, codecVars, ioVars, dataVars, ownerVars, stackVars
<1>1. Failed' = Failed
  BY DEF Failed
<1>2. /\ Activity(kClient)' = Activity(kClient)
      /\ Activity(kServer)' = Activity(kServer)
  BY DEF Activity, One
<1>3. ControlTypeOK'
  BY DEF ControlTypeOK
<1>4. FailedInv' /\ ConnectInv'
  BY <1>1 DEF FailedInv, ConnectInv
<1>5. EarlyInv'
  BY <1>1, <1>2 DEF EarlyInv
<1>6. RunInv'
  BY <1>1, <1>2 DEF RunInv
<1>7. WriteInv'
  BY DEF WriteInv
<1> QED
  BY <1>3, <1>4, <1>5, <1>6, <1>7

LEMMA NextKeeps == Inv /\ [Next]_vars => Inv'
<1> SUFFICES ASSUME Inv, [Next]_vars PROVE Inv'
  OBVIOUS
<1>1. CASE ConnectStep
  BY <1>1, DoConnectClientKeeps, DoConnectClientCompleteKeeps,
     EarlyPullReturnedKeeps, DoConnectServerKeeps, DoConnectServerCompleteKeeps,
     HandleConnectResultKeeps
     DEF ConnectStep
<1>2. CASE RelayStep
  BY <1>2, RunKeeps, RunFailsKeeps, RunReturnedKeeps, PullKeeps,
     PullReturnsKeeps, OnPullCompleteKeeps, PushKeeps, PushContinuesKeeps,
     OnPushCompleteKeeps
     DEF RelayStep
<1>3. CASE Event
  BY <1>3, ConnectKeeps, ClientConnectedKeeps, ServerConnectedKeeps,
     DeleteKeeps, OnBeforeTunnelRequestKeeps, OnTunnelHeadersReceivedKeeps,
     OtherTunnelHeadersReceivedKeeps, ReadDoneKeeps, WriteDoneKeeps,
     PostedPullKeeps
     DEF Event
<1>4. CASE Deleted \/ UNCHANGED vars
  BY <1>4, StutterKeeps DEF Deleted
<1> QED
  BY <1>1, <1>2, <1>3, <1>4 DEF Next

(***************************************************************************)
(* The inductive invariant holds in every behaviour of the connection.     *)
(***************************************************************************)
THEOREM Invariance == Spec => []Inv
<1>1. Init => Inv
  BY InitInv
<1>2. Inv /\ [Next]_vars => Inv'
  BY NextKeeps
<1> QED
  BY <1>1, <1>2, PTL DEF Spec

(***************************************************************************)
(* A direction never does two things at once: Pull never issues a second   *)
(* Read, Push never a second Write, and a posted Pull never runs beside    *)
(* either, for every interleaving of the early pull, Run, synchronous      *)
(* completions and yields.                                                 *)
(***************************************************************************)
THEOREM NeverOverlapping == Spec => []NoOverlappingOperations
<1>1. Inv => NoOverlappingOperations
  BY DEF Inv, RunInv, NoOverlappingOperations
<1> QED
  BY <1>1, Invariance, PTL

(***************************************************************************)
(* Between Run and the run callback each direction always has exactly one  *)
(* operation that will wake it up, whichever of its three states the early *)
(* pull was in when Run was called.                                        *)
(***************************************************************************)
THEOREM NeverStalled == Spec => []NoStalledDirection
<1>1. Inv => NoStalledDirection
  BY DEF Inv, RunInv, EarlyInv, NoStalledDirection, One
<1> QED
  BY <1>1, Invariance, PTL

(***************************************************************************)
(* Pull, Push and OnPushComplete never use a socket that Disconnect        *)
(* dropped or that was not connected yet.                                  *)
(***************************************************************************)
THEOREM AlwaysUsable == Spec => []SocketsUsable
<1>1. Inv => SocketsUsable
  <2> SUFFICES ASSUME Inv PROVE SocketsUsable
    OBVIOUS
  <2>1. ASSUME call.op = "Pull", ~Failed PROVE call.d \in sockets
    <3>1. CASE call.d = kClient
      BY <2>1, <3>1 DEF Inv, FailedInv
    <3>2. CASE call.d = kServer
      <4>1. Activity(kServer) > 0
        BY <2>1, <3>2 DEF Inv, Activity, One, RelayOps, ControlTypeOK
      <4> QED
        BY <2>1, <3>2, <4>1 DEF Inv, EarlyInv, RunInv
    <3> QED
      BY <2>1, <3>1, <3>2 DEF Inv, ConnectInv, RelayOps
  <2>2. ASSUME call.op \in {"Push", "OnPushComplete"}
        PROVE  Other(call.d) \in sockets
    <3>1. can_push_to_server /\ ~Failed /\ call.d \in Sides
      BY <2>2 DEF Inv, EarlyInv, FailedInv, ConnectInv, RelayOps
    <3> QED
      BY <3>1 DEF Inv, FailedInv, RunInv
  <2> QED
    BY <2>1, <2>2 DEF SocketsUsable, Calling
<1> QED
  BY <1>1, Invariance, PTL
=============================================================================
