------------------------- MODULE PaddingNegotiation -------------------------
(***************************************************************************)
(* Who pads what.  Connections go through the user's naive instance (hop   *)
(* 1) and its proxy server, which is a naive instance too (hop 2) or a     *)
(* plain proxy, and which its operator may replace by the other kind at    *)
(* any time.  Each naive instance learns what its server supports from the *)
(* replies to all its tunnels, and a connection decides by what is known   *)
(* when it first asks: with Fast Open before its own reply.                *)
(***************************************************************************)
EXTENDS Integers, FiniteSets

CONSTANTS
  Conns,       \* the connections
  Users,       \* what the user's connections support: kCapable if the user is
               \* a naive instance, kIncapable otherwise
  Tunnels,     \* of {"h2", "http"}: only the former have Fast Open
  Upstreams,   \* where hop 2 connects to: of {"direct", "plain", "naive"}
  MaxChanges,  \* bound: how often the server is replaced
  MaxRefusals  \* bound: how many tunnels are refused

ASSUME ConnsAssumption == IsFiniteSet(Conns)
ASSUME ChoicesAssumption ==
  /\ Users \subseteq {"kCapable", "kIncapable"} /\ Tunnels \subseteq {"h2", "http"}
  /\ Upstreams \subseteq {"direct", "plain", "naive"}
ASSUME BoundsAssumption == MaxChanges \in Nat /\ MaxRefusals \in Nat

VARIABLES
  config,        \* the choices made: [user, tunnel, upstream]
  server,        \* what runs as the user's proxy server
  generation,    \* how often it was replaced
  refusals,      \* how many tunnels were refused
  padding_state, \* padding_state_by_server_ of each hop
  conn,          \* each connection at each hop
  heard,         \* the generation of the reply each hop heard last, if it
                 \* opened a tunnel (history)
  basis          \* the generation a connection's decision rests on (history)

vars == <<config, server, generation, refusals, padding_state, conn, heard, basis>>

Hops == {1, 2}

\* A connection at one hop: its phase (none, new, detected, requested, connected,
\* running, closed), the support its delegate detected of the client and cached of
\* the server, and the reply under way (none, padding, plain, refused).
\* The reply under way; by is who handled the request, at the generation then.
NoConn == [phase |-> "none", client |-> "kUnknown", cached |-> "kUnknown",
           reply |-> "none", by |-> "none", at |-> 0]

Init ==
  /\ config \in [user : Users, tunnel : Tunnels, upstream : Upstreams]
  /\ server \in {"naive", "plain"} /\ generation = 0 /\ refusals = 0
  /\ padding_state = [h \in Hops |-> "kUnknown"]
  /\ conn = [h \in Hops |-> [c \in Conns |-> NoConn]]
  /\ heard = [h \in Hops |-> -1]
  /\ basis = [h \in Hops |-> [c \in Conns |-> -1]]

\* What hop h talks to.  Only hop 1's server is replaced.
Upstream(h) == IF h = 1 THEN server ELSE config.upstream
Generation(h) == IF h = 1 THEN generation ELSE 0

GetProxyServerPaddingSupport(h) ==
  IF Upstream(h) = "direct" THEN "kIncapable" ELSE padding_state[h]

GetServerPaddingSupport(h, c) ==
  IF conn[h][c].cached # "kUnknown" THEN conn[h][c].cached
  ELSE GetProxyServerPaddingSupport(h)

\* A connection asks for its server's support, and remembers the answer.
Rests(h, c) ==
  basis' = IF conn[h][c].cached # "kUnknown" \/ GetProxyServerPaddingSupport(h) = "kUnknown"
           THEN basis
           ELSE [basis EXCEPT ![h][c] = IF Upstream(h) = "direct" THEN 0 ELSE heard[h]]

GetPaddingDirection(h, c) ==
  CASE conn[h][c].client = "kCapable" /\ conn[h][c].cached = "kIncapable" -> "kServer"
    [] conn[h][c].client = "kIncapable" /\ conn[h][c].cached = "kCapable" -> "kClient"
    [] OTHER -> "kNone"

-----------------------------------------------------------------------------
\* The user's client connects to hop 1.
Accept(c) ==
  /\ conn[1][c].phase = "none"
  /\ conn' = [conn EXCEPT ![1][c].phase = "new"]
  /\ UNCHANGED <<config, server, generation, refusals, padding_state, heard, basis>>

\* What the client socket finds out: whether the request has the padding
\* header, which a naive instance always sends.
DetectedClient(h) == IF h = 1 THEN config.user ELSE "kCapable"

\* IsPaddingSupportKnown asks, and so caches, for the server.
DoConnectClientComplete(h, c) ==
  /\ conn[h][c].phase = "new"
  /\ conn' = [conn EXCEPT ![h][c].phase = "detected", ![h][c].client = DetectedClient(h),
                          ![h][c].cached = GetServerPaddingSupport(h, c)]
  /\ Rests(h, c)
  /\ UNCHANGED <<config, server, generation, refusals, padding_state, heard>>

\* Mutant: Fast Open although nothing is known of the server.
UsesFastOpenAlways(h) == Upstream(h) # "direct" /\ config.tunnel = "h2"

\* OnBeforeTunnelRequest, of an HTTP/2 or HTTP/3 tunnel.
UsesFastOpen(h) ==
  /\ Upstream(h) # "direct" /\ config.tunnel = "h2"
  /\ padding_state[h] # "kUnknown"

\* The tunnel is requested; with Fast Open, and without a tunnel, the
\* connection is connected without a reply.
DoConnectServer(h, c) ==
  /\ conn[h][c].phase = "detected"
  /\ conn' = [conn EXCEPT
       ![h][c].phase = IF UsesFastOpen(h) \/ Upstream(h) = "direct"
                       THEN "connected" ELSE "requested",
       ![h][c].by = IF Upstream(h) = "direct" THEN "direct" ELSE @]
  /\ UNCHANGED <<config, server, generation, refusals, padding_state, heard, basis>>

\* The request reaches whoever is the server then.  A naive server answers
\* with the header and has a new connection; a plain one has neither.
Handle(h, c) ==
  /\ conn[h][c].phase \in {"requested", "connected", "running"} /\ conn[h][c].by = "none"
  /\ LET answered == [conn EXCEPT
           ![h][c].by = Upstream(h), ![h][c].at = Generation(h),
           ![h][c].reply = IF Upstream(h) = "naive" THEN "padding" ELSE "plain"]
     IN conn' = IF h = 1 /\ server = "naive"
                THEN [answered EXCEPT ![2][c].phase = "new"] ELSE answered
  /\ UNCHANGED <<config, server, generation, refusals, padding_state, heard, basis>>

\* The server, or the web server in front of it, asks for authentication or
\* answers with an error, without the padding header.
Refuse(h, c) ==
  /\ conn[h][c].phase \in {"requested", "connected", "running"} /\ conn[h][c].by = "none"
  /\ refusals < MaxRefusals /\ refusals' = refusals + 1
  /\ conn' = [conn EXCEPT ![h][c].by = "refused", ![h][c].reply = "refused"]
  /\ UNCHANGED <<config, server, generation, padding_state, heard, basis>>

\* Mutant: only the first reply is believed.
LearnedOnce(h, c) ==
  IF padding_state[h] # "kUnknown" THEN padding_state[h]
  ELSE IF conn[h][c].reply = "padding" THEN "kCapable" ELSE "kIncapable"

Learned(h, c) == IF conn[h][c].reply = "padding" THEN "kCapable" ELSE "kIncapable"

\* Every reply is learned from, before its status is looked at.
OnTunnelHeadersReceived(h, c) ==
  /\ conn[h][c].reply # "none"
  /\ padding_state' = [padding_state EXCEPT ![h] = Learned(h, c)]
  /\ heard' = [heard EXCEPT ![h] = IF conn[h][c].reply = "refused" THEN -1
                                   ELSE conn[h][c].at]
  /\ conn' = [conn EXCEPT
       ![h][c].reply = "none",
       ![h][c].phase = IF conn[h][c].reply = "refused" THEN "closed"
                       ELSE IF @ = "requested" THEN "connected" ELSE @]
  /\ UNCHANGED <<config, server, generation, refusals, basis>>

\* The socket pool posts the result of the connect, so other replies may come
\* first; the first Pull asks for the server's support.
Run(h, c) ==
  /\ conn[h][c].phase = "connected"
  /\ conn' = [conn EXCEPT ![h][c].phase = "running",
                          ![h][c].cached = GetServerPaddingSupport(h, c)]
  /\ Rests(h, c)
  /\ UNCHANGED <<config, server, generation, refusals, padding_state, heard>>

\* The server's address is given to the other of a naive and a plain server;
\* both finish what they have.
Replace ==
  /\ generation < MaxChanges /\ generation' = generation + 1
  /\ server' = IF server = "naive" THEN "plain" ELSE "naive"
  /\ UNCHANGED <<config, refusals, padding_state, conn, heard, basis>>

Next ==
  \/ Replace
  \/ \E c \in Conns : Accept(c)
  \/ \E h \in Hops, c \in Conns :
       \/ DoConnectClientComplete(h, c) \/ DoConnectServer(h, c) \/ Run(h, c)
       \/ Handle(h, c) \/ Refuse(h, c) \/ OnTunnelHeadersReceived(h, c)

Spec == Init /\ [][Next]_vars

-----------------------------------------------------------------------------
(***************************************************************************)
(* The CHECKs of GetPaddingDirection hold at both hops and for every       *)
(* connection: a running connection knows the support of both its sides,   *)
(* although with Fast Open no reply of its own told it, and although other *)
(* connections' replies come between its connect and its run.              *)
(***************************************************************************)
SupportKnownWhenRunning ==
  \A h \in Hops, c \in Conns :
    conn[h][c].phase = "running" =>
      conn[h][c].client # "kUnknown" /\ conn[h][c].cached # "kUnknown"

\* How many layers of padding there are on what hop h writes.
Layers(h, c) ==
  LET direction == GetPaddingDirection(h, c)
  IN (IF conn[h][c].client = "kCapable" THEN 1 ELSE 0)
     + (CASE direction = "kClient" -> 1 [] direction = "kServer" -> -1 [] OTHER -> 0)

(***************************************************************************)
(* Whatever is learned from whom, a connection and the server that handles *)
(* it agree on the padding whenever the server is still the one whose last *)
(* reply the connection decided by: the server gets bytes padded once if   *)
(* it is a naive instance and plain ones otherwise.  A server's change of  *)
(* support misleads the connections that rest on earlier replies, and is   *)
(* followed by all those after them.                                       *)
(***************************************************************************)
ServerChangesFollowed ==
  \A h \in Hops, c \in Conns :
    conn[h][c].phase = "running" /\ conn[h][c].by \notin {"none", "refused"}
      /\ basis[h][c] = conn[h][c].at
    => Layers(h, c) = IF conn[h][c].by = "naive" THEN 1 ELSE 0
=============================================================================
