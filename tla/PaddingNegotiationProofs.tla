---------------------- MODULE PaddingNegotiationProofs ----------------------
(***************************************************************************)
(* Proofs that both hops know and agree on the padding, for any number of  *)
(* connections, of replaced servers and of refused tunnels.                *)
(***************************************************************************)
EXTENDS PaddingNegotiation, TLAPS

Supports == {"kUnknown", "kCapable", "kIncapable"}

Records ==
  [phase : {"none", "new", "detected", "requested", "connected", "running", "closed"},
   client : Supports, cached : Supports,
   reply : {"none", "padding", "plain", "refused"},
   by : {"none", "naive", "plain", "direct", "refused"}, at : Nat]

TypeInv ==
  /\ config \in [user : Users, tunnel : Tunnels, upstream : Upstreams]
  /\ server \in {"naive", "plain"} /\ generation \in Nat /\ refusals \in Nat
  /\ padding_state \in [Hops -> Supports]
  /\ conn \in [Hops -> [Conns -> Records]]
  /\ heard \in [Hops -> Int]
  /\ basis \in [Hops -> [Conns -> Int]]

\* What the server of hop h was when it had been replaced g times.
Kind(h, g) ==
  IF h = 2 THEN config.upstream
  ELSE IF (generation - g) % 2 = 0 THEN server
  ELSE IF server = "naive" THEN "plain" ELSE "naive"

Support(kind) == IF kind = "naive" THEN "kCapable" ELSE "kIncapable"

\* What hop h has learned is what the server it heard last supports, unless
\* that reply refused the tunnel.
HeardInv(h) ==
  /\ heard[h] <= Generation(h)
  /\ heard[h] >= 0 => padding_state[h] = Support(Kind(h, heard[h]))

\* A connection that has asked for its tunnel knows its client, and one that
\* has its tunnel will learn of its server, or has.
KnownInv(h, c) ==
  /\ conn[h][c].phase \notin {"none", "new"} => conn[h][c].client # "kUnknown"
  /\ conn[h][c].phase = "connected" => GetProxyServerPaddingSupport(h) # "kUnknown"
  /\ conn[h][c].phase = "running" => conn[h][c].cached # "kUnknown"

\* Who handled the request is who was the server then, and the reply says so.
HandledInv(h, c) ==
  /\ conn[h][c].at <= Generation(h)
  /\ conn[h][c].by \in {"naive", "plain"} => conn[h][c].by = Kind(h, conn[h][c].at)
  /\ conn[h][c].by = "direct" => Upstream(h) = "direct" /\ conn[h][c].at = 0
  /\ Upstream(h) = "direct" => /\ conn[h][c].phase # "requested"
                               /\ conn[h][c].reply = "none"
                               /\ conn[h][c].phase \in {"connected", "running"}
                                    => conn[h][c].by = "direct"
  /\ conn[h][c].phase \in {"none", "new"} => conn[h][c].reply = "none"
  /\ conn[h][c].reply = "padding" => conn[h][c].by = "naive"
  /\ conn[h][c].reply = "plain" => conn[h][c].by = "plain"

\* Only the naive server that handles a connection's request makes it a
\* connection of hop 2.
StartInv(c) == conn[1][c].by = "none" => conn[2][c].phase = "none"

\* What a connection decided by is what the server of that reply supports.
BasisInv(h, c) ==
  /\ basis[h][c] <= Generation(h)
  /\ basis[h][c] >= 0 => conn[h][c].cached = Support(Kind(h, basis[h][c]))

Inv ==
  /\ TypeInv
  /\ \A h \in Hops : HeardInv(h)
  /\ \A h \in Hops, c \in Conns : KnownInv(h, c) /\ HandledInv(h, c) /\ BasisInv(h, c)
  /\ \A c \in Conns : StartInv(c)

-----------------------------------------------------------------------------
\* The parts a step leaves alone.

Setting == <<config, server, generation>>

LEMMA SameKind ==
  ASSUME UNCHANGED Setting
  PROVE  /\ \A h : Upstream(h)' = Upstream(h) /\ Generation(h)' = Generation(h)
         /\ \A h, g : Kind(h, g)' = Kind(h, g)
BY DEF Setting, Upstream, Generation, Kind

\* What a connection at a hop decides and knows is kept by what others do.
LEMMA OthersKeep ==
  ASSUME TypeInv, UNCHANGED Setting, NEW h \in Hops, NEW c \in Conns,
         conn'[h][c] = conn[h][c], basis'[h][c] = basis[h][c],
         padding_state'[h] = padding_state[h] \/ padding_state'[h] # "kUnknown",
         KnownInv(h, c), HandledInv(h, c), BasisInv(h, c)
  PROVE  KnownInv(h, c)' /\ HandledInv(h, c)' /\ BasisInv(h, c)'
<1>1. KnownInv(h, c)'
  BY SameKind DEF KnownInv, GetProxyServerPaddingSupport
<1>2. HandledInv(h, c)'
  BY SameKind DEF HandledInv
<1>3. BasisInv(h, c)'
  BY SameKind DEF BasisInv
<1> QED BY <1>1, <1>2, <1>3

LEMMA HeardKeeps ==
  ASSUME UNCHANGED Setting, UNCHANGED <<heard, padding_state>>,
         NEW h \in Hops, HeardInv(h)
  PROVE  HeardInv(h)'
BY SameKind DEF HeardInv

-----------------------------------------------------------------------------
\* The steps.

LEMMA InitInv == Init => Inv
<1> SUFFICES ASSUME Init PROVE Inv
  OBVIOUS
<1>1. NoConn \in Records
  BY DEF NoConn, Records, Supports
<1>2. TypeInv
  BY <1>1 DEF Init, TypeInv, Supports
<1>3. \A h \in Hops : HeardInv(h)
  BY DEF Init, HeardInv, Generation
<1>4. ASSUME NEW h \in Hops, NEW c \in Conns
      PROVE  KnownInv(h, c) /\ HandledInv(h, c) /\ BasisInv(h, c)
  <2>1. conn[h][c] = NoConn /\ basis[h][c] = -1 /\ generation = 0
    BY DEF Init
  <2> QED BY <2>1 DEF NoConn, KnownInv, HandledInv, BasisInv, Generation
<1>5. \A c \in Conns : StartInv(c)
  BY DEF Init, StartInv, Hops, NoConn
<1> QED BY <1>2, <1>3, <1>4, <1>5 DEF Inv

\* A step of one connection.
LEMMA OneConnKeeps ==
  ASSUME Inv, UNCHANGED Setting, NEW h \in Hops, NEW c \in Conns,
         conn' \in [Hops -> [Conns -> Records]],
         \A k \in Hops, d \in Conns : (k # h \/ d # c) => conn'[k][d] = conn[k][d],
         refusals' \in Nat,
         padding_state' \in [Hops -> Supports], heard' \in [Hops -> Int],
         basis' \in [Hops -> [Conns -> Int]],
         \A k \in Hops : padding_state'[k] = padding_state[k] \/ padding_state'[k] # "kUnknown",
         \A k \in Hops : HeardInv(k)',
         \A k \in Hops, d \in Conns : (k # h \/ d # c) => basis'[k][d] = basis[k][d],
         KnownInv(h, c)', HandledInv(h, c)', BasisInv(h, c)',
         conn'[h][c].by = "none" => conn[h][c].by = "none",
         h = 2 => conn[h][c].phase # "none"
  PROVE  Inv'
<1>1. TypeInv'
  BY DEF TypeInv, Inv, Setting
<1>2. ASSUME NEW k \in Hops, NEW d \in Conns
      PROVE  KnownInv(k, d)' /\ HandledInv(k, d)' /\ BasisInv(k, d)'
  <2>1. CASE k = h /\ d = c
    BY <2>1
  <2>2. CASE k # h \/ d # c
    BY <2>2, OthersKeep DEF Inv
  <2> QED BY <2>1, <2>2
<1>3. ASSUME NEW d \in Conns PROVE StartInv(d)'
  BY DEF Inv, StartInv, Hops
<1> QED BY <1>1, <1>2, <1>3 DEF Inv

\* A connection whose reply, handler and decision stay.
LEMMA SameHandled ==
  ASSUME Inv, UNCHANGED Setting, NEW h \in Hops, NEW c \in Conns,
         conn'[h][c].at = conn[h][c].at, conn'[h][c].by = conn[h][c].by,
         conn'[h][c].reply \in {conn[h][c].reply, "none"},
         conn'[h][c].phase \in {"none", "new"} => conn[h][c].phase = "none",
         \/ conn'[h][c].phase \in {"new", "detected", "closed"}
         \/ {conn[h][c].phase, conn'[h][c].phase} \subseteq {"connected", "running"}
         \/ Upstream(h) # "direct"
  PROVE  HandledInv(h, c)'
BY SameKind DEF HandledInv, Inv

LEMMA AcceptKeeps == ASSUME NEW c \in Conns PROVE Inv /\ Accept(c) => Inv'
<1> SUFFICES ASSUME Inv, Accept(c) PROVE Inv'
  OBVIOUS
<1> DEFINE r == [conn[1][c] EXCEPT !.phase = "new"]
<1>1. /\ UNCHANGED Setting /\ UNCHANGED <<heard, padding_state, basis, refusals>>
      /\ conn[1][c].phase = "none"
  BY DEF Accept, Setting
<1>2. 1 \in Hops
  BY DEF Hops
<1>3. conn[1][c] \in Records
  BY <1>2 DEF Inv, TypeInv
<1>4. r \in Records
  BY <1>3 DEF Records
<1>5. conn' = [conn EXCEPT ![1][c] = r]
  BY Zenon DEF Accept
<1>6. /\ r.phase = "new" /\ r.cached = conn[1][c].cached /\ r.by = conn[1][c].by
      /\ r.at = conn[1][c].at /\ r.reply = conn[1][c].reply
  BY <1>3 DEF Records
<1> HIDE DEF r
<1>7. /\ conn' \in [Hops -> [Conns -> Records]]
      /\ conn'[1][c] = r
      /\ \A k \in Hops, d \in Conns : (k # 1 \/ d # c) => conn'[k][d] = conn[k][d]
  BY <1>2, <1>4, <1>5 DEF Inv, TypeInv
<1>8. \A k \in Hops : HeardInv(k)'
  BY <1>1, HeardKeeps DEF Inv
<1>9. KnownInv(1, c)'
  BY <1>6, <1>7 DEF KnownInv
<1>10. HandledInv(1, c)'
  BY <1>1, <1>2, <1>6, <1>7, SameHandled
<1>11. BasisInv(1, c)'
  BY <1>1, <1>2, <1>6, <1>7, SameKind DEF BasisInv, Inv
<1>12. conn'[1][c].by = conn[1][c].by
  BY <1>6, <1>7
<1>13. padding_state' \in [Hops -> Supports] /\ heard' \in [Hops -> Int] /\ refusals' \in Nat
       /\ basis' \in [Hops -> [Conns -> Int]]
  BY <1>1 DEF Inv, TypeInv
<1> QED
  BY <1>1, <1>2, <1>7, <1>8, <1>9, <1>10, <1>11, <1>12, <1>13, OneConnKeeps

\* A connection that remembers its server's support decides by the reply its
\* hop heard last.
LEMMA RestsKeeps ==
  ASSUME Inv, UNCHANGED Setting, NEW h \in Hops, NEW c \in Conns, Rests(h, c),
         conn'[h][c].cached = GetServerPaddingSupport(h, c)
  PROVE  /\ basis' \in [Hops -> [Conns -> Int]] /\ BasisInv(h, c)'
         /\ \A k \in Hops, d \in Conns : (k # h \/ d # c) => basis'[k][d] = basis[k][d]
<1>1. /\ basis \in [Hops -> [Conns -> Int]] /\ heard[h] \in Int /\ generation \in Nat
      /\ config.upstream \in Upstreams /\ server \in {"naive", "plain"}
  BY DEF Inv, TypeInv
<1>2. BasisInv(h, c) /\ HeardInv(h)
  BY DEF Inv
<1>3. CASE conn[h][c].cached # "kUnknown" \/ GetProxyServerPaddingSupport(h) = "kUnknown"
  <2>1. basis' = basis
    BY <1>3 DEF Rests
  <2>2. BasisInv(h, c)'
    BY <1>2, <1>3, <2>1, SameKind DEF BasisInv, GetServerPaddingSupport, Support
  <2> QED BY <1>1, <2>1, <2>2
<1>4. CASE conn[h][c].cached = "kUnknown" /\ GetProxyServerPaddingSupport(h) # "kUnknown"
  <2> DEFINE b == IF Upstream(h) = "direct" THEN 0 ELSE heard[h]
  <2>1. basis' = [basis EXCEPT ![h][c] = b]
    BY <1>4 DEF Rests
  <2>2. b \in Int /\ b <= Generation(h)
    BY <1>1, <1>2 DEF HeardInv, Generation
  <2>3. b >= 0 => GetServerPaddingSupport(h, c) = Support(Kind(h, b))
    BY <1>1, <1>2, <1>4 DEF HeardInv, GetServerPaddingSupport, GetProxyServerPaddingSupport,
       Upstream, Kind, Support, Hops
  <2> HIDE DEF b
  <2>4. /\ basis' \in [Hops -> [Conns -> Int]] /\ basis'[h][c] = b
        /\ \A k \in Hops, d \in Conns : (k # h \/ d # c) => basis'[k][d] = basis[k][d]
    BY <1>1, <2>1, <2>2
  <2>5. BasisInv(h, c)'
    BY <2>2, <2>3, <2>4, SameKind DEF BasisInv
  <2> QED BY <2>4, <2>5
<1> QED BY <1>3, <1>4

LEMMA DoConnectClientCompleteKeeps ==
  ASSUME NEW h \in Hops, NEW c \in Conns
  PROVE  Inv /\ DoConnectClientComplete(h, c) => Inv'
<1> SUFFICES ASSUME Inv, DoConnectClientComplete(h, c) PROVE Inv'
  OBVIOUS
<1> DEFINE support == GetServerPaddingSupport(h, c)
           r == [conn[h][c] EXCEPT !.phase = "detected", !.client = DetectedClient(h),
                                   !.cached = support]
<1>1. /\ UNCHANGED Setting /\ UNCHANGED <<heard, padding_state, refusals>>
      /\ conn[h][c].phase = "new"
  BY DEF DoConnectClientComplete, Setting
<1>2. conn[h][c] \in Records
  BY DEF Inv, TypeInv
<1>3. /\ DetectedClient(h) \in Supports /\ DetectedClient(h) # "kUnknown"
      /\ support \in Supports
  BY <1>2, ChoicesAssumption DEF DetectedClient, GetServerPaddingSupport,
     GetProxyServerPaddingSupport, Inv, TypeInv, Records, Supports
<1> HIDE DEF support
<1>4. r \in Records
  BY <1>2, <1>3 DEF Records
<1>5. conn' = [conn EXCEPT ![h][c] = r]
  BY DEF DoConnectClientComplete, Inv, TypeInv, support
<1>6. /\ r.phase = "detected" /\ r.client = DetectedClient(h) /\ r.cached = support
      /\ r.by = conn[h][c].by /\ r.at = conn[h][c].at /\ r.reply = conn[h][c].reply
  BY <1>2 DEF Records
<1> HIDE DEF r
<1>7. /\ conn' \in [Hops -> [Conns -> Records]]
      /\ conn'[h][c] = r
      /\ \A k \in Hops, d \in Conns : (k # h \/ d # c) => conn'[k][d] = conn[k][d]
  BY <1>4, <1>5 DEF Inv, TypeInv
<1>8. \A k \in Hops : HeardInv(k)'
  BY <1>1, HeardKeeps DEF Inv
<1>9. KnownInv(h, c)'
  BY <1>3, <1>6, <1>7 DEF KnownInv
<1>10. HandledInv(h, c)'
  BY <1>1, <1>6, <1>7, SameHandled
<1>11. /\ basis' \in [Hops -> [Conns -> Int]] /\ BasisInv(h, c)'
       /\ \A k \in Hops, d \in Conns : (k # h \/ d # c) => basis'[k][d] = basis[k][d]
  BY <1>1, <1>6, <1>7, RestsKeeps DEF DoConnectClientComplete, support
<1> QED
  BY <1>1, <1>6, <1>7, <1>8, <1>9, <1>10, <1>11, OneConnKeeps DEF Inv, TypeInv

LEMMA RunKeeps ==
  ASSUME NEW h \in Hops, NEW c \in Conns
  PROVE  Inv /\ Run(h, c) => Inv'
<1> SUFFICES ASSUME Inv, Run(h, c) PROVE Inv'
  OBVIOUS
<1> DEFINE support == GetServerPaddingSupport(h, c)
           r == [conn[h][c] EXCEPT !.phase = "running", !.cached = support]
<1>1. /\ UNCHANGED Setting /\ UNCHANGED <<heard, padding_state, refusals>>
      /\ conn[h][c].phase = "connected"
  BY DEF Run, Setting
<1>2. conn[h][c] \in Records /\ KnownInv(h, c)
  BY DEF Inv, TypeInv
<1>3. support \in Supports /\ support # "kUnknown"
  BY <1>1, <1>2 DEF GetServerPaddingSupport, GetProxyServerPaddingSupport, KnownInv,
     Inv, TypeInv, Records, Supports
<1> HIDE DEF support
<1>4. r \in Records
  BY <1>2, <1>3 DEF Records
<1>5. conn' = [conn EXCEPT ![h][c] = r]
  BY DEF Run, Inv, TypeInv, support
<1>6. /\ r.phase = "running" /\ r.client = conn[h][c].client /\ r.cached = support
      /\ r.by = conn[h][c].by /\ r.at = conn[h][c].at /\ r.reply = conn[h][c].reply
  BY <1>2 DEF Records
<1> HIDE DEF r
<1>7. /\ conn' \in [Hops -> [Conns -> Records]]
      /\ conn'[h][c] = r
      /\ \A k \in Hops, d \in Conns : (k # h \/ d # c) => conn'[k][d] = conn[k][d]
  BY <1>4, <1>5 DEF Inv, TypeInv
<1>8. \A k \in Hops : HeardInv(k)'
  BY <1>1, HeardKeeps DEF Inv
<1>9. KnownInv(h, c)'
  BY <1>1, <1>2, <1>3, <1>6, <1>7 DEF KnownInv
<1>10. HandledInv(h, c)'
  BY <1>1, <1>6, <1>7, SameHandled
<1>11. /\ basis' \in [Hops -> [Conns -> Int]] /\ BasisInv(h, c)'
       /\ \A k \in Hops, d \in Conns : (k # h \/ d # c) => basis'[k][d] = basis[k][d]
  BY <1>1, <1>6, <1>7, RestsKeeps DEF Run, support
<1> QED
  BY <1>1, <1>6, <1>7, <1>8, <1>9, <1>10, <1>11, OneConnKeeps DEF Inv, TypeInv

LEMMA DoConnectServerKeeps ==
  ASSUME NEW h \in Hops, NEW c \in Conns
  PROVE  Inv /\ DoConnectServer(h, c) => Inv'
<1> SUFFICES ASSUME Inv, DoConnectServer(h, c) PROVE Inv'
  OBVIOUS
<1> DEFINE ph == IF UsesFastOpen(h) \/ Upstream(h) = "direct" THEN "connected" ELSE "requested"
           by == IF Upstream(h) = "direct" THEN "direct" ELSE conn[h][c].by
           r == [conn[h][c] EXCEPT !.phase = ph, !.by = by]
<1>1. /\ UNCHANGED Setting /\ UNCHANGED <<heard, padding_state, refusals, basis>>
      /\ conn[h][c].phase = "detected"
  BY DEF DoConnectServer, Setting
<1>2. conn[h][c] \in Records /\ KnownInv(h, c) /\ HandledInv(h, c) /\ BasisInv(h, c)
  BY DEF Inv, TypeInv
<1>3. r \in Records
  BY <1>2 DEF Records
<1>4. conn' = [conn EXCEPT ![h][c] = r]
  BY DEF DoConnectServer, Inv, TypeInv
<1>5. /\ r.phase = ph /\ r.client = conn[h][c].client /\ r.cached = conn[h][c].cached
      /\ r.by = by /\ r.at = conn[h][c].at /\ r.reply = conn[h][c].reply
  BY <1>2 DEF Records
<1> HIDE DEF r
<1>6. /\ conn' \in [Hops -> [Conns -> Records]]
      /\ conn'[h][c] = r
      /\ \A k \in Hops, d \in Conns : (k # h \/ d # c) => conn'[k][d] = conn[k][d]
  BY <1>3, <1>4 DEF Inv, TypeInv
<1>7. \A k \in Hops : HeardInv(k)'
  BY <1>1, HeardKeeps DEF Inv
<1>8. KnownInv(h, c)'
  <2>1. ph = "connected" => GetProxyServerPaddingSupport(h) # "kUnknown"
    BY DEF UsesFastOpen, GetProxyServerPaddingSupport
  <2>2. GetProxyServerPaddingSupport(h)' = GetProxyServerPaddingSupport(h)
    BY <1>1, SameKind DEF GetProxyServerPaddingSupport
  <2> QED BY <1>1, <1>2, <1>5, <1>6, <2>1, <2>2 DEF KnownInv
<1>9. HandledInv(h, c)'
  <2>1. CASE Upstream(h) # "direct"
    BY <1>1, <1>5, <1>6, <2>1, SameHandled
  <2>2. CASE Upstream(h) = "direct"
    <3>1. conn[h][c].reply = "none" /\ conn[h][c].at = 0
      BY <1>2, <2>2 DEF HandledInv, Upstream, Generation, Hops, Inv, TypeInv, Records
    <3> QED BY <1>1, <1>2, <1>5, <1>6, <2>2, <3>1, SameKind DEF HandledInv
  <2> QED BY <2>1, <2>2
<1>10. BasisInv(h, c)'
  BY <1>1, <1>2, <1>5, <1>6, SameKind DEF BasisInv
<1> QED
  BY <1>1, <1>5, <1>6, <1>7, <1>8, <1>9, <1>10, OneConnKeeps DEF Inv, TypeInv

LEMMA RefuseKeeps ==
  ASSUME NEW h \in Hops, NEW c \in Conns
  PROVE  Inv /\ Refuse(h, c) => Inv'
<1> SUFFICES ASSUME Inv, Refuse(h, c) PROVE Inv'
  OBVIOUS
<1> DEFINE r == [conn[h][c] EXCEPT !.by = "refused", !.reply = "refused"]
<1>1. /\ UNCHANGED Setting /\ UNCHANGED <<heard, padding_state, basis>>
      /\ conn[h][c].phase \in {"requested", "connected", "running"}
      /\ conn[h][c].by = "none" /\ refusals' \in Nat
  BY DEF Refuse, Setting, Inv, TypeInv
<1>2. conn[h][c] \in Records /\ KnownInv(h, c) /\ HandledInv(h, c) /\ BasisInv(h, c)
  BY DEF Inv, TypeInv
<1>3. r \in Records
  BY <1>2 DEF Records
<1>4. conn' = [conn EXCEPT ![h][c] = r]
  BY DEF Refuse, Inv, TypeInv
<1>5. /\ r.phase = conn[h][c].phase /\ r.client = conn[h][c].client
      /\ r.cached = conn[h][c].cached /\ r.at = conn[h][c].at
      /\ r.by = "refused" /\ r.reply = "refused"
  BY <1>2 DEF Records
<1> HIDE DEF r
<1>6. /\ conn' \in [Hops -> [Conns -> Records]]
      /\ conn'[h][c] = r
      /\ \A k \in Hops, d \in Conns : (k # h \/ d # c) => conn'[k][d] = conn[k][d]
  BY <1>3, <1>4 DEF Inv, TypeInv
<1>7. \A k \in Hops : HeardInv(k)'
  BY <1>1, HeardKeeps DEF Inv
<1>8. KnownInv(h, c)'
  <2>1. GetProxyServerPaddingSupport(h)' = GetProxyServerPaddingSupport(h)
    BY <1>1, SameKind DEF GetProxyServerPaddingSupport
  <2> QED BY <1>2, <1>5, <1>6, <2>1 DEF KnownInv
<1>9. HandledInv(h, c)'
  <2>1. Upstream(h) # "direct"
    BY <1>1, <1>2 DEF HandledInv
  <2> QED BY <1>1, <1>2, <1>5, <1>6, <2>1, SameKind DEF HandledInv
<1>10. BasisInv(h, c)'
  BY <1>1, <1>2, <1>5, <1>6, SameKind DEF BasisInv
<1> QED
  BY <1>1, <1>5, <1>6, <1>7, <1>8, <1>9, <1>10, OneConnKeeps DEF Inv, TypeInv

LEMMA OnTunnelHeadersReceivedKeeps ==
  ASSUME NEW h \in Hops, NEW c \in Conns
  PROVE  Inv /\ OnTunnelHeadersReceived(h, c) => Inv'
<1> SUFFICES ASSUME Inv, OnTunnelHeadersReceived(h, c) PROVE Inv'
  OBVIOUS
<1> DEFINE x == conn[h][c]
           ph == IF x.reply = "refused" THEN "closed"
                 ELSE IF x.phase = "requested" THEN "connected" ELSE x.phase
           r == [x EXCEPT !.reply = "none", !.phase = ph]
           at == IF x.reply = "refused" THEN -1 ELSE x.at
<1>1. /\ UNCHANGED Setting /\ UNCHANGED <<refusals, basis>> /\ x.reply # "none"
      /\ padding_state' = [padding_state EXCEPT ![h] = Learned(h, c)]
      /\ heard' = [heard EXCEPT ![h] = at]
  BY DEF OnTunnelHeadersReceived, Setting
<1>2. x \in Records /\ KnownInv(h, c) /\ HandledInv(h, c) /\ BasisInv(h, c)
  BY DEF Inv, TypeInv
<1>3. /\ Upstream(h) # "direct" /\ x.phase \notin {"none", "new"}
      /\ Learned(h, c) \in {"kCapable", "kIncapable"}
  BY <1>1, <1>2 DEF HandledInv, Learned
<1>4. /\ padding_state' \in [Hops -> Supports] /\ padding_state'[h] = Learned(h, c)
      /\ heard' \in [Hops -> Int] /\ heard'[h] = at
      /\ \A k \in Hops : k # h => heard'[k] = heard[k] /\ padding_state'[k] = padding_state[k]
  BY <1>1, <1>2, <1>3 DEF Inv, TypeInv, Supports, Records
<1>5. r \in Records
  BY <1>2 DEF Records
<1>6. conn' = [conn EXCEPT ![h][c] = r]
  BY DEF OnTunnelHeadersReceived, Inv, TypeInv
<1>7. /\ r.phase = ph /\ r.client = x.client /\ r.cached = x.cached
      /\ r.by = x.by /\ r.at = x.at /\ r.reply = "none"
  BY <1>2 DEF Records
<1> HIDE DEF r
<1>8. /\ conn' \in [Hops -> [Conns -> Records]]
      /\ conn'[h][c] = r
      /\ \A k \in Hops, d \in Conns : (k # h \/ d # c) => conn'[k][d] = conn[k][d]
  BY <1>5, <1>6 DEF Inv, TypeInv
<1>9. ASSUME NEW k \in Hops PROVE HeardInv(k)'
  <2>1. CASE k # h
    BY <1>1, <1>4, <2>1, SameKind DEF HeardInv, Inv
  <2>2. CASE k = h
    <3>1. at <= Generation(h)
      BY <1>2 DEF HandledInv, Generation, Inv, TypeInv
    <3>2. at >= 0 => x.reply \in {"padding", "plain"} /\ at = x.at
      BY <1>1, <1>2 DEF Records
    <3>3. at >= 0 => Learned(h, c) = Support(Kind(h, at))
      BY <1>2, <3>2 DEF HandledInv, Learned, Support
    <3> HIDE DEF at
    <3> QED BY <1>1, <1>4, <2>2, <3>1, <3>3, SameKind DEF HeardInv
  <2> QED BY <2>1, <2>2
<1>10. \A k \in Hops : padding_state'[k] = padding_state[k] \/ padding_state'[k] # "kUnknown"
  BY <1>3, <1>4
<1>11. KnownInv(h, c)'
  <2>1. GetProxyServerPaddingSupport(h)' # "kUnknown"
    BY <1>3, <1>4 DEF GetProxyServerPaddingSupport
  <2>2. x.client # "kUnknown"
    BY <1>2, <1>3 DEF KnownInv
  <2> QED BY <1>2, <1>7, <1>8, <2>1, <2>2 DEF KnownInv
<1>12. HandledInv(h, c)'
  BY <1>1, <1>3, <1>7, <1>8, SameHandled
<1>13. BasisInv(h, c)'
  BY <1>1, <1>2, <1>7, <1>8, SameKind DEF BasisInv
<1> QED
  BY <1>1, <1>2, <1>3, <1>4, <1>7, <1>8, <1>9, <1>10, <1>11, <1>12, <1>13, OneConnKeeps DEF Inv, TypeInv

LEMMA HandleKeeps ==
  ASSUME NEW h \in Hops, NEW c \in Conns
  PROVE  Inv /\ Handle(h, c) => Inv'
<1> SUFFICES ASSUME Inv, Handle(h, c) PROVE Inv'
  OBVIOUS
<1> DEFINE reply == IF Upstream(h) = "naive" THEN "padding" ELSE "plain"
           r == [conn[h][c] EXCEPT !.by = Upstream(h), !.at = Generation(h), !.reply = reply]
           answered == [conn EXCEPT ![h][c].by = Upstream(h), ![h][c].at = Generation(h),
                                    ![h][c].reply = reply]
<1>1. /\ UNCHANGED Setting /\ UNCHANGED <<heard, padding_state, basis, refusals>>
      /\ conn[h][c].phase \in {"requested", "connected", "running"}
      /\ conn[h][c].by = "none"
      /\ conn' = IF h = 1 /\ server = "naive"
                 THEN [answered EXCEPT ![2][c].phase = "new"] ELSE answered
  BY DEF Handle, Setting
<1>2. conn[h][c] \in Records /\ KnownInv(h, c) /\ HandledInv(h, c) /\ BasisInv(h, c)
  BY DEF Inv, TypeInv
<1>3. /\ Upstream(h) \in {"naive", "plain"} /\ Generation(h) \in Nat
      /\ Kind(h, Generation(h)) = Upstream(h)
  <2>1. Upstream(h) # "direct"
    BY <1>1, <1>2 DEF HandledInv
  <2>2. generation \in Nat /\ server \in {"naive", "plain"} /\ config.upstream \in Upstreams
    BY DEF Inv, TypeInv
  <2>3. (generation - generation) % 2 = 0
    BY <2>2
  <2>4. CASE h = 1
    <3>1. Upstream(h) = server /\ Generation(h) = generation
      BY <2>4 DEF Upstream, Generation
    <3>2. Kind(h, generation) = server
      BY <2>3, <2>4 DEF Kind
    <3> QED BY <2>2, <3>1, <3>2
  <2>5. CASE h = 2
    <3>1. Upstream(h) = config.upstream /\ Kind(h, Generation(h)) = config.upstream
          /\ Generation(h) = 0
      BY <2>5 DEF Upstream, Generation, Kind
    <3>2. config.upstream \in {"direct", "plain", "naive"}
      BY <2>2, ChoicesAssumption
    <3>3. Upstream(h) \in {"naive", "plain"}
      BY <2>1, <3>1, <3>2
    <3> QED BY <3>1, <3>3
  <2> QED BY <2>4, <2>5 DEF Hops
<1>4. r \in Records
  BY <1>2, <1>3 DEF Records
<1>5. answered = [conn EXCEPT ![h][c] = r]
  BY DEF Inv, TypeInv
<1>6. /\ r.phase = conn[h][c].phase /\ r.client = conn[h][c].client
      /\ r.cached = conn[h][c].cached /\ r.at = Generation(h)
      /\ r.by = Upstream(h) /\ r.reply = reply
  BY <1>2 DEF Records
<1> HIDE DEF r, answered
<1>7. /\ answered \in [Hops -> [Conns -> Records]]
      /\ answered[h][c] = r
      /\ \A k \in Hops, d \in Conns : (k # h \/ d # c) => answered[k][d] = conn[k][d]
  BY <1>4, <1>5 DEF Inv, TypeInv
<1>8. \A k \in Hops : HeardInv(k)'
  BY <1>1, HeardKeeps DEF Inv
<1>9. ASSUME conn'[h][c] = r
      PROVE  KnownInv(h, c)' /\ HandledInv(h, c)' /\ BasisInv(h, c)'
  <2>1. KnownInv(h, c)'
    <3>1. GetProxyServerPaddingSupport(h)' = GetProxyServerPaddingSupport(h)
      BY <1>1, SameKind DEF GetProxyServerPaddingSupport
    <3> QED BY <1>2, <1>6, <1>9, <3>1 DEF KnownInv
  <2>2. HandledInv(h, c)'
    BY <1>1, <1>3, <1>6, <1>9, SameKind DEF HandledInv
  <2>3. BasisInv(h, c)'
    BY <1>1, <1>2, <1>6, <1>9, SameKind DEF BasisInv
  <2> QED BY <2>1, <2>2, <2>3
<1>10. /\ padding_state' \in [Hops -> Supports] /\ heard' \in [Hops -> Int]
       /\ refusals' \in Nat /\ basis' \in [Hops -> [Conns -> Int]]
  BY <1>1 DEF Inv, TypeInv
<1>11. CASE ~(h = 1 /\ server = "naive")
  <2>1. conn' = answered
    BY <1>1, <1>11
  <2>2. KnownInv(h, c)' /\ HandledInv(h, c)' /\ BasisInv(h, c)'
    BY <1>7, <1>9, <2>1
  <2>3. conn'[h][c].by # "none"
    BY <1>3, <1>6, <1>7, <2>1
  <2> QED BY <1>1, <1>7, <1>8, <1>10, <2>1, <2>2, <2>3, OneConnKeeps
<1>12. CASE h = 1 /\ server = "naive"
  <2> DEFINE n == [conn[2][c] EXCEPT !.phase = "new"]
  <2>1. 2 \in Hops /\ conn[2][c] \in Records /\ conn[2][c].phase = "none"
    BY <1>1, <1>12 DEF Inv, TypeInv, StartInv, Hops
  <2>2. /\ n \in Records /\ n.phase = "new" /\ n.client = conn[2][c].client
        /\ n.cached = conn[2][c].cached /\ n.by = conn[2][c].by /\ n.at = conn[2][c].at
        /\ n.reply = conn[2][c].reply
    BY <2>1 DEF Records
  <2>3. answered[2][c] = conn[2][c]
    BY <1>7, <1>12, <2>1
  <2>4. conn' = [answered EXCEPT ![2][c] = n]
    <3>1. conn' = [answered EXCEPT ![2][c].phase = "new"]
      BY <1>1, <1>12
    <3> QED BY <2>3, <3>1, Zenon
  <2> HIDE DEF n
  <2>5. /\ conn' \in [Hops -> [Conns -> Records]] /\ conn'[2][c] = n
        /\ \A k \in Hops, d \in Conns : (k # 2 \/ d # c) => conn'[k][d] = answered[k][d]
    BY <1>7, <2>1, <2>2, <2>4
  <2>6. conn'[1][c] = r
    BY <1>7, <1>12, <2>5 DEF Hops
  <2>7. KnownInv(1, c)' /\ HandledInv(1, c)' /\ BasisInv(1, c)'
    BY <1>9, <1>12, <2>6
  <2>8. KnownInv(2, c)' /\ HandledInv(2, c)' /\ BasisInv(2, c)'
    <3>1. HandledInv(2, c) /\ BasisInv(2, c)
      BY <2>1 DEF Inv
    <3>2. KnownInv(2, c)'
      BY <2>2, <2>5 DEF KnownInv
    <3>3. HandledInv(2, c)'
      BY <1>1, <2>1, <2>2, <2>5, SameHandled
    <3>4. BasisInv(2, c)'
      <4>1. basis' = basis /\ conn'[2][c].cached = conn[2][c].cached
        BY <1>1, <2>2, <2>5
      <4>2. UNCHANGED Setting
        BY <1>1
      <4> QED BY <3>1, <4>1, <4>2, SameKind DEF BasisInv
    <3> QED BY <3>2, <3>3, <3>4
  <2>9. ASSUME NEW k \in Hops, NEW d \in Conns
        PROVE  KnownInv(k, d)' /\ HandledInv(k, d)' /\ BasisInv(k, d)'
    <3>1. CASE d = c
      BY <2>7, <2>8, <3>1 DEF Hops
    <3>2. CASE d # c
      <4>1. conn'[k][d] = conn[k][d]
        BY <1>7, <2>5, <3>2
      <4> QED BY <1>1, <4>1, OthersKeep DEF Inv
    <3> QED BY <3>1, <3>2
  <2>10. TypeInv'
    BY <1>1, <2>5 DEF TypeInv, Inv, Setting
  <2>11. ASSUME NEW d \in Conns PROVE StartInv(d)'
    <3>1. CASE d = c
      BY <1>3, <1>6, <1>12, <2>6, <3>1 DEF StartInv
    <3>2. CASE d # c
      BY <1>7, <2>5, <3>2 DEF StartInv, Inv, Hops
    <3> QED BY <3>1, <3>2
  <2> QED BY <1>8, <2>9, <2>10, <2>11 DEF Inv
<1> QED BY <1>11, <1>12

\* A replaced server does not change what its predecessors were.
LEMMA ReplaceKeeps == Inv /\ Replace => Inv'
<1> SUFFICES ASSUME Inv, Replace PROVE Inv'
  OBVIOUS
<1>1. /\ generation' = generation + 1 /\ generation \in Nat
      /\ server \in {"naive", "plain"}
      /\ server' = IF server = "naive" THEN "plain" ELSE "naive"
      /\ UNCHANGED <<config, refusals, padding_state, conn, heard, basis>>
  BY DEF Replace, Inv, TypeInv
<1>2. ASSUME NEW h \in Hops
      PROVE  /\ Generation(h) \in Int /\ Generation(h)' \in Int
             /\ Generation(h) <= Generation(h)'
             /\ Upstream(h) = "direct" <=> Upstream(h)' = "direct"
  BY <1>1 DEF Generation, Upstream
<1>3. ASSUME NEW h \in Hops, NEW g \in Int, g <= Generation(h)
      PROVE  Kind(h, g)' = Kind(h, g)
  <2>1. CASE h = 2
    BY <1>1, <2>1 DEF Kind
  <2>2. CASE h # 2
    <3>1. (generation - g) % 2 = 0 <=> (generation + 1 - g) % 2 # 0
      BY <1>1
    <3> QED BY <1>1, <2>2, <3>1 DEF Kind
  <2> QED BY <2>1, <2>2
<1>4. TypeInv'
  BY <1>1 DEF Inv, TypeInv
<1>5. ASSUME NEW h \in Hops PROVE HeardInv(h)'
  <2>1. HeardInv(h) /\ heard[h] \in Int /\ heard[h] <= Generation(h)
    BY DEF Inv, TypeInv, HeardInv
  <2>2. Kind(h, heard[h])' = Kind(h, heard[h])
    BY <1>1, <1>3, <2>1
  <2> QED BY <1>1, <1>2, <2>1, <2>2 DEF HeardInv
<1>6. ASSUME NEW h \in Hops, NEW c \in Conns
      PROVE  KnownInv(h, c)' /\ HandledInv(h, c)' /\ BasisInv(h, c)'
  <2>1. /\ KnownInv(h, c) /\ HandledInv(h, c) /\ BasisInv(h, c)
        /\ conn[h][c].at \in Int /\ basis[h][c] \in Int
    BY DEF Inv, TypeInv, Records
  <2>2. conn[h][c].at <= Generation(h) /\ basis[h][c] <= Generation(h)
    BY <2>1 DEF HandledInv, BasisInv
  <2>3. /\ Kind(h, conn[h][c].at)' = Kind(h, conn[h][c].at)
        /\ Kind(h, basis[h][c])' = Kind(h, basis[h][c])
    BY <1>1, <1>3, <2>1, <2>2
  <2>4. KnownInv(h, c)'
    BY <1>1, <1>2, <2>1 DEF KnownInv, GetProxyServerPaddingSupport
  <2>5. HandledInv(h, c)'
    BY <1>1, <1>2, <2>1, <2>3 DEF HandledInv
  <2>6. BasisInv(h, c)'
    BY <1>1, <1>2, <2>1, <2>3 DEF BasisInv
  <2> QED BY <2>4, <2>5, <2>6
<1>7. \A c \in Conns : StartInv(c)'
  BY <1>1 DEF Inv, StartInv
<1> QED BY <1>4, <1>5, <1>6, <1>7 DEF Inv

LEMMA StutterKeeps == Inv /\ UNCHANGED vars => Inv'
<1> SUFFICES ASSUME Inv, UNCHANGED vars PROVE Inv'
  OBVIOUS
<1>1. UNCHANGED Setting /\ UNCHANGED <<refusals, padding_state, conn, heard, basis>>
  BY DEF vars, Setting
<1>2. TypeInv'
  BY <1>1 DEF Inv, TypeInv, Setting
<1>3. \A h \in Hops : HeardInv(h)'
  BY <1>1, HeardKeeps DEF Inv
<1>4. \A h \in Hops, c \in Conns : KnownInv(h, c)' /\ HandledInv(h, c)' /\ BasisInv(h, c)'
  BY <1>1, OthersKeep DEF Inv
<1>5. \A c \in Conns : StartInv(c)'
  BY <1>1 DEF Inv, StartInv
<1> QED BY <1>2, <1>3, <1>4, <1>5 DEF Inv

LEMMA NextKeeps == Inv /\ [Next]_vars => Inv'
BY AcceptKeeps, DoConnectClientCompleteKeeps, DoConnectServerKeeps, RunKeeps, HandleKeeps,
   RefuseKeeps, OnTunnelHeadersReceivedKeeps, ReplaceKeeps, StutterKeeps DEF Next

(***************************************************************************)
(* Whatever the user, the tunnels and the servers are, and however replies *)
(* and replacements interleave, the inductive invariant holds: what a hop  *)
(* learned and what a connection decided by are true of the server that    *)
(* sent the reply they come from.                                          *)
(***************************************************************************)
THEOREM Invariance == Spec => []Inv
BY InitInv, NextKeeps, PTL DEF Spec

(***************************************************************************)
(* The CHECKs of NaiveConnection::GetPaddingDirection never fail: a        *)
(* running connection knows what its client and its server support.        *)
(***************************************************************************)
THEOREM AlwaysKnownWhenRunning == Spec => []SupportKnownWhenRunning
<1>1. Inv => SupportKnownWhenRunning
  BY DEF Inv, KnownInv, SupportKnownWhenRunning
<1> QED BY <1>1, Invariance, PTL

(***************************************************************************)
(* A connection and the server that handles it agree on the padding, if    *)
(* the reply padding_state_by_server_ had last came from that server.      *)
(***************************************************************************)
THEOREM ChangesAlwaysFollowed == Spec => []ServerChangesFollowed
<1>1. Inv => ServerChangesFollowed
  <2> SUFFICES ASSUME Inv, NEW h \in Hops, NEW c \in Conns,
                      conn[h][c].phase = "running", conn[h][c].by \notin {"none", "refused"},
                      basis[h][c] = conn[h][c].at
               PROVE  Layers(h, c) = IF conn[h][c].by = "naive" THEN 1 ELSE 0
    BY DEF ServerChangesFollowed
  <2>1. /\ KnownInv(h, c) /\ HandledInv(h, c) /\ BasisInv(h, c)
        /\ conn[h][c] \in Records
    BY DEF Inv, TypeInv
  <2>2. conn[h][c].at \in Nat /\ conn[h][c].by \in {"naive", "plain", "direct"}
    BY <2>1 DEF Records
  <2>3. conn[h][c].cached = Support(Kind(h, conn[h][c].at))
    BY <2>1, <2>2 DEF BasisInv
  <2>4. conn[h][c].cached = Support(conn[h][c].by)
    <3>1. CASE conn[h][c].by = "direct"
      BY <2>1, <2>3, <3>1 DEF HandledInv, Kind, Upstream, Support, Hops, Inv, TypeInv
    <3>2. CASE conn[h][c].by \in {"naive", "plain"}
      BY <2>1, <2>3, <3>2 DEF HandledInv
    <3> QED BY <2>2, <3>1, <3>2
  <2>5. conn[h][c].client \in {"kCapable", "kIncapable"}
    BY <2>1 DEF KnownInv, Records, Supports
  <2> QED BY <2>4, <2>5 DEF Layers, GetPaddingDirection, Support
<1> QED BY <1>1, Invariance, PTL
=============================================================================
