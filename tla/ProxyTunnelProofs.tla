-------------------------- MODULE ProxyTunnelProofs --------------------------
(***************************************************************************)
(* Proofs that the tunnels through HTTP/2 and HTTP/3 proxies answer every  *)
(* operation once, keep their DCHECKs, lose no data and keep the body of a *)
(* refusal from the user, for any amount of data, frame and buffer size    *)
(* and number of Writes.  The handlers are functions on the state of the   *)
(* tunnel, and so are the parts of the invariant: s is the socket, t the   *)
(* stream, q the posted tasks and u the user.                              *)
(***************************************************************************)
EXTENDS ProxyTunnel, SequenceTheorems, TLAPS

IsState(x) == DOMAIN x = {"sock", "strm", "tasks", "user"}

\* No DCHECK failed.
IsSocket(s) ==
  /\ DOMAIN s = {"next_state", "use_fastopen", "read_headers_pending", "callbacks",
                 "user_buffer", "failed_checks"}
  /\ s.use_fastopen \in BOOLEAN /\ s.read_headers_pending \in BOOLEAN
  /\ s.user_buffer \in BOOLEAN /\ s.callbacks \subseteq Ops /\ s.failed_checks = {}

IsUser(u) ==
  /\ DOMAIN u = {"phase", "awaits", "writes", "got", "stray"}
  /\ u.phase \in {"new", "connecting", "challenged", "connected", "disconnected", "destroyed"}
  /\ u.got \in Seq(Nat) /\ u.stray \subseteq {"write in OnClose"}

IsSpdyStream(t) ==
  /\ DOMAIN t = {"io", "response", "sending", "reply", "received", "buffered"}
  /\ t.io \in {"IDLE", "OPEN", "HALF_CLOSED_REMOTE", "CLOSED"}
  /\ t.response \in {"READY_FOR_HEADERS", "READY_FOR_DATA_OR_TRAILERS", "TRAILERS_RECEIVED"}
  /\ t.reply \in Replies \cup {"none"} /\ t.received \in Nat /\ t.buffered \in Seq(Nat)

IsQuicStream(t) ==
  /\ DOMAIN t = {"open", "requested", "reply", "delivered", "handle", "received",
                 "buffered", "fin", "trailers", "unsent"}
  /\ t.open \in BOOLEAN /\ t.requested \in BOOLEAN /\ t.fin \in BOOLEAN
  /\ t.delivered \in BOOLEAN
  /\ t.handle \subseteq {"read_headers", "read_body", "write"}
  /\ t.reply \in Replies \cup {"none"} /\ t.received \in Nat /\ t.buffered \in Seq(Nat)

\* What was read and what is buffered are what was received, in order.
InOrder(got, buffered, received) ==
  /\ Len(got) + Len(buffered) = received
  /\ \A i \in 1..Len(got) : got[i] = i
  /\ \A i \in 1..Len(buffered) : buffered[i] = Len(got) + i

-----------------------------------------------------------------------------
\* The invariant over HTTP/2.

\* Where the socket and its stream are in each phase of the user.
SpdyBegins(s, t, q, u) ==
  /\ u.phase \in {"new", "connecting"} =>
       /\ q = <<>> /\ ~s.user_buffer /\ ~s.read_headers_pending
       /\ t.response = "READY_FOR_HEADERS"
  /\ u.phase = "new" =>
       /\ s.next_state = "DISCONNECTED" /\ s.callbacks = {}
       /\ t.io = "IDLE" /\ t.sending = "nothing"
  /\ u.phase = "connecting" =>
       /\ s.callbacks = {"connect"}
       /\ \/ /\ s.next_state = "GENERATE_AUTH_TOKEN_COMPLETE"
             /\ t.io = "IDLE" /\ t.sending = "nothing"
          \/ /\ s.next_state = "SEND_REQUEST_COMPLETE"
             /\ t.io = "IDLE" /\ t.sending \in {"request", "written"}
          \/ /\ s.next_state = "READ_REPLY_COMPLETE"
             /\ t.io = "OPEN" /\ t.sending = "nothing"
  /\ u.phase = "challenged" =>
       /\ q = <<>> /\ ~s.user_buffer /\ s.callbacks = {} /\ t.sending = "nothing"
       /\ s.next_state \in {"OPEN", "CLOSED", "DISCONNECTED"}
       /\ t.response # "READY_FOR_HEADERS" /\ t.io # "IDLE"

SpdyInUse(s, t, q, u) ==
  /\ s.callbacks \subseteq {"read", "write"}
  /\ s.user_buffer <=> "read" \in s.callbacks
  /\ t.sending = IF "write" \in s.callbacks THEN "data" ELSE "nothing"
  /\ q # <<>> => "write" \notin s.callbacks /\ Tail(q) = <<>>
  /\ t.io # "IDLE"
  /\ t.response = "READY_FOR_HEADERS" => s.use_fastopen /\ s.read_headers_pending
  /\ t.reply \in Refusals => s.next_state = "DISCONNECTED"
  /\ \/ s.next_state = "OPEN" /\ t.io # "CLOSED"
     \/ s.next_state = "CLOSED" /\ t.io = "CLOSED" /\ s.callbacks = {}
     \/ s.next_state = "DISCONNECTED" /\ "read" \notin s.callbacks /\ t.reply # "none"

SpdyOver(s, t, q) ==
  /\ q = <<>> /\ ~s.user_buffer /\ s.callbacks = {}
  /\ s.next_state = "DISCONNECTED" /\ t.io = "CLOSED" /\ t.sending = "nothing"

\* The reply comes before any data, and a refusal leaves the user nothing to read.
SpdyReplied(t, u) ==
  /\ t.response = "READY_FOR_HEADERS" <=> t.reply = "none"
  /\ t.reply = "none" => t.received = 0 /\ t.buffered = <<>> /\ u.got = <<>>
  /\ t.reply \in Refusals => u.got = <<>>

\* The user awaits what is kept for it, and what it read and may still read is
\* what was received.
SpdyKept(s, t, q, u) ==
  /\ u.awaits = s.callbacks \cup (IF q # <<>> THEN {"write"} ELSE {})
  /\ "read" \in s.callbacks => t.buffered = <<>>
  /\ u.phase \in {"new", "connecting", "challenged"} => u.got = <<>>
  /\ u.phase \notin {"disconnected", "destroyed"} => InOrder(u.got, t.buffered, t.received)

SpdyTypes(s, t, q, u) ==
  IsSocket(s) /\ IsSpdyStream(t) /\ q \in Seq({"write"}) /\ IsUser(u)

SpdyGood(s, t, q, u) ==
  /\ SpdyTypes(s, t, q, u)
  /\ SpdyBegins(s, t, q, u)
  /\ u.phase = "connected" => SpdyInUse(s, t, q, u)
  /\ u.phase \in {"disconnected", "destroyed"} => SpdyOver(s, t, q)
  /\ SpdyReplied(t, u)
  /\ SpdyKept(s, t, q, u)

SpdyInv(x) == IsState(x) /\ SpdyGood(x.sock, x.strm, x.tasks, x.user)

-----------------------------------------------------------------------------
\* The invariant over HTTP/3.

\* Where the socket and the handle are in each phase of the user.  A posted task
\* may still find callbacks of the handle after Disconnect, and then no others.
QuicPhase(s, t, q, u) ==
  /\ u.phase = "new" =>
       /\ s.next_state = "DISCONNECTED" /\ s.callbacks = {} /\ t.handle = {} /\ ~t.requested
       /\ ~s.read_headers_pending
  /\ u.phase = "connecting" =>
       /\ s.callbacks = {"connect"} /\ ~s.read_headers_pending
       /\ \/ s.next_state = "GENERATE_AUTH_TOKEN_COMPLETE" /\ t.handle = {} /\ ~t.requested
          \/ s.next_state = "READ_REPLY_COMPLETE" /\ t.handle = {"read_headers"} /\ ~s.use_fastopen
  /\ u.phase = "challenged" =>
       s.callbacks = {} /\ t.handle = {} /\ s.next_state \in {"OPEN", "DISCONNECTED"}
  /\ u.phase = "connected" =>
       /\ s.callbacks = (t.handle \cap {"write"}) \cup
                          (IF "read_body" \in t.handle THEN {"read"} ELSE {})
       /\ s.next_state \in {"OPEN", "DISCONNECTED"}
       /\ ~s.use_fastopen => t.reply = "200"
  /\ u.phase \in {"connected", "disconnected"} /\ "read_headers" \in t.handle =>
       s.use_fastopen /\ s.read_headers_pending
  /\ u.phase \in {"disconnected", "destroyed"} =>
       s.callbacks = {} /\ s.next_state = "DISCONNECTED" /\ ~t.open
  /\ u.phase = "destroyed" => q = <<>>

NoHeaders(q) == \A i \in 1..Len(q) : q[i] # "headers"

\* The reply comes after the request and before the task that tells of it, and
\* without Fast Open only a tunnel that was granted gives the user data.
QuicReplied(s, t, q, u) ==
  /\ ~t.requested => t.reply = "none"
  /\ t.reply = "none" => NoHeaders(q)
  /\ u.got # <<>> /\ ~s.use_fastopen => t.reply = "200"

\* The user awaits what is kept for it, and what it read and may still read is
\* what was received.
QuicKept(s, t, u) ==
  /\ u.awaits = s.callbacks /\ u.stray = {}
  /\ u.phase \in {"new", "connecting", "challenged"} => u.got = <<>>
  /\ u.phase \notin {"disconnected", "destroyed"} => InOrder(u.got, t.buffered, t.received)

QuicTypes(s, t, q, u) ==
  IsSocket(s) /\ IsQuicStream(t) /\ q \in Seq(QuicTasks) /\ IsUser(u)

QuicGood(s, t, q, u) ==
  /\ QuicTypes(s, t, q, u)
  /\ QuicPhase(s, t, q, u)
  /\ QuicReplied(s, t, q, u)
  /\ QuicKept(s, t, u)

QuicInv(x) == IsState(x) /\ QuicGood(x.sock, x.strm, x.tasks, x.user)

\* Until the handle delivered the headers it waits for them, and the task that
\* tells of them is the first one: nothing else is posted before it.
Told(t, q) ==
  IF t.delivered THEN t.requested /\ "read_headers" \notin t.handle
  ELSE /\ t.requested => "read_headers" \in t.handle
       /\ IF t.reply = "none" THEN q = <<>> ELSE q # <<>> /\ Head(q) = "headers"

Delivery(x) == x.strm.open => Told(x.strm, x.tasks)

Inv ==
  /\ kind = "spdy" => SpdyInv(Now)
  /\ kind = "quic" => QuicInv(Now) /\ Delivery(Now)
  /\ kind \in {"spdy", "quic"}

-----------------------------------------------------------------------------
\* Data.

\* Taking data from the front of what is buffered keeps the order.
LEMMA TakenInOrder ==
  ASSUME NEW got \in Seq(Nat), NEW buffered \in Seq(Nat), NEW received,
         InOrder(got, buffered, received)
  PROVE  /\ First(buffered, BufLen) \in Seq(Nat) /\ Rest(buffered, BufLen) \in Seq(Nat)
         /\ got \o First(buffered, BufLen) \in Seq(Nat)
         /\ InOrder(got \o First(buffered, BufLen), Rest(buffered, BufLen), received)
         /\ First(buffered, BufLen) = <<>> => buffered = <<>>
         /\ buffered = <<>> => First(buffered, BufLen) = <<>>
<1> DEFINE n == Len(buffered)
           k == IF BufLen <= n THEN BufLen ELSE n
           a == First(buffered, BufLen)
           b == Rest(buffered, BufLen)
           g == got \o a
<1>1. BufLen \in Nat \ {0} /\ n \in Nat /\ Len(got) \in Nat
      /\ \A i \in 1..n : buffered[i] \in Nat
  BY SizesAssumption, LenProperties, ElementOfSeq
<1>2. k \in 0..n /\ (n # 0 => k # 0)
  BY <1>1
<1>3. a \in Seq(Nat) /\ Len(a) = k /\ \A i \in 1..k : a[i] = buffered[i]
  <2>1. a = SubSeq(buffered, 1, k)
    BY DEF First
  <2>2. \A i \in 1..k : buffered[i] \in Nat
    BY <1>1, <1>2
  <2> HIDE DEF k, n, a
  <2>3. /\ SubSeq(buffered, 1, k) \in Seq(Nat)
        /\ Len(SubSeq(buffered, 1, k)) = IF 1 <= k THEN k - 1 + 1 ELSE 0
        /\ \A i \in 1..(k - 1 + 1) : SubSeq(buffered, 1, k)[i] = buffered[1 + i - 1]
    BY <1>1, <1>2, <2>2, SubSeqProperties
  <2> QED BY <1>1, <1>2, <2>1, <2>3
<1>4. b \in Seq(Nat) /\ Len(b) = n - k /\ \A i \in 1..(n - k) : b[i] = buffered[k + i]
  <2> HIDE DEF n, b
  <2>1. b = SubSeq(buffered, BufLen + 1, n)
    BY DEF Rest, n, b
  <2>2. \A i \in (BufLen + 1)..n : buffered[i] \in Nat
    BY <1>1
  <2>3. /\ SubSeq(buffered, BufLen + 1, n) \in Seq(Nat)
        /\ Len(SubSeq(buffered, BufLen + 1, n)) =
             IF BufLen + 1 <= n THEN n - (BufLen + 1) + 1 ELSE 0
        /\ \A i \in 1..(n - (BufLen + 1) + 1) :
             SubSeq(buffered, BufLen + 1, n)[i] = buffered[BufLen + 1 + i - 1]
    BY <1>1, <2>2, SubSeqProperties
  <2> QED BY <1>1, <2>1, <2>3
<1> HIDE DEF a, b, k
<1>5. /\ g \in Seq(Nat) /\ Len(g) = Len(got) + k
      /\ \A i \in 1..(Len(got) + k) :
           g[i] = IF i <= Len(got) THEN got[i] ELSE a[i - Len(got)]
  BY <1>3, ConcatProperties
<1> HIDE DEF g, n
<1>6. InOrder(g, b, received)
  <2>1. /\ Len(got) + n = received
        /\ \A i \in 1..Len(got) : got[i] = i
        /\ \A i \in 1..n : buffered[i] = Len(got) + i
    BY DEF InOrder, n
  <2>2. Len(g) + Len(b) = received
    BY <1>1, <1>2, <1>4, <1>5, <2>1
  <2>3. ASSUME NEW i \in 1..Len(g) PROVE g[i] = i
    <3>1. CASE i <= Len(got)
      <4>1. i \in 1..Len(got) /\ i \in 1..(Len(got) + k)
        BY <1>1, <1>2, <1>5, <3>1
      <4> QED BY <1>5, <2>1, <3>1, <4>1
    <3>2. CASE ~(i <= Len(got))
      <4>1. i - Len(got) \in 1..k
        BY <1>1, <1>2, <1>5, <3>2
      <4>2. g[i] = buffered[i - Len(got)]
        BY <1>3, <1>5, <3>2, <4>1
      <4>3. buffered[i - Len(got)] = Len(got) + (i - Len(got))
        BY <1>1, <1>2, <2>1, <4>1
      <4>4. i \in Int /\ Len(got) + (i - Len(got)) = i
        BY <1>1, <1>2, <1>5
      <4> QED BY <4>2, <4>3, <4>4
    <3> QED BY <3>1, <3>2
  <2>4. ASSUME NEW i \in 1..Len(b) PROVE b[i] = Len(g) + i
    <3>1. k + i \in 1..n
      BY <1>1, <1>2, <1>4
    <3> QED BY <1>1, <1>2, <1>4, <1>5, <2>1, <3>1
  <2> QED BY <2>2, <2>3, <2>4 DEF InOrder
<1>7. a = <<>> <=> buffered = <<>>
  BY <1>1, <1>2, <1>3, EmptySeq DEF n
<1> QED BY <1>3, <1>4, <1>5, <1>6, <1>7 DEF a, b, g

\* Data that arrives is put behind what is buffered.
LEMMA ReceivedInOrder ==
  ASSUME NEW got \in Seq(Nat), NEW buffered \in Seq(Nat), NEW received \in Nat,
         InOrder(got, buffered, received), NEW n \in Nat \ {0}
  PROVE  LET more == buffered \o [i \in 1..n |-> received + i]
         IN  more \in Seq(Nat) /\ more # <<>> /\ InOrder(got, more, received + n)
<1> DEFINE new == [i \in 1..n |-> received + i]
           more == buffered \o new
<1>1. new \in Seq(Nat) /\ Len(new) = n /\ \A i \in 1..n : new[i] = received + i
  <2>1. \A i \in 1..n : received + i \in Nat
    OBVIOUS
  <2>2. new \in Seq(Nat)
    BY <2>1, IsASeq
  <2>3. DOMAIN new = 1..n
    OBVIOUS
  <2> HIDE DEF new
  <2>4. Len(new) = n
    BY <2>2, <2>3, LenProperties
  <2> QED BY <2>2, <2>4 DEF new
<1> HIDE DEF new
<1>2. /\ more \in Seq(Nat) /\ Len(more) = Len(buffered) + n
      /\ \A i \in 1..(Len(buffered) + n) :
           more[i] = IF i <= Len(buffered) THEN buffered[i] ELSE new[i - Len(buffered)]
  BY <1>1, ConcatProperties
<1> HIDE DEF more
<1>3. Len(got) \in Nat /\ Len(buffered) \in Nat
  BY LenProperties
<1>4. Len(more) = Len(buffered) + n
  BY <1>2
<1>5. InOrder(got, more, received + n)
  <2>1. Len(got) + Len(buffered) = received
        /\ (\A i \in 1..Len(got) : got[i] = i)
        /\ \A i \in 1..Len(buffered) : buffered[i] = Len(got) + i
    BY DEF InOrder
  <2>2. Len(got) + Len(buffered) = received
    BY <2>1
  <2>3. ASSUME NEW i \in 1..Len(more) PROVE more[i] = Len(got) + i
    <3>1. CASE i <= Len(buffered)
      <4>1. i \in 1..Len(buffered) /\ i \in 1..(Len(buffered) + n)
        BY <1>2, <1>3, <3>1
      <4> QED BY <1>2, <2>1, <3>1, <4>1
    <3>2. CASE ~(i <= Len(buffered))
      <4>1. i - Len(buffered) \in 1..n
        BY <1>2, <1>3, <3>2
      <4>2. more[i] = received + (i - Len(buffered))
        BY <1>1, <1>2, <3>2, <4>1
      <4>3. i \in Int /\ received + (i - Len(buffered)) = Len(got) + i
        <5>1. i \in Int
          BY <1>3, <1>4
        <5>2. (Len(got) + Len(buffered)) + (i - Len(buffered)) = Len(got) + i
          BY <1>3, <5>1
        <5> QED BY <2>2, <5>1, <5>2
      <4> QED BY <4>2, <4>3
    <3> QED BY <3>1, <3>2
  <2>4. Len(got) + Len(more) = received + n
    <3>1. \A a, b, c \in Nat : a + (b + c) = (a + b) + c
      OBVIOUS
    <3>2. Len(got) + (Len(buffered) + n) = (Len(got) + Len(buffered)) + n
      BY <1>3, <3>1
    <3> QED BY <1>4, <2>2, <3>2
  <2> QED BY <2>1, <2>3, <2>4 DEF InOrder
<1>6. more # <<>>
  BY <1>2, <1>3, EmptySeq
<1> QED BY <1>2, <1>5, <1>6 DEF more, new

\* What NothingLost says of the two sequences.
LEMMA InOrderIsAll ==
  ASSUME NEW got \in Seq(Nat), NEW buffered \in Seq(Nat), NEW received \in Nat,
         InOrder(got, buffered, received)
  PROVE  got \o buffered = [i \in 1..received |-> i]
<1> DEFINE all == got \o buffered
<1>1. /\ all \in Seq(Nat) /\ Len(all) = Len(got) + Len(buffered)
      /\ \A i \in 1..(Len(got) + Len(buffered)) :
           all[i] = IF i <= Len(got) THEN got[i] ELSE buffered[i - Len(got)]
  BY ConcatProperties
<1>2. Len(got) \in Nat /\ Len(buffered) \in Nat /\ DOMAIN all = 1..Len(all)
      /\ all = [i \in 1..Len(all) |-> all[i]]
  BY <1>1, LenProperties
<1> HIDE DEF all
<1>3. ASSUME NEW i \in 1..received PROVE all[i] = i
  <2>1. CASE i <= Len(got)
    <3>1. i \in 1..Len(got) /\ i \in 1..(Len(got) + Len(buffered))
      BY <1>2, <2>1
    <3>2. all[i] = got[i]
      BY <1>1, <2>1, <3>1
    <3>3. got[i] = i
      BY <3>1 DEF InOrder
    <3> QED BY <3>2, <3>3
  <2>2. CASE ~(i <= Len(got))
    <3>1. i - Len(got) \in 1..Len(buffered)
      BY <1>2, <2>2 DEF InOrder
    <3>2. i \in 1..(Len(got) + Len(buffered)) /\ Len(got) + (i - Len(got)) = i
      BY <1>2 DEF InOrder
    <3>3. all[i] = buffered[i - Len(got)]
      BY <1>1, <2>2, <3>2
    <3>4. buffered[i - Len(got)] = Len(got) + (i - Len(got))
      BY <3>1 DEF InOrder
    <3> QED BY <3>2, <3>3, <3>4
  <2> QED BY <2>1, <2>2
<1>4. Len(all) = received
  BY <1>1 DEF InOrder
<1> QED BY <1>2, <1>3, <1>4 DEF all

-----------------------------------------------------------------------------
\* Answers.

USE DEF Ops, Replies, Refusals

\* y is x after the callback of op was run.
IsAnswered(x, y, op) ==
  /\ IsState(y) /\ y.strm = x.strm /\ y.tasks = x.tasks
  /\ IsSocket(y.sock) /\ IsUser(y.user)
  /\ y.sock.callbacks = x.sock.callbacks \ {op}
  /\ y.sock.next_state = x.sock.next_state
  /\ y.sock.use_fastopen = x.sock.use_fastopen
  /\ y.sock.read_headers_pending = x.sock.read_headers_pending
  /\ y.sock.user_buffer = x.sock.user_buffer
  /\ y.user.awaits = x.user.awaits \ {op}
  /\ y.user.got = x.user.got /\ y.user.stray = x.user.stray

LEMMA AnsweredIs ==
  ASSUME NEW x, IsState(x), NEW op, op \in x.user.awaits, NEW how,
         IsSocket(x.sock), IsUser(x.user)
  PROVE  /\ IsAnswered(x, Answered(x, op, how), op)
         /\ Answered(x, op, how).user.phase = x.user.phase
<1> DEFINE y == Answered(x, op, how)
<1>1. /\ IsState(y) /\ y.strm = x.strm /\ y.tasks = x.tasks
      /\ y.sock = [x.sock EXCEPT !.callbacks = @ \ {op}]
      /\ y.user = [x.user EXCEPT !.awaits = @ \ {op}, !.stray = @]
  BY DEF Answered, IsState
<1> HIDE DEF y
<1>2. /\ IsSocket(y.sock) /\ y.sock.callbacks = x.sock.callbacks \ {op}
      /\ y.sock.next_state = x.sock.next_state /\ y.sock.use_fastopen = x.sock.use_fastopen
      /\ y.sock.read_headers_pending = x.sock.read_headers_pending
      /\ y.sock.user_buffer = x.sock.user_buffer
  BY <1>1 DEF IsSocket
<1>3. /\ IsUser(y.user) /\ y.user.awaits = x.user.awaits \ {op} /\ y.user.stray = x.user.stray
      /\ y.user.phase = x.user.phase /\ y.user.got = x.user.got
  BY <1>1 DEF IsUser
<1> QED BY <1>1, <1>2, <1>3 DEF y, IsAnswered

\* The result of Connect.
LEMMA ConnectDoneIs ==
  ASSUME NEW x, IsState(x), "connect" \in x.user.awaits, IsSocket(x.sock), IsUser(x.user),
         NEW rv \in {"ok", "auth"}
  PROVE  /\ IsAnswered(x, ConnectDone(x, rv), "connect")
         /\ ConnectDone(x, rv).user.phase = IF rv = "ok" THEN "connected" ELSE "challenged"
<1> DEFINE z == Answered(x, "connect", "connect")
           phase == IF rv = "ok" THEN "connected" ELSE "challenged"
           y == ConnectDone(x, rv)
<1>1. y = [z EXCEPT !.user.phase = phase]
  BY DEF ConnectDone
<1>2. IsAnswered(x, z, "connect")
  BY AnsweredIs
<1> HIDE DEF y, z
<1>3. /\ IsState(y) /\ y.strm = z.strm /\ y.tasks = z.tasks /\ y.sock = z.sock
      /\ y.user = [z.user EXCEPT !.phase = phase]
  BY <1>1, <1>2 DEF IsState, IsAnswered
<1>4. phase \in {"connected", "challenged"}
  OBVIOUS
<1> HIDE DEF phase
<1>5. /\ IsUser(y.user) /\ y.user.phase = phase /\ y.user.awaits = z.user.awaits
      /\ y.user.got = z.user.got /\ y.user.stray = z.user.stray
  BY <1>2, <1>3, <1>4 DEF IsUser, IsAnswered
<1>6. IsAnswered(x, y, "connect")
  BY <1>2, <1>3, <1>5 DEF IsAnswered
<1> QED BY <1>5, <1>6 DEF y, phase

-----------------------------------------------------------------------------
\* Over HTTP/2.

LEMMA SpdyGone ==
  ASSUME kind = "spdy", NEW x, IsState(x), SpdyTypes(x.sock, x.strm, x.tasks, x.user),
         SpdyReplied(x.strm, x.user)
  PROVE  /\ SpdyInv(Disconnected(x)) /\ Disconnected(x).user.phase = "disconnected"
         /\ SpdyInv(Destroyed(x)) /\ Destroyed(x).user.phase = "destroyed"
<1> DEFINE c == SpdyDisconnect(x)
<1>1. /\ DOMAIN c = {"sock", "strm", "tasks", "user"} /\ c.tasks = <<>> /\ c.user = x.user
      /\ c.sock = [x.sock EXCEPT !.callbacks = {}, !.user_buffer = FALSE,
                                 !.next_state = "DISCONNECTED"]
      /\ c.strm = [x.strm EXCEPT !.buffered = <<>>, !.io = "CLOSED", !.sending = "nothing"]
  BY DEF SpdyDisconnect, IsState
<1>2. PICK s : s = c.sock
  OBVIOUS
<1>3. PICK t : t = c.strm
  OBVIOUS
<1>4. /\ IsSocket(s) /\ s.callbacks = {} /\ ~s.user_buffer /\ s.next_state = "DISCONNECTED"
  BY <1>1, <1>2 DEF IsSocket, SpdyTypes
<1>5. /\ IsSpdyStream(t) /\ t.io = "CLOSED" /\ t.sending = "nothing" /\ t.buffered = <<>>
      /\ t.reply = x.strm.reply /\ t.received = x.strm.received /\ t.response = x.strm.response
  BY <1>1, <1>3, EmptySeq DEF IsSpdyStream, SpdyTypes
<1>6. c = SpdyDisconnect(x)
  OBVIOUS
<1> HIDE DEF c
<1>7. ASSUME NEW u, IsUser(u), u.awaits = {}, u.got = x.user.got,
             u.phase \in {"disconnected", "destroyed"}
      PROVE  SpdyGood(s, t, <<>>, u)
  <2>1. SpdyTypes(s, t, <<>>, u)
    BY <1>4, <1>5, <1>7, EmptySeq DEF SpdyTypes
  <2>2. SpdyBegins(s, t, <<>>, u) /\ SpdyOver(s, t, <<>>)
    BY <1>4, <1>5, <1>7 DEF SpdyBegins, SpdyOver
  <2>3. SpdyReplied(t, u) /\ SpdyKept(s, t, <<>>, u)
    BY <1>4, <1>5, <1>7 DEF SpdyReplied, SpdyKept
  <2> QED BY <1>7, <2>1, <2>2, <2>3 DEF SpdyGood
<1>8. SpdyInv(Disconnected(x)) /\ Disconnected(x).user.phase = "disconnected"
  <2> DEFINE d == Disconnected(x)
             u == [x.user EXCEPT !.phase = "disconnected", !.awaits = {}]
  <2>1. /\ DOMAIN d = {"sock", "strm", "tasks", "user"} /\ d.sock = s /\ d.strm = t
        /\ d.tasks = <<>> /\ d.user = u
    BY <1>1, <1>2, <1>3, <1>6 DEF Disconnected, Disconnect
  <2>2. IsUser(u) /\ u.awaits = {} /\ u.got = x.user.got /\ u.phase = "disconnected"
    BY DEF IsUser, SpdyTypes
  <2> HIDE DEF d, u
  <2>3. SpdyGood(d.sock, d.strm, d.tasks, d.user) /\ d.user.phase = u.phase
    BY <1>7, <2>1, <2>2
  <2> QED BY <2>1, <2>2, <2>3 DEF SpdyInv, IsState, d
<1>9. SpdyInv(Destroyed(x)) /\ Destroyed(x).user.phase = "destroyed"
  <2> DEFINE d == Destroyed(x)
             u == [x.user EXCEPT !.phase = "destroyed", !.awaits = {}]
  <2>1. /\ DOMAIN d = {"sock", "strm", "tasks", "user"} /\ d.sock = s /\ d.strm = t
        /\ d.tasks = <<>> /\ d.user = u
    BY <1>1, <1>2, <1>3, <1>6 DEF Destroyed, Disconnect
  <2>2. IsUser(u) /\ u.awaits = {} /\ u.got = x.user.got /\ u.phase = "destroyed"
    BY DEF IsUser, SpdyTypes
  <2> HIDE DEF d, u
  <2>3. SpdyGood(d.sock, d.strm, d.tasks, d.user) /\ d.user.phase = u.phase
    BY <1>7, <2>1, <2>2
  <2> QED BY <2>1, <2>2, <2>3 DEF SpdyInv, IsState, d
<1> QED BY <1>8, <1>9

\* OnDataReceived of the socket when a Read is pending.
LEMMA SpdyReaderTold ==
  ASSUME kind = "spdy", NEW x, IsState(x), SpdyTypes(x.sock, x.strm, x.tasks, x.user),
         SpdyReplied(x.strm, x.user), InOrder(x.user.got, x.strm.buffered, x.strm.received),
         "read" \in x.sock.callbacks, "read" \in x.user.awaits, x.sock.user_buffer
  PROVE  LET y == SpdyTellReader(x)
         IN  /\ x.strm.buffered = <<>> => SpdyInv(y) /\ y.user.phase = "disconnected"
             /\ x.strm.buffered # <<>> =>
                  /\ DOMAIN y = {"sock", "strm", "tasks", "user"}
                  /\ y.sock = [x.sock EXCEPT !.user_buffer = FALSE, !.callbacks = @ \ {"read"}]
                  /\ y.strm = [x.strm EXCEPT !.buffered = Rest(@, BufLen)]
                  /\ y.tasks = x.tasks
                  /\ y.user = [x.user EXCEPT !.awaits = @ \ {"read"},
                                             !.got = @ \o First(x.strm.buffered, BufLen)]
<1> DEFINE data == First(x.strm.buffered, BufLen)
           z == Answered(Take([x EXCEPT !.sock.user_buffer = FALSE]).x, "read", "read")
<1>1. Take([x EXCEPT !.sock.user_buffer = FALSE]).data = data
  BY DEF Take, IsState
<1>2. SpdyTellReader(x) = IF data = <<>> THEN ReadEnds(z) ELSE ReadData(z, data)
  BY <1>1 DEF SpdyTellReader, ReadCallback
<1>3. /\ DOMAIN z = {"sock", "strm", "tasks", "user"}
      /\ z.sock = [x.sock EXCEPT !.user_buffer = FALSE, !.callbacks = @ \ {"read"}]
      /\ z.strm = [x.strm EXCEPT !.buffered = Rest(@, BufLen)]
      /\ z.tasks = x.tasks
      /\ z.user = [x.user EXCEPT !.awaits = @ \ {"read"}, !.stray = @]
  <2> DEFINE w == [x EXCEPT !.sock.user_buffer = FALSE]
             v == Take(w).x
  <2>1. /\ DOMAIN w = {"sock", "strm", "tasks", "user"} /\ w.strm = x.strm /\ w.tasks = x.tasks
        /\ w.sock = [x.sock EXCEPT !.user_buffer = FALSE] /\ w.user = x.user
    BY DEF IsState
  <2> HIDE DEF w
  <2>2. /\ DOMAIN v = {"sock", "strm", "tasks", "user"} /\ v.sock = w.sock /\ v.tasks = w.tasks
        /\ v.strm = [w.strm EXCEPT !.buffered = Rest(@, BufLen)] /\ v.user = w.user
    BY <2>1 DEF Take
  <2> HIDE DEF v
  <2>3. /\ DOMAIN Answered(v, "read", "read") = {"sock", "strm", "tasks", "user"}
        /\ Answered(v, "read", "read").sock = [v.sock EXCEPT !.callbacks = @ \ {"read"}]
        /\ Answered(v, "read", "read").strm = v.strm
        /\ Answered(v, "read", "read").tasks = v.tasks
        /\ Answered(v, "read", "read").user = [v.user EXCEPT !.awaits = @ \ {"read"}, !.stray = @]
    BY <2>1, <2>2 DEF Answered
  <2>4. v.sock.callbacks = x.sock.callbacks
    BY <2>1, <2>2 DEF SpdyTypes, IsSocket
  <2> QED BY <2>1, <2>2, <2>3, <2>4 DEF v, w
<1> HIDE DEF z
<1>4. x.user.got \in Seq(Nat) /\ x.strm.buffered \in Seq(Nat)
  BY DEF SpdyTypes, IsUser, IsSpdyStream
<1>5. /\ Rest(x.strm.buffered, BufLen) \in Seq(Nat)
      /\ data = <<>> <=> x.strm.buffered = <<>>
  BY <1>4, TakenInOrder
<1>6. CASE x.strm.buffered = <<>>
  <2>1. SpdyTypes(z.sock, z.strm, z.tasks, z.user)
    <3>1. IsSocket(z.sock)
      BY <1>3 DEF SpdyTypes, IsSocket
    <3>2. IsSpdyStream(z.strm)
      BY <1>3, <1>5 DEF SpdyTypes, IsSpdyStream
    <3>3. IsUser(z.user)
      BY <1>3 DEF SpdyTypes, IsUser
    <3> QED BY <1>3, <3>1, <3>2, <3>3 DEF SpdyTypes
  <2>2. Rest(<<>>, BufLen) = <<>>
    BY SizesAssumption DEF Rest
  <2>3. SpdyReplied(z.strm, z.user)
    <3>1. /\ z.strm.response = x.strm.response /\ z.strm.reply = x.strm.reply
          /\ z.strm.received = x.strm.received /\ z.strm.buffered = <<>>
      BY <1>3, <1>6, <2>2 DEF SpdyTypes, IsSpdyStream
    <3>2. z.user.got = x.user.got
      BY <1>3 DEF SpdyTypes, IsUser
    <3> QED BY <3>1, <3>2 DEF SpdyReplied
  <2>4. SpdyInv(Disconnected(z)) /\ Disconnected(z).user.phase = "disconnected"
    BY <1>3, <2>1, <2>3, SpdyGone DEF IsState
  <2> QED BY <1>2, <1>5, <1>6, <2>4 DEF ReadEnds
<1>7. CASE x.strm.buffered # <<>>
  <2>1. SpdyTellReader(x) = ReadData(z, data)
    BY <1>2, <1>5, <1>7
  <2> HIDE DEF data
  <2>2. /\ DOMAIN ReadData(z, data) = {"sock", "strm", "tasks", "user"}
        /\ ReadData(z, data).sock = z.sock /\ ReadData(z, data).strm = z.strm
        /\ ReadData(z, data).tasks = z.tasks
        /\ ReadData(z, data).user = [z.user EXCEPT !.got = @ \o data]
    BY <1>3 DEF ReadData
  <2>3. [z.user EXCEPT !.got = @ \o data]
          = [x.user EXCEPT !.awaits = @ \ {"read"}, !.got = @ \o data]
    BY <1>3 DEF SpdyTypes, IsUser
  <2> QED BY <1>3, <1>7, <2>1, <2>2, <2>3 DEF data
<1> QED BY <1>6, <1>7

LEMMA SpdyConnectFails ==
  ASSUME kind = "spdy", NEW x, IsState(x), SpdyTypes(x.sock, x.strm, x.tasks, x.user),
         SpdyReplied(x.strm, x.user), "connect" \in x.user.awaits
  PROVE  SpdyInv(ConnectDone(x, "error")) /\ ConnectDone(x, "error").user.phase = "destroyed"
<1> DEFINE z == Answered(x, "connect", "connect")
<1>1. ConnectDone(x, "error") = Destroyed(z)
  BY DEF ConnectDone
<1>2. IsAnswered(x, z, "connect")
  BY AnsweredIs DEF SpdyTypes
<1> HIDE DEF z
<1>3. IsState(z) /\ SpdyTypes(z.sock, z.strm, z.tasks, z.user) /\ SpdyReplied(z.strm, z.user)
  BY <1>2 DEF SpdyTypes, SpdyReplied, IsAnswered
<1> QED BY <1>1, <1>3, SpdyGone

\* OnClose while the tunnel is being connected.
LEMMA SpdyCloseConnecting ==
  ASSUME kind = "spdy", NEW x, IsState(x), SpdyTypes(x.sock, x.strm, x.tasks, x.user),
         SpdyReplied(x.strm, x.user), x.sock.callbacks = {"connect"},
         x.user.awaits = {"connect"},
         x.sock.next_state \notin {"DISCONNECTED", "OPEN", "CLOSED"}
  PROVE  SpdyInv(SpdyOnClose(x))
<1> DEFINE y == SpdyDropStream(x)
<1>1. /\ IsState(y) /\ y.user = x.user /\ y.tasks = x.tasks
      /\ y.strm = [x.strm EXCEPT !.io = "CLOSED", !.sending = "nothing"]
      /\ y.sock = [x.sock EXCEPT !.next_state = "DISCONNECTED", !.callbacks = @ \ {"write"}]
  BY DEF IsState, SpdyTypes, IsSocket, SpdyDropStream
<1>2. SpdyOnClose(x) = ConnectDone(Checks(y, "OnClose", ReadCallback(y)), "error")
  BY DEF SpdyOnClose
<1> HIDE DEF y
<1>3. IsSocket(y.sock) /\ y.sock.callbacks = {"connect"}
  BY <1>1 DEF SpdyTypes, IsSocket
<1>4. /\ IsSpdyStream(y.strm) /\ y.strm.response = x.strm.response /\ y.strm.reply = x.strm.reply
      /\ y.strm.received = x.strm.received /\ y.strm.buffered = x.strm.buffered
  BY <1>1 DEF SpdyTypes, IsSpdyStream
<1>5. Checks(y, "OnClose", ReadCallback(y)) = y
  BY <1>3 DEF Checks, ReadCallback
<1>6. SpdyTypes(y.sock, y.strm, y.tasks, y.user) /\ SpdyReplied(y.strm, y.user)
  BY <1>1, <1>3, <1>4 DEF SpdyTypes, SpdyReplied
<1> QED BY <1>1, <1>2, <1>5, <1>6, SpdyConnectFails

\* The callback of a Write that OnClose still runs after the user disconnected.
LEMMA SpdyStray ==
  ASSUME kind = "spdy", NEW x, SpdyInv(x), x.user.phase = "disconnected"
  PROVE  SpdyInv(WriteDone(Answered(x, "write", "write in OnClose"), "error"))
<1> DEFINE y == Answered(x, "write", "write in OnClose")
<1>1. SpdyGood(x.sock, x.strm, x.tasks, x.user) /\ IsState(x) /\ x.sock.callbacks = {}
      /\ x.user.awaits = {}
  BY DEF SpdyInv, SpdyGood, SpdyOver, SpdyKept
<1>2. /\ IsState(y) /\ y.strm = x.strm /\ y.tasks = x.tasks
      /\ y.sock = [x.sock EXCEPT !.callbacks = @ \ {"write"}]
      /\ y.user = [x.user EXCEPT !.awaits = @ \ {"write"}, !.stray = @ \cup {"write in OnClose"}]
  BY <1>1 DEF Answered, IsState
<1> HIDE DEF y
<1>3. /\ IsSocket(y.sock) /\ y.sock.callbacks = {} /\ y.sock.next_state = x.sock.next_state
      /\ y.sock.user_buffer = x.sock.user_buffer
  BY <1>1, <1>2 DEF SpdyGood, SpdyTypes, IsSocket
<1>4. IsUser(y.user) /\ y.user.awaits = {} /\ y.user.got = x.user.got
      /\ y.user.phase = "disconnected"
  BY <1>1, <1>2 DEF SpdyGood, SpdyTypes, IsUser
<1>5. SpdyTypes(y.sock, y.strm, y.tasks, y.user)
  BY <1>1, <1>2, <1>3, <1>4 DEF SpdyGood, SpdyTypes
<1>6. SpdyBegins(y.sock, y.strm, y.tasks, y.user) /\ SpdyOver(y.sock, y.strm, y.tasks)
  BY <1>1, <1>2, <1>3, <1>4 DEF SpdyGood, SpdyBegins, SpdyOver
<1>7. SpdyReplied(y.strm, y.user) /\ SpdyKept(y.sock, y.strm, y.tasks, y.user)
  BY <1>1, <1>2, <1>3, <1>4, <1>6 DEF SpdyGood, SpdyReplied, SpdyKept, SpdyOver
<1>8. SpdyInv(y)
  BY <1>2, <1>4, <1>5, <1>6, <1>7 DEF SpdyInv, SpdyGood
<1>9. WriteDone(y, "error") = y
  BY <1>4 DEF WriteDone
<1> QED BY <1>8, <1>9 DEF y

\* OnClose of a tunnel that is in use or challenged.
LEMMA SpdyCloseInUse ==
  ASSUME kind = "spdy", NEW x, SpdyInv(x), x.user.phase \in {"challenged", "connected"},
         x.strm.io # "CLOSED"
  PROVE  SpdyInv(SpdyOnClose(x))
<1>1. /\ IsState(x) /\ SpdyTypes(x.sock, x.strm, x.tasks, x.user)
      /\ SpdyBegins(x.sock, x.strm, x.tasks, x.user)
      /\ SpdyReplied(x.strm, x.user) /\ SpdyKept(x.sock, x.strm, x.tasks, x.user)
      /\ x.user.phase = "connected" => SpdyInUse(x.sock, x.strm, x.tasks, x.user)
  BY DEF SpdyInv, SpdyGood
<1>2. /\ x.sock.next_state \in {"DISCONNECTED", "OPEN", "CLOSED"}
      /\ x.sock.callbacks \subseteq {"read", "write"}
      /\ x.user.phase = "connected" => x.sock.next_state # "CLOSED"
      /\ x.sock.callbacks # {} => x.user.phase = "connected"
  BY <1>1 DEF SpdyBegins, SpdyInUse
<1> DEFINE state == IF x.sock.next_state = "OPEN" THEN "CLOSED" ELSE "DISCONNECTED"
           y == SpdyDropStream(x)
           z == SpdyTellReader(y)
           write == "write" \in x.sock.callbacks
<1>3. SpdyOnClose(x) = IF write /\ Alive(z)
                       THEN WriteDone(Answered(z, "write", "write in OnClose"), "error") ELSE z
  BY <1>2 DEF SpdyOnClose
<1>4. /\ IsState(y) /\ y.user = x.user /\ y.tasks = x.tasks
      /\ y.strm = [x.strm EXCEPT !.io = "CLOSED", !.sending = "nothing"]
      /\ y.sock = [x.sock EXCEPT !.next_state = state, !.callbacks = x.sock.callbacks \ {"write"}]
  BY <1>1 DEF IsState, SpdyTypes, IsSocket, SpdyDropStream
<1> HIDE DEF y, state
<1>5. /\ IsSocket(y.sock) /\ y.sock.callbacks = x.sock.callbacks \ {"write"}
      /\ y.sock.next_state = state /\ y.sock.user_buffer = x.sock.user_buffer
      /\ y.sock.use_fastopen = x.sock.use_fastopen
      /\ y.sock.read_headers_pending = x.sock.read_headers_pending
  BY <1>1, <1>4 DEF SpdyTypes, IsSocket
<1>6. /\ IsSpdyStream(y.strm) /\ y.strm.response = x.strm.response /\ y.strm.reply = x.strm.reply
      /\ y.strm.received = x.strm.received /\ y.strm.buffered = x.strm.buffered
      /\ y.strm.io = "CLOSED" /\ y.strm.sending = "nothing"
  BY <1>1, <1>4 DEF SpdyTypes, IsSpdyStream
<1>7. SpdyTypes(y.sock, y.strm, y.tasks, y.user) /\ SpdyReplied(y.strm, y.user)
  BY <1>1, <1>4, <1>5, <1>6 DEF SpdyTypes, SpdyReplied
<1>8. CASE "read" \notin x.sock.callbacks
  <2>1. z = y
    BY <1>2, <1>5, <1>8 DEF SpdyTellReader, ReadCallback
  <2>2. CASE ~write
    <3>1. SpdyOnClose(x) = y /\ x.sock.callbacks = {}
      BY <1>2, <1>3, <1>8, <2>1, <2>2
    <3>2. SpdyBegins(y.sock, y.strm, y.tasks, y.user)
      BY <1>1, <1>4, <1>5, <1>6, <3>1 DEF SpdyBegins, state
    <3>3. x.user.phase = "connected" => SpdyInUse(y.sock, y.strm, y.tasks, y.user)
      BY <1>1, <1>2, <1>4, <1>5, <1>6, <3>1 DEF SpdyInUse, state
    <3>4. SpdyKept(y.sock, y.strm, y.tasks, y.user)
      BY <1>1, <1>4, <1>5, <1>6, <3>1 DEF SpdyKept
    <3> QED BY <1>4, <1>7, <3>1, <3>2, <3>3, <3>4 DEF SpdyInv, SpdyGood
  <2>3. CASE write
    <3> DEFINE w == Answered(y, "write", "write in OnClose")
    <3>1. "write" \in y.user.awaits /\ y.user.phase = "connected"
      BY <1>1, <1>2, <1>4, <2>3 DEF SpdyKept
    <3>2. IsAnswered(y, w, "write") /\ w.user.phase = "connected"
      <4>1. IsSocket(y.sock) /\ IsUser(y.user) /\ IsState(y)
        BY <1>4, <1>7 DEF SpdyTypes
      <4>2. IsAnswered(y, w, "write") /\ w.user.phase = y.user.phase
        BY <3>1, <4>1, AnsweredIs
      <4> QED BY <3>1, <4>2
    <3>3. SpdyOnClose(x) = WriteDone(w, "error")
      BY <1>3, <2>1, <2>3, <3>1 DEF Alive
    <3> HIDE DEF w
    <3>4. SpdyOnClose(x) = Disconnected(w)
      BY <3>2, <3>3 DEF WriteDone
    <3>5. IsState(w) /\ SpdyTypes(w.sock, w.strm, w.tasks, w.user) /\ SpdyReplied(w.strm, w.user)
      BY <1>7, <3>2 DEF SpdyTypes, SpdyReplied, IsAnswered
    <3> QED BY <3>4, <3>5, SpdyGone
  <2> QED BY <2>2, <2>3
<1>9. CASE "read" \in x.sock.callbacks
  <2>1. /\ "read" \in y.sock.callbacks /\ "read" \in y.user.awaits /\ y.sock.user_buffer
        /\ y.strm.buffered = <<>> /\ InOrder(y.user.got, y.strm.buffered, y.strm.received)
    BY <1>1, <1>2, <1>4, <1>5, <1>6, <1>9 DEF SpdyInUse, SpdyKept
  <2>2. SpdyInv(z) /\ z.user.phase = "disconnected"
    BY <1>4, <1>7, <2>1, SpdyReaderTold
  <2> HIDE DEF z
  <2> QED BY <1>3, <2>2, SpdyStray
<1> QED BY <1>8, <1>9

\* A tunnel whose request is still to be sent.
SpdyStarts(x) ==
  /\ IsState(x) /\ SpdyTypes(x.sock, x.strm, x.tasks, x.user) /\ SpdyReplied(x.strm, x.user)
  /\ x.sock.callbacks = {"connect"} /\ ~x.sock.user_buffer /\ ~x.sock.read_headers_pending
  /\ x.strm.response = "READY_FOR_HEADERS" /\ x.strm.io = "IDLE" /\ x.strm.sending = "nothing"
  /\ x.tasks = <<>>
  /\ x.user.phase = "connecting" /\ x.user.awaits = {"connect"} /\ x.user.got = <<>>
  /\ InOrder(x.user.got, x.strm.buffered, x.strm.received)

LEMMA SpdyProceeds ==
  ASSUME kind = "spdy", NEW x, SpdyStarts(x)
  PROVE  /\ SpdyInv(SetState(x, "GENERATE_AUTH_TOKEN_COMPLETE"))
         /\ \A fastopen \in BOOLEAN : SpdyInv(SpdySendRequest(x, fastopen))
         /\ SpdyInv(ConnectDone(x, "error"))
         /\ SpdyInv(ConnectDone(SetState(x, "DISCONNECTED"), "error"))
<1>1. ASSUME NEW y, IsState(y), y.tasks = x.tasks, y.user = x.user,
             IsSocket(y.sock), IsSpdyStream(y.strm),
             y.sock.callbacks = x.sock.callbacks, y.sock.user_buffer = x.sock.user_buffer,
             y.sock.read_headers_pending = x.sock.read_headers_pending,
             y.strm.response = x.strm.response, y.strm.io = x.strm.io,
             y.strm.reply = x.strm.reply, y.strm.received = x.strm.received,
             y.strm.buffered = x.strm.buffered,
             \/ y.sock.next_state = "GENERATE_AUTH_TOKEN_COMPLETE" /\ y.strm.sending = "nothing"
             \/ y.sock.next_state = "SEND_REQUEST_COMPLETE" /\ y.strm.sending = "request"
      PROVE  SpdyInv(y)
  <2>1. SpdyTypes(y.sock, y.strm, y.tasks, y.user) /\ SpdyReplied(y.strm, y.user)
    BY <1>1 DEF SpdyStarts, SpdyTypes, SpdyReplied
  <2>2. SpdyBegins(y.sock, y.strm, y.tasks, y.user)
    BY <1>1 DEF SpdyStarts, SpdyBegins
  <2>3. SpdyKept(y.sock, y.strm, y.tasks, y.user)
    BY <1>1 DEF SpdyStarts, SpdyKept
  <2>4. y.user.phase = "connecting"
    BY <1>1 DEF SpdyStarts
  <2> QED BY <1>1, <2>1, <2>2, <2>3, <2>4 DEF SpdyInv, SpdyGood
<1>2. ASSUME NEW state
      PROVE  LET y == SetState(x, state)
             IN  /\ IsState(y) /\ y.tasks = x.tasks /\ y.user = x.user /\ y.strm = x.strm
                 /\ IsSocket(y.sock) /\ y.sock.callbacks = x.sock.callbacks
                 /\ y.sock.user_buffer = x.sock.user_buffer /\ y.sock.next_state = state
                 /\ y.sock.read_headers_pending = x.sock.read_headers_pending
  <2> DEFINE y == SetState(x, state)
  <2>1. IsState(y) /\ y.tasks = x.tasks /\ y.user = x.user /\ y.strm = x.strm
        /\ y.sock = [x.sock EXCEPT !.next_state = state]
    BY DEF SetState, IsState, SpdyStarts
  <2> HIDE DEF y
  <2> QED BY <2>1 DEF SpdyStarts, SpdyTypes, IsSocket, y
<1>3. SpdyInv(SetState(x, "GENERATE_AUTH_TOKEN_COMPLETE"))
  <2> DEFINE y == SetState(x, "GENERATE_AUTH_TOKEN_COMPLETE")
  <2>1. /\ IsState(y) /\ y.tasks = x.tasks /\ y.user = x.user /\ y.strm = x.strm
        /\ IsSocket(y.sock) /\ y.sock.callbacks = x.sock.callbacks
        /\ y.sock.user_buffer = x.sock.user_buffer
        /\ y.sock.next_state = "GENERATE_AUTH_TOKEN_COMPLETE"
        /\ y.sock.read_headers_pending = x.sock.read_headers_pending
    BY <1>2
  <2> HIDE DEF y
  <2>2. IsSpdyStream(y.strm) /\ y.strm.sending = "nothing"
    BY <2>1 DEF SpdyStarts, SpdyTypes
  <2>3. SpdyInv(y)
    BY <1>1, <2>1, <2>2
  <2> QED BY <2>3 DEF y
<1>4. ASSUME NEW fastopen \in BOOLEAN PROVE SpdyInv(SpdySendRequest(x, fastopen))
  <2> DEFINE z == SetState(x, "SEND_REQUEST_COMPLETE")
             y == SpdySendRequest(x, fastopen)
  <2>1. /\ IsState(z) /\ z.tasks = x.tasks /\ z.user = x.user /\ z.strm = x.strm
        /\ IsSocket(z.sock) /\ z.sock.callbacks = x.sock.callbacks
        /\ z.sock.user_buffer = x.sock.user_buffer
        /\ z.sock.next_state = "SEND_REQUEST_COMPLETE"
        /\ z.sock.read_headers_pending = x.sock.read_headers_pending
    BY <1>2
  <2>2. y = [z EXCEPT !.sock.use_fastopen = fastopen, !.strm.sending = "request"]
    BY DEF SpdySendRequest
  <2> HIDE DEF y, z
  <2>3. /\ IsState(y) /\ y.tasks = x.tasks /\ y.user = x.user
        /\ y.strm = [x.strm EXCEPT !.sending = "request"]
        /\ y.sock = [z.sock EXCEPT !.use_fastopen = fastopen]
    BY <2>1, <2>2 DEF IsState
  <2>4. /\ IsSocket(y.sock) /\ y.sock.callbacks = x.sock.callbacks
        /\ y.sock.user_buffer = x.sock.user_buffer
        /\ y.sock.next_state = "SEND_REQUEST_COMPLETE"
        /\ y.sock.read_headers_pending = x.sock.read_headers_pending
    BY <2>1, <2>3 DEF IsSocket
  <2>5. /\ IsSpdyStream(y.strm) /\ y.strm.sending = "request"
        /\ y.strm.response = x.strm.response /\ y.strm.io = x.strm.io
        /\ y.strm.reply = x.strm.reply /\ y.strm.received = x.strm.received
        /\ y.strm.buffered = x.strm.buffered
    BY <2>3 DEF IsSpdyStream, SpdyStarts, SpdyTypes
  <2>6. SpdyInv(y)
    BY <1>1, <2>3, <2>4, <2>5
  <2> QED BY <2>6 DEF y
<1>5. SpdyInv(ConnectDone(x, "error"))
  BY SpdyConnectFails DEF SpdyStarts
<1>6. SpdyInv(ConnectDone(SetState(x, "DISCONNECTED"), "error"))
  <2> DEFINE y == SetState(x, "DISCONNECTED")
  <2>1. /\ IsState(y) /\ y.tasks = x.tasks /\ y.user = x.user /\ y.strm = x.strm
        /\ IsSocket(y.sock)
    BY <1>2
  <2> HIDE DEF y
  <2>2. SpdyTypes(y.sock, y.strm, y.tasks, y.user) /\ SpdyReplied(y.strm, y.user)
        /\ "connect" \in y.user.awaits
    BY <2>1 DEF SpdyStarts, SpdyTypes
  <2>3. SpdyInv(ConnectDone(y, "error"))
    BY <2>1, <2>2, SpdyConnectFails
  <2> QED BY <2>3 DEF y
<1> QED BY <1>3, <1>4, <1>5, <1>6

\* The parts of the invariant that do not speak of the phases.
LEMMA SpdyHas ==
  ASSUME NEW x, SpdyInv(x)
  PROVE  /\ IsState(x) /\ SpdyTypes(x.sock, x.strm, x.tasks, x.user)
         /\ SpdyBegins(x.sock, x.strm, x.tasks, x.user)
         /\ x.user.phase = "connected" => SpdyInUse(x.sock, x.strm, x.tasks, x.user)
         /\ x.user.phase \in {"disconnected", "destroyed"} => SpdyOver(x.sock, x.strm, x.tasks)
         /\ SpdyReplied(x.strm, x.user) /\ SpdyKept(x.sock, x.strm, x.tasks, x.user)
         /\ x.user.phase \in {"new", "connecting", "challenged", "connected", "disconnected",
                              "destroyed"}
BY DEF SpdyInv, SpdyGood, SpdyTypes, IsUser

\* The request is written, and while it is the tunnel is being connected.
LEMMA SpdyRequestIsWritten ==
  ASSUME NEW x, SpdyInv(x), x.strm.sending = "request"
  PROVE  SpdyInv([x EXCEPT !.strm.sending = "written"])
<1> DEFINE y == [x EXCEPT !.strm.sending = "written"]
<1>1. x.user.phase = "connecting"
  BY SpdyHas DEF SpdyBegins, SpdyInUse, SpdyOver
<1>2. /\ IsState(y) /\ y.sock = x.sock /\ y.tasks = x.tasks /\ y.user = x.user
      /\ y.strm = [x.strm EXCEPT !.sending = "written"]
  BY SpdyHas DEF IsState
<1> HIDE DEF y
<1>3. /\ IsSpdyStream(y.strm) /\ y.strm.sending = "written" /\ y.strm.io = x.strm.io
      /\ y.strm.response = x.strm.response /\ y.strm.reply = x.strm.reply
      /\ y.strm.received = x.strm.received /\ y.strm.buffered = x.strm.buffered
  BY <1>2, SpdyHas DEF SpdyTypes, IsSpdyStream
<1>4. SpdyTypes(y.sock, y.strm, y.tasks, y.user) /\ SpdyReplied(y.strm, y.user)
  BY <1>2, <1>3, SpdyHas DEF SpdyTypes, SpdyReplied
<1>5. SpdyBegins(y.sock, y.strm, y.tasks, y.user)
  BY <1>1, <1>2, <1>3, SpdyHas DEF SpdyBegins
<1>6. SpdyKept(y.sock, y.strm, y.tasks, y.user)
  BY <1>2, <1>3, SpdyHas DEF SpdyKept
<1>7. SpdyInv(y)
  BY <1>1, <1>2, <1>4, <1>5, <1>6 DEF SpdyInv, SpdyGood
<1> QED BY <1>7 DEF y

\* OnHeadersSent: the tunnel waits for its reply, or is connected by Fast Open.
SpdyRequestSent(x) ==
  LET y == [x EXCEPT !.strm.sending = "nothing", !.strm.io = "OPEN"]
  IN IF x.sock.use_fastopen
     THEN ConnectDone([SetState(y, "OPEN") EXCEPT !.sock.read_headers_pending = TRUE], "ok")
     ELSE SetState(y, "READ_REPLY_COMPLETE")

LEMMA SpdyRequestIsSent ==
  ASSUME kind = "spdy", NEW x, SpdyInv(x), x.strm.sending = "written"
  PROVE  x.sock.next_state = "SEND_REQUEST_COMPLETE" /\ SpdyInv(SpdyRequestSent(x))
<1> DEFINE y == [x EXCEPT !.strm.sending = "nothing", !.strm.io = "OPEN"]
           z == [SetState(y, "OPEN") EXCEPT !.sock.read_headers_pending = TRUE]
           d == ConnectDone(z, "ok")
           e == SetState(y, "READ_REPLY_COMPLETE")
<1>1. /\ x.user.phase = "connecting" /\ x.sock.next_state = "SEND_REQUEST_COMPLETE"
      /\ x.sock.callbacks = {"connect"} /\ x.tasks = <<>> /\ ~x.sock.user_buffer
      /\ ~x.sock.read_headers_pending /\ x.strm.response = "READY_FOR_HEADERS"
  BY SpdyHas DEF SpdyBegins, SpdyInUse, SpdyOver
<1>2. x.strm.reply = "none" /\ x.user.got = <<>> /\ x.strm.buffered = <<>>
      /\ x.user.awaits = {"connect"} /\ x.strm.received = 0
      /\ InOrder(x.user.got, x.strm.buffered, x.strm.received)
  BY <1>1, SpdyHas DEF SpdyReplied, SpdyKept
<1>3. /\ IsState(y) /\ y.sock = x.sock /\ y.tasks = x.tasks /\ y.user = x.user
      /\ y.strm = [x.strm EXCEPT !.sending = "nothing", !.io = "OPEN"]
  BY SpdyHas DEF IsState
<1> HIDE DEF y
<1>4. /\ IsSpdyStream(y.strm) /\ y.strm.sending = "nothing" /\ y.strm.io = "OPEN"
      /\ y.strm.response = x.strm.response /\ y.strm.reply = x.strm.reply
      /\ y.strm.received = x.strm.received /\ y.strm.buffered = x.strm.buffered
  BY <1>3, SpdyHas DEF SpdyTypes, IsSpdyStream
<1>5. SpdyTypes(y.sock, y.strm, y.tasks, y.user) /\ SpdyReplied(y.strm, y.user)
  BY <1>3, <1>4, SpdyHas DEF SpdyTypes, SpdyReplied
<1>6. CASE x.sock.use_fastopen
  <2>1. /\ IsState(z) /\ z.tasks = y.tasks /\ z.user = y.user /\ z.strm = y.strm
        /\ z.sock = [y.sock EXCEPT !.next_state = "OPEN", !.read_headers_pending = TRUE]
    BY <1>3 DEF IsState, SetState
  <2> HIDE DEF z
  <2>2. /\ IsSocket(z.sock) /\ z.sock.next_state = "OPEN" /\ z.sock.read_headers_pending
        /\ z.sock.use_fastopen /\ z.sock.callbacks = {"connect"} /\ ~z.sock.user_buffer
    <3>1. IsSocket(y.sock) /\ y.sock.use_fastopen /\ y.sock.callbacks = {"connect"}
          /\ ~y.sock.user_buffer
      BY <1>1, <1>3, <1>5, <1>6 DEF SpdyTypes
    <3> QED BY <2>1, <3>1 DEF IsSocket
  <2>3. IsAnswered(z, d, "connect") /\ d.user.phase = "connected"
    BY <1>2, <1>3, <1>5, <2>1, <2>2, ConnectDoneIs DEF SpdyTypes
  <2>4. SpdyRequestSent(x) = d
    BY <1>6 DEF SpdyRequestSent, y, z
  <2> HIDE DEF d
  <2>5. /\ d.strm = y.strm /\ d.tasks = <<>> /\ d.sock.callbacks = {} /\ d.sock.next_state = "OPEN"
        /\ d.sock.use_fastopen /\ d.sock.read_headers_pending /\ ~d.sock.user_buffer
        /\ d.user.awaits = {} /\ d.user.got = <<>> /\ IsState(d)
    BY <1>1, <1>2, <1>3, <2>1, <2>2, <2>3 DEF IsAnswered
  <2>6. SpdyTypes(d.sock, d.strm, d.tasks, d.user) /\ SpdyReplied(d.strm, d.user)
    BY <1>1, <1>2, <1>3, <1>4, <1>5, <2>3, <2>5 DEF SpdyTypes, SpdyReplied, IsAnswered
  <2>7. SpdyInUse(d.sock, d.strm, d.tasks, d.user) /\ SpdyBegins(d.sock, d.strm, d.tasks, d.user)
    BY <1>1, <1>2, <1>4, <2>3, <2>5 DEF SpdyInUse, SpdyBegins
  <2>8. SpdyKept(d.sock, d.strm, d.tasks, d.user)
    BY <1>2, <1>4, <2>3, <2>5 DEF SpdyKept
  <2> QED BY <1>1, <2>3, <2>4, <2>5, <2>6, <2>7, <2>8 DEF SpdyInv, SpdyGood
<1>7. CASE ~x.sock.use_fastopen
  <2>1. /\ IsState(e) /\ e.tasks = y.tasks /\ e.user = y.user /\ e.strm = y.strm
        /\ e.sock = [y.sock EXCEPT !.next_state = "READ_REPLY_COMPLETE"]
    BY <1>3 DEF IsState, SetState
  <2>2. SpdyRequestSent(x) = e
    BY <1>7 DEF SpdyRequestSent, y
  <2> HIDE DEF e
  <2>3. /\ IsSocket(e.sock) /\ e.sock.next_state = "READ_REPLY_COMPLETE"
        /\ ~e.sock.read_headers_pending /\ e.sock.callbacks = {"connect"} /\ ~e.sock.user_buffer
    BY <1>1, <1>3, <1>5, <2>1 DEF SpdyTypes, IsSocket
  <2>4. SpdyTypes(e.sock, e.strm, e.tasks, e.user) /\ SpdyReplied(e.strm, e.user)
    BY <1>5, <2>1, <2>3 DEF SpdyTypes
  <2>5. SpdyBegins(e.sock, e.strm, e.tasks, e.user) /\ e.user.phase = "connecting"
    BY <1>1, <1>3, <1>4, <2>1, <2>3 DEF SpdyBegins
  <2>6. SpdyKept(e.sock, e.strm, e.tasks, e.user)
    <3>1. /\ e.tasks = <<>> /\ e.user.awaits = {"connect"} /\ e.user.got = <<>>
          /\ e.strm.buffered = <<>> /\ InOrder(e.user.got, e.strm.buffered, e.strm.received)
      BY <1>1, <1>2, <1>3, <1>4, <2>1
    <3> QED BY <2>3, <2>5, <3>1 DEF SpdyKept
  <2> QED BY <1>1, <2>1, <2>2, <2>4, <2>5, <2>6 DEF SpdyInv, SpdyGood
<1> QED BY <1>6, <1>7

\* Data arrives.
SpdyMore(x, n) ==
  [x EXCEPT !.strm.received = @ + n,
            !.strm.buffered = @ \o [i \in 1..n |-> x.strm.received + i]]

LEMMA SpdyDataArrives ==
  ASSUME kind = "spdy", NEW x, SpdyInv(x), x.strm.io # "CLOSED",
         x.strm.response = "READY_FOR_DATA_OR_TRAILERS", NEW n \in Nat \ {0}
  PROVE  SpdyInv(SpdyTellReader(SpdyMore(x, n)))
<1> DEFINE more == x.strm.buffered \o [i \in 1..n |-> x.strm.received + i]
           y == SpdyMore(x, n)
           z == SpdyTellReader(y)
<1>1. x.user.phase \in {"challenged", "connected"}
  BY SpdyHas DEF SpdyBegins, SpdyOver
<1>2. /\ x.strm.reply # "none" /\ InOrder(x.user.got, x.strm.buffered, x.strm.received)
      /\ x.user.got \in Seq(Nat) /\ x.strm.buffered \in Seq(Nat) /\ x.strm.received \in Nat
  BY <1>1, SpdyHas DEF SpdyReplied, SpdyKept, SpdyTypes, IsUser, IsSpdyStream
<1>3. /\ more \in Seq(Nat) /\ more # <<>> /\ InOrder(x.user.got, more, x.strm.received + n)
      /\ x.strm.received + n \in Nat
  <2>1. more \in Seq(Nat) /\ more # <<>> /\ InOrder(x.user.got, more, x.strm.received + n)
    BY <1>2, ReceivedInOrder
  <2> QED BY <1>2, <2>1
<1>4. /\ IsState(y) /\ y.sock = x.sock /\ y.tasks = x.tasks /\ y.user = x.user
      /\ y.strm = [x.strm EXCEPT !.received = x.strm.received + n, !.buffered = more]
  BY SpdyHas DEF IsState, SpdyMore
<1> HIDE DEF y, more
<1>5. /\ IsSpdyStream(y.strm) /\ y.strm.io = x.strm.io /\ y.strm.response = x.strm.response
      /\ y.strm.reply = x.strm.reply /\ y.strm.sending = x.strm.sending
      /\ y.strm.buffered = more /\ y.strm.received = x.strm.received + n
  BY <1>3, <1>4, SpdyHas DEF SpdyTypes, IsSpdyStream
<1>6. SpdyTypes(y.sock, y.strm, y.tasks, y.user) /\ SpdyReplied(y.strm, y.user)
      /\ InOrder(y.user.got, y.strm.buffered, y.strm.received)
  BY <1>2, <1>3, <1>4, <1>5, SpdyHas DEF SpdyTypes, SpdyReplied
<1>7. CASE "read" \notin x.sock.callbacks
  <2>1. "connect" \notin x.sock.callbacks
    BY <1>1, SpdyHas DEF SpdyBegins, SpdyInUse
  <2>2. z = y
    BY <1>4, <1>7, <2>1 DEF SpdyTellReader, ReadCallback
  <2>3. SpdyBegins(y.sock, y.strm, y.tasks, y.user)
    BY <1>1, <1>4, <1>5, SpdyHas DEF SpdyBegins
  <2>4. y.user.phase = "connected" => SpdyInUse(y.sock, y.strm, y.tasks, y.user)
    BY <1>4, <1>5, SpdyHas DEF SpdyInUse
  <2>5. SpdyKept(y.sock, y.strm, y.tasks, y.user)
    BY <1>1, <1>4, <1>6, <1>7, SpdyHas DEF SpdyKept
  <2> QED BY <1>1, <1>4, <1>6, <2>2, <2>3, <2>4, <2>5 DEF SpdyInv, SpdyGood, y
<1>8. CASE "read" \in x.sock.callbacks
  <2>1. x.user.phase = "connected" /\ SpdyInUse(x.sock, x.strm, x.tasks, x.user)
    BY <1>1, <1>8, SpdyHas DEF SpdyBegins
  <2>2. /\ x.sock.user_buffer /\ x.sock.next_state = "OPEN" /\ "read" \in x.user.awaits
        /\ x.strm.reply \notin Refusals
    BY <1>8, <2>1, SpdyHas DEF SpdyInUse, SpdyKept
  <2> DEFINE left == Rest(more, BufLen)
             got == x.user.got \o First(more, BufLen)
  <2>3. /\ DOMAIN z = {"sock", "strm", "tasks", "user"} /\ z.tasks = y.tasks
        /\ z.sock = [y.sock EXCEPT !.user_buffer = FALSE, !.callbacks = @ \ {"read"}]
        /\ z.strm = [y.strm EXCEPT !.buffered = Rest(y.strm.buffered, BufLen)]
        /\ z.user = [y.user EXCEPT !.awaits = @ \ {"read"},
                                   !.got = @ \o First(y.strm.buffered, BufLen)]
    BY <1>3, <1>4, <1>5, <1>6, <1>8, <2>2, SpdyReaderTold
  <2>4. /\ left \in Seq(Nat) /\ got \in Seq(Nat) /\ InOrder(got, left, x.strm.received + n)
    BY <1>2, <1>3, TakenInOrder
  <2>5. /\ IsState(z) /\ z.tasks = x.tasks /\ z.strm = [y.strm EXCEPT !.buffered = left]
        /\ z.sock = [x.sock EXCEPT !.user_buffer = FALSE, !.callbacks = @ \ {"read"}]
        /\ z.user = [x.user EXCEPT !.awaits = @ \ {"read"}, !.got = got]
    BY <1>4, <1>5, <2>3 DEF IsState
  <2> HIDE DEF z, left, got
  <2>6. /\ IsSocket(z.sock) /\ ~z.sock.user_buffer /\ z.sock.next_state = "OPEN"
        /\ z.sock.callbacks = x.sock.callbacks \ {"read"}
        /\ z.sock.use_fastopen = x.sock.use_fastopen
        /\ z.sock.read_headers_pending = x.sock.read_headers_pending
    <3>1. IsSocket(x.sock)
      BY SpdyHas DEF SpdyTypes
    <3> QED BY <2>2, <2>5, <3>1 DEF IsSocket
  <2>7. /\ IsSpdyStream(z.strm) /\ z.strm.io = x.strm.io /\ z.strm.response = x.strm.response
        /\ z.strm.reply = x.strm.reply /\ z.strm.sending = x.strm.sending
        /\ z.strm.buffered = left /\ z.strm.received = x.strm.received + n
    BY <1>5, <2>4, <2>5 DEF IsSpdyStream
  <2>8. /\ IsUser(z.user) /\ z.user.phase = "connected"
        /\ z.user.awaits = x.user.awaits \ {"read"} /\ z.user.got = got
    <3>1. IsUser(x.user)
      BY SpdyHas DEF SpdyTypes
    <3> QED BY <2>1, <2>4, <2>5, <3>1 DEF IsUser
  <2>9. SpdyTypes(z.sock, z.strm, z.tasks, z.user)
    BY <2>5, <2>6, <2>7, <2>8, SpdyHas DEF SpdyTypes
  <2>10. SpdyBegins(z.sock, z.strm, z.tasks, z.user)
    BY <2>8 DEF SpdyBegins
  <2>11. SpdyReplied(z.strm, z.user)
    BY <1>2, <2>2, <2>7, SpdyHas DEF SpdyReplied
  <2>12. SpdyInUse(z.sock, z.strm, z.tasks, z.user)
    BY <2>1, <2>2, <2>5, <2>6, <2>7 DEF SpdyInUse
  <2>13. SpdyKept(z.sock, z.strm, z.tasks, z.user)
    <3>1. x.user.awaits = x.sock.callbacks \cup (IF x.tasks # <<>> THEN {"write"} ELSE {})
      BY SpdyHas DEF SpdyKept
    <3>2. InOrder(z.user.got, z.strm.buffered, z.strm.received)
      BY <2>4, <2>7, <2>8
    <3> QED BY <2>5, <2>6, <2>8, <3>1, <3>2 DEF SpdyKept
  <2>14. SpdyInv(z)
    BY <2>5, <2>8, <2>9, <2>10, <2>11, <2>12, <2>13 DEF SpdyInv, SpdyGood
  <2> QED BY <2>14 DEF z, y
<1> QED BY <1>7, <1>8

\* The stream ends.
LEMMA SpdyEnds ==
  ASSUME kind = "spdy", NEW x, SpdyInv(x), x.strm.io # "CLOSED",
         x.strm.response # "READY_FOR_HEADERS"
  PROVE  SpdyInv(SpdyTellReader([x EXCEPT !.strm.io = "HALF_CLOSED_REMOTE"]))
<1> DEFINE y == [x EXCEPT !.strm.io = "HALF_CLOSED_REMOTE"]
<1>1. x.user.phase \in {"challenged", "connected"}
  BY SpdyHas DEF SpdyBegins, SpdyOver
<1>2. /\ IsState(y) /\ y.sock = x.sock /\ y.tasks = x.tasks /\ y.user = x.user
      /\ y.strm = [x.strm EXCEPT !.io = "HALF_CLOSED_REMOTE"]
  BY SpdyHas DEF IsState
<1> HIDE DEF y
<1>3. /\ IsSpdyStream(y.strm) /\ y.strm.io = "HALF_CLOSED_REMOTE"
      /\ y.strm.response = x.strm.response /\ y.strm.received = x.strm.received
      /\ y.strm.reply = x.strm.reply /\ y.strm.sending = x.strm.sending
      /\ y.strm.buffered = x.strm.buffered
  BY <1>2, SpdyHas DEF SpdyTypes, IsSpdyStream
<1>4. SpdyTypes(y.sock, y.strm, y.tasks, y.user) /\ SpdyReplied(y.strm, y.user)
  BY <1>2, <1>3, SpdyHas DEF SpdyTypes, SpdyReplied
<1>5. SpdyKept(y.sock, y.strm, y.tasks, y.user)
  BY <1>2, <1>3, SpdyHas DEF SpdyKept
<1>6. CASE "read" \notin x.sock.callbacks
  <2>1. "connect" \notin x.sock.callbacks
    BY <1>1, SpdyHas DEF SpdyBegins, SpdyInUse
  <2>2. SpdyTellReader(y) = y
    BY <1>2, <1>6, <2>1 DEF SpdyTellReader, ReadCallback
  <2>3. SpdyBegins(y.sock, y.strm, y.tasks, y.user)
    BY <1>1, <1>2, <1>3, SpdyHas DEF SpdyBegins
  <2>4. y.user.phase = "connected" => SpdyInUse(y.sock, y.strm, y.tasks, y.user)
    BY <1>2, <1>3, SpdyHas DEF SpdyInUse
  <2> QED BY <1>1, <1>2, <1>4, <1>5, <2>2, <2>3, <2>4 DEF SpdyInv, SpdyGood, y
<1>7. CASE "read" \in x.sock.callbacks
  <2>1. x.user.phase = "connected" /\ x.sock.user_buffer /\ "read" \in x.user.awaits
    BY <1>1, <1>7, SpdyHas DEF SpdyBegins, SpdyInUse, SpdyKept
  <2>2. y.strm.buffered = <<>> /\ InOrder(y.user.got, y.strm.buffered, y.strm.received)
    BY <1>2, <1>5, <1>7, <2>1 DEF SpdyKept
  <2>3. SpdyInv(SpdyTellReader(y))
    BY <1>2, <1>4, <1>7, <2>1, <2>2, SpdyReaderTold
  <2> QED BY <2>3 DEF y
<1> QED BY <1>6, <1>7

\* The reply, when it comes: y is x with the reply received.
SpdyHasReply(x, y, reply) ==
  /\ IsState(y) /\ y.sock = x.sock /\ y.tasks = x.tasks /\ y.user = x.user
  /\ IsSpdyStream(y.strm) /\ y.strm.response = "READY_FOR_DATA_OR_TRAILERS"
  /\ y.strm.reply = reply /\ y.strm.io = x.strm.io /\ y.strm.sending = x.strm.sending
  /\ y.strm.received = 0 /\ y.strm.buffered = <<>>

SpdyGivenReply(x, reply) ==
  [x EXCEPT !.strm.response = "READY_FOR_DATA_OR_TRAILERS", !.strm.reply = reply]

LEMMA SpdyReplyCame ==
  ASSUME NEW x, SpdyInv(x), x.strm.response = "READY_FOR_HEADERS", NEW reply \in Replies
  PROVE  /\ SpdyHasReply(x, SpdyGivenReply(x, reply), reply)
         /\ x.strm.reply = "none" /\ x.user.got = <<>>
         /\ x.user.phase \in {"new", "connecting", "connected"} => InOrder(x.user.got, <<>>, 0)
<1> DEFINE y == SpdyGivenReply(x, reply)
<1>1. /\ x.strm.reply = "none" /\ x.user.got = <<>>
      /\ x.strm.received = 0 /\ x.strm.buffered = <<>>
      /\ x.user.phase \in {"new", "connecting", "connected"} => InOrder(x.user.got, <<>>, 0)
  BY SpdyHas DEF SpdyReplied, SpdyKept
<1>2. /\ IsState(y) /\ y.sock = x.sock /\ y.tasks = x.tasks /\ y.user = x.user
      /\ y.strm = [x.strm EXCEPT !.response = "READY_FOR_DATA_OR_TRAILERS", !.reply = reply]
  BY SpdyHas DEF IsState, SpdyGivenReply
<1> HIDE DEF y
<1>3. /\ IsSpdyStream(y.strm) /\ y.strm.response = "READY_FOR_DATA_OR_TRAILERS"
      /\ y.strm.reply = reply /\ y.strm.io = x.strm.io /\ y.strm.sending = x.strm.sending
      /\ y.strm.received = 0 /\ y.strm.buffered = <<>>
  <2>1. IsSpdyStream(x.strm)
    BY SpdyHas DEF SpdyTypes
  <2> QED BY <1>1, <1>2, <2>1 DEF IsSpdyStream
<1> QED BY <1>1, <1>2, <1>3 DEF SpdyHasReply, y

\* The reply that a Connect waits for.
LEMMA SpdyReplyConnects ==
  ASSUME kind = "spdy", NEW x, SpdyInv(x), x.strm.response = "READY_FOR_HEADERS",
         x.user.phase = "connecting", x.strm.io \notin {"IDLE", "CLOSED"},
         NEW reply \in Replies
  PROVE  SpdyInv(SpdyOnHeadersReceived(SpdyGivenReply(x, reply), reply))
<1> DEFINE y == SpdyGivenReply(x, reply)
           r == DoReadReplyComplete(reply)
           z == SetState(y, r.state)
           d == ConnectDone(z, r.rv)
<1>1. SpdyHasReply(x, y, reply) /\ x.user.got = <<>> /\ InOrder(x.user.got, <<>>, 0)
  BY SpdyReplyCame
<1>2. /\ x.sock.callbacks = {"connect"} /\ x.sock.next_state = "READ_REPLY_COMPLETE"
      /\ x.tasks = <<>> /\ ~x.sock.user_buffer /\ ~x.sock.read_headers_pending
      /\ x.strm.io = "OPEN" /\ x.strm.sending = "nothing"
  BY SpdyHas DEF SpdyBegins
<1>3. x.user.awaits = {"connect"}
  BY <1>2, SpdyHas DEF SpdyKept
<1>4. /\ reply = "200" => r.rv = "ok" /\ r.state = "OPEN"
      /\ reply = "407" => r.rv = "auth" /\ r.state = "OPEN"
      /\ reply = "other" => r.rv = "error" /\ r.state = "DISCONNECTED"
  BY DEF DoReadReplyComplete
<1> HIDE DEF y, r
<1>5. SpdyOnHeadersReceived(y, reply) = d
  BY <1>1, <1>2 DEF SpdyOnHeadersReceived, SpdyHasReply, r
<1>6. /\ IsState(z) /\ z.tasks = x.tasks /\ z.user = x.user /\ z.strm = y.strm
      /\ z.sock = [x.sock EXCEPT !.next_state = r.state]
  BY <1>1 DEF SpdyHasReply, IsState, SetState
<1> HIDE DEF z
<1>7. /\ IsSocket(z.sock) /\ z.sock.next_state = r.state /\ z.sock.callbacks = {"connect"}
      /\ ~z.sock.user_buffer
  <2>1. IsSocket(x.sock)
    BY SpdyHas DEF SpdyTypes
  <2> QED BY <1>2, <1>6, <2>1 DEF IsSocket
<1>8. IsUser(z.user) /\ z.tasks \in Seq({"write"}) /\ IsSpdyStream(z.strm)
  BY <1>1, <1>6, SpdyHas DEF SpdyTypes, SpdyHasReply
<1>9. CASE reply = "other"
  <2>1. SpdyTypes(z.sock, z.strm, z.tasks, z.user)
    BY <1>7, <1>8 DEF SpdyTypes
  <2>2. SpdyReplied(z.strm, z.user)
    BY <1>1, <1>6, <1>9 DEF SpdyReplied, SpdyHasReply
  <2>3. SpdyInv(ConnectDone(z, "error"))
    BY <1>3, <1>6, <2>1, <2>2, SpdyConnectFails
  <2> QED BY <1>4, <1>5, <1>9, <2>3 DEF y
<1>10. CASE reply # "other"
  <2>1. r.rv \in {"ok", "auth"} /\ r.state = "OPEN"
    BY <1>4, <1>10
  <2>2. IsAnswered(z, d, "connect")
        /\ d.user.phase = IF r.rv = "ok" THEN "connected" ELSE "challenged"
    BY <1>3, <1>6, <1>7, <1>8, <2>1, ConnectDoneIs
  <2> HIDE DEF d
  <2>3. /\ IsState(d) /\ d.strm = y.strm /\ d.tasks = <<>> /\ d.sock.callbacks = {}
        /\ d.sock.next_state = "OPEN" /\ ~d.sock.user_buffer /\ IsSocket(d.sock)
        /\ d.user.awaits = {} /\ d.user.got = <<>> /\ IsUser(d.user)
    BY <1>1, <1>2, <1>3, <1>6, <1>7, <2>1, <2>2 DEF IsAnswered
  <2>4. /\ d.user.phase \in {"connected", "challenged"}
        /\ d.user.phase = "connected" => d.strm.reply = "200"
    BY <1>1, <1>4, <1>10, <2>2, <2>3 DEF SpdyHasReply
  <2>5. SpdyTypes(d.sock, d.strm, d.tasks, d.user)
    BY <1>6, <1>8, <2>2, <2>3 DEF SpdyTypes, IsAnswered
  <2>6. SpdyReplied(d.strm, d.user)
    BY <1>1, <2>3 DEF SpdyReplied, SpdyHasReply
  <2>7. SpdyBegins(d.sock, d.strm, d.tasks, d.user)
    BY <1>1, <1>2, <2>3, <2>4 DEF SpdyBegins, SpdyHasReply
  <2>8. d.user.phase = "connected" => SpdyInUse(d.sock, d.strm, d.tasks, d.user)
    BY <1>1, <1>2, <2>3, <2>4 DEF SpdyInUse, SpdyHasReply
  <2>9. SpdyKept(d.sock, d.strm, d.tasks, d.user)
    <3>1. InOrder(d.user.got, d.strm.buffered, d.strm.received)
      BY <1>1, <2>3 DEF SpdyHasReply
    <3> QED BY <2>3, <3>1 DEF SpdyKept
  <2> QED BY <1>5, <2>3, <2>4, <2>5, <2>6, <2>7, <2>8, <2>9 DEF SpdyInv, SpdyGood, y
<1> QED BY <1>9, <1>10

\* The reply of a tunnel that Fast Open already uses.
LEMMA SpdyReplyTooLate ==
  ASSUME kind = "spdy", NEW x, SpdyInv(x), x.strm.response = "READY_FOR_HEADERS",
         x.user.phase = "connected", x.strm.io # "CLOSED", NEW reply \in Replies
  PROVE  SpdyInv(SpdyOnHeadersReceived(SpdyGivenReply(x, reply), reply))
<1> DEFINE y == SpdyGivenReply(x, reply)
           r == DoReadReplyComplete(reply)
           a == [y EXCEPT !.sock.read_headers_pending = FALSE]
           state == IF r.rv = "ok" THEN "OPEN" ELSE "DISCONNECTED"
           b == SetState(a, state)
<1>1. /\ SpdyHasReply(x, y, reply) /\ x.user.got = <<>> /\ x.strm.reply = "none"
      /\ InOrder(x.user.got, <<>>, 0)
  BY SpdyReplyCame
<1>2. SpdyInUse(x.sock, x.strm, x.tasks, x.user)
  BY SpdyHas
<1>3. /\ x.sock.use_fastopen /\ x.sock.read_headers_pending /\ x.sock.next_state = "OPEN"
      /\ "connect" \notin x.sock.callbacks
  BY <1>1, <1>2 DEF SpdyInUse
<1>4. /\ r.rv = "ok" <=> reply = "200"
  BY DEF DoReadReplyComplete
<1>5. r = DoReadReplyComplete(reply)
  OBVIOUS
<1> HIDE DEF y, r
<1>6. SpdyOnHeadersReceived(y, reply) = SpdyReplyInUse(a, r)
  BY <1>1, <1>3, <1>5 DEF SpdyOnHeadersReceived, SpdyHasReply
<1>7. /\ IsState(a) /\ a.tasks = x.tasks /\ a.user = x.user /\ a.strm = y.strm
      /\ a.sock = [x.sock EXCEPT !.read_headers_pending = FALSE]
  BY <1>1 DEF SpdyHasReply, IsState
<1>8. SpdyReplyInUse(a, r) = IF r.rv # "ok" /\ ReadCallback(a)
                             THEN Disconnected(Answered(b, "read", "read")) ELSE b
  BY DEF SpdyReplyInUse, ReadEnds
<1> HIDE DEF a, state
<1>9. /\ IsState(b) /\ b.tasks = x.tasks /\ b.user = x.user /\ b.strm = y.strm
      /\ b.sock = [a.sock EXCEPT !.next_state = state]
  BY <1>7 DEF IsState, SetState
<1> HIDE DEF b
<1>10. /\ IsSocket(a.sock) /\ a.sock.callbacks = x.sock.callbacks
       /\ a.sock.user_buffer = x.sock.user_buffer
  <2>1. IsSocket(x.sock)
    BY SpdyHas DEF SpdyTypes
  <2> QED BY <1>7, <2>1 DEF IsSocket
<1>11. /\ IsSocket(b.sock) /\ b.sock.callbacks = x.sock.callbacks /\ b.sock.next_state = state
       /\ b.sock.user_buffer = x.sock.user_buffer
  BY <1>9, <1>10 DEF IsSocket
<1>12. SpdyTypes(b.sock, b.strm, b.tasks, b.user) /\ IsUser(b.user)
  BY <1>1, <1>9, <1>11, SpdyHas DEF SpdyTypes, SpdyHasReply
<1>13. SpdyReplied(b.strm, b.user)
  BY <1>1, <1>9 DEF SpdyReplied, SpdyHasReply
<1>14. CASE r.rv # "ok" /\ "read" \in x.sock.callbacks
  <2> DEFINE w == Answered(b, "read", "read")
  <2>1. SpdyOnHeadersReceived(y, reply) = Disconnected(w)
    BY <1>6, <1>8, <1>10, <1>14 DEF ReadCallback
  <2>2. "read" \in b.user.awaits
    BY <1>9, <1>14, SpdyHas DEF SpdyKept
  <2>3. IsAnswered(b, w, "read")
    BY <1>9, <1>11, <1>12, <2>2, AnsweredIs
  <2> HIDE DEF w
  <2>4. IsState(w) /\ SpdyTypes(w.sock, w.strm, w.tasks, w.user) /\ SpdyReplied(w.strm, w.user)
    BY <1>12, <1>13, <2>3 DEF SpdyTypes, SpdyReplied, IsAnswered
  <2> QED BY <2>1, <2>4, SpdyGone DEF y
<1>15. CASE ~(r.rv # "ok" /\ "read" \in x.sock.callbacks)
  <2>1. SpdyOnHeadersReceived(y, reply) = b
    BY <1>3, <1>6, <1>8, <1>10, <1>15 DEF ReadCallback
  <2>2. SpdyBegins(b.sock, b.strm, b.tasks, b.user)
    BY <1>9 DEF SpdyBegins
  <2>3. SpdyInUse(b.sock, b.strm, b.tasks, b.user)
    <3>1. state = IF reply = "200" THEN "OPEN" ELSE "DISCONNECTED"
      BY <1>4 DEF state
    <3>2. reply # "200" => "read" \notin x.sock.callbacks
      BY <1>4, <1>15
    <3> QED BY <1>1, <1>2, <1>9, <1>11, <3>1, <3>2 DEF SpdyInUse, SpdyHasReply
  <2>4. SpdyKept(b.sock, b.strm, b.tasks, b.user)
    <3>1. InOrder(b.user.got, b.strm.buffered, b.strm.received) /\ b.strm.buffered = <<>>
      BY <1>1, <1>9 DEF SpdyHasReply
    <3> QED BY <1>1, <1>9, <1>11, <3>1, SpdyHas DEF SpdyKept
  <2> QED BY <1>9, <1>12, <1>13, <2>1, <2>2, <2>3, <2>4 DEF SpdyInv, SpdyGood, y
<1> QED BY <1>14, <1>15

\* The stream is closed, at any time after Connect.
LEMMA SpdyCloses ==
  ASSUME kind = "spdy", NEW x, SpdyInv(x), x.strm.io # "CLOSED", x.user.phase # "new"
  PROVE  SpdyInv(SpdyOnClose(x))
<1>1. x.user.phase \in {"connecting", "challenged", "connected"}
  BY SpdyHas DEF SpdyOver
<1>2. CASE x.user.phase = "connecting"
  <2>1. /\ x.sock.callbacks = {"connect"}
        /\ x.sock.next_state \notin {"DISCONNECTED", "OPEN", "CLOSED"} /\ x.tasks = <<>>
    BY <1>2, SpdyHas DEF SpdyBegins
  <2>2. x.user.awaits = {"connect"}
    BY <2>1, SpdyHas DEF SpdyKept
  <2> QED BY <2>1, <2>2, SpdyHas, SpdyCloseConnecting
<1> QED BY <1>1, <1>2, SpdyCloseInUse

\* The reply comes before the request was written.
LEMMA SpdyReplyTooEarly ==
  ASSUME kind = "spdy", NEW x, SpdyInv(x), x.strm.response = "READY_FOR_HEADERS",
         x.strm.io = "IDLE", x.strm.sending = "written", NEW reply \in Replies
  PROVE  SpdyInv(SpdyOnClose(SpdyGivenReply(x, reply)))
<1> DEFINE y == SpdyGivenReply(x, reply)
<1>1. SpdyHasReply(x, y, reply) /\ x.user.got = <<>>
  BY SpdyReplyCame
<1>2. /\ x.sock.callbacks = {"connect"} /\ x.sock.next_state = "SEND_REQUEST_COMPLETE"
      /\ x.tasks = <<>>
  BY SpdyHas DEF SpdyBegins, SpdyInUse, SpdyOver
<1>3. x.user.awaits = {"connect"}
  BY <1>2, SpdyHas DEF SpdyKept
<1> HIDE DEF y
<1>4. SpdyTypes(y.sock, y.strm, y.tasks, y.user)
  BY <1>1, SpdyHas DEF SpdyTypes, SpdyHasReply
<1>5. SpdyReplied(y.strm, y.user)
  BY <1>1 DEF SpdyReplied, SpdyHasReply
<1>6. SpdyInv(SpdyOnClose(y))
  BY <1>1, <1>2, <1>3, <1>4, <1>5, SpdyCloseConnecting DEF SpdyHasReply
<1> QED BY <1>6 DEF y

LEMMA SpdyTrailers ==
  ASSUME NEW x, SpdyInv(x), x.strm.response = "READY_FOR_DATA_OR_TRAILERS"
  PROVE  SpdyInv([x EXCEPT !.strm.response = "TRAILERS_RECEIVED"])
<1> DEFINE y == [x EXCEPT !.strm.response = "TRAILERS_RECEIVED"]
<1>1. x.user.phase \notin {"new", "connecting"}
  BY SpdyHas DEF SpdyBegins
<1>2. /\ IsState(y) /\ y.sock = x.sock /\ y.tasks = x.tasks /\ y.user = x.user
      /\ y.strm = [x.strm EXCEPT !.response = "TRAILERS_RECEIVED"]
  BY SpdyHas DEF IsState
<1> HIDE DEF y
<1>3. /\ IsSpdyStream(y.strm) /\ y.strm.response = "TRAILERS_RECEIVED"
      /\ y.strm.io = x.strm.io /\ y.strm.received = x.strm.received
      /\ y.strm.reply = x.strm.reply /\ y.strm.sending = x.strm.sending
      /\ y.strm.buffered = x.strm.buffered
  BY <1>2, SpdyHas DEF SpdyTypes, IsSpdyStream
<1>4. SpdyTypes(y.sock, y.strm, y.tasks, y.user) /\ SpdyReplied(y.strm, y.user)
  BY <1>2, <1>3, SpdyHas DEF SpdyTypes, SpdyReplied
<1>5. SpdyKept(y.sock, y.strm, y.tasks, y.user)
  BY <1>2, <1>3, SpdyHas DEF SpdyKept
<1>6. SpdyBegins(y.sock, y.strm, y.tasks, y.user)
  BY <1>1, <1>2, <1>3, SpdyHas DEF SpdyBegins
<1>7. y.user.phase = "connected" => SpdyInUse(y.sock, y.strm, y.tasks, y.user)
  BY <1>2, <1>3, SpdyHas DEF SpdyInUse
<1>8. y.user.phase \in {"disconnected", "destroyed"} => SpdyOver(y.sock, y.strm, y.tasks)
  BY <1>2, <1>3, SpdyHas DEF SpdyOver
<1>9. SpdyInv(y)
  BY <1>2, <1>4, <1>5, <1>6, <1>7, <1>8 DEF SpdyInv, SpdyGood
<1> QED BY <1>9 DEF y

\* The last frame of a Write is written: its answer is posted.
SpdyWritten(x) ==
  Post([x EXCEPT !.strm.sending = "nothing", !.sock.callbacks = @ \ {"write"}], "write")

LEMMA SpdyDataIsSent ==
  ASSUME NEW x, SpdyInv(x), x.strm.sending = "data"
  PROVE  "write" \in x.sock.callbacks /\ SpdyInv(SpdyWritten(x))
<1> DEFINE y == SpdyWritten(x)
<1>1. x.user.phase = "connected"
  BY SpdyHas DEF SpdyBegins, SpdyOver
<1>2. SpdyInUse(x.sock, x.strm, x.tasks, x.user) /\ "write" \in x.sock.callbacks
      /\ x.tasks = <<>>
  BY <1>1, SpdyHas DEF SpdyInUse
<1>3. /\ IsState(y) /\ y.user = x.user /\ y.tasks = Append(x.tasks, "write")
      /\ y.strm = [x.strm EXCEPT !.sending = "nothing"]
      /\ y.sock = [x.sock EXCEPT !.callbacks = @ \ {"write"}]
  BY SpdyHas DEF IsState, SpdyWritten, Post
<1> HIDE DEF y
<1>4. y.tasks = <<"write">> /\ y.tasks # <<>> /\ Tail(y.tasks) = <<>> /\ y.tasks \in Seq({"write"})
  BY <1>2, <1>3
<1>5. /\ IsSpdyStream(y.strm) /\ y.strm.response = x.strm.response
      /\ y.strm.io = x.strm.io /\ y.strm.received = x.strm.received
      /\ y.strm.reply = x.strm.reply /\ y.strm.sending = "nothing"
      /\ y.strm.buffered = x.strm.buffered
  BY <1>3, SpdyHas DEF SpdyTypes, IsSpdyStream
<1>6. /\ IsSocket(y.sock) /\ y.sock.callbacks = x.sock.callbacks \ {"write"}
      /\ y.sock.next_state = x.sock.next_state /\ y.sock.use_fastopen = x.sock.use_fastopen
      /\ y.sock.read_headers_pending = x.sock.read_headers_pending
      /\ y.sock.user_buffer = x.sock.user_buffer
  BY <1>3, SpdyHas DEF SpdyTypes, IsSocket
<1>7. SpdyTypes(y.sock, y.strm, y.tasks, y.user) /\ SpdyReplied(y.strm, y.user)
  BY <1>3, <1>4, <1>5, <1>6, SpdyHas DEF SpdyTypes, SpdyReplied
<1>8. SpdyKept(y.sock, y.strm, y.tasks, y.user)
  <2>1. x.user.awaits = x.sock.callbacks
    BY <1>2, SpdyHas DEF SpdyKept
  <2> QED BY <1>1, <1>2, <1>3, <1>4, <1>5, <1>6, <2>1, SpdyHas DEF SpdyKept
<1>9. SpdyBegins(y.sock, y.strm, y.tasks, y.user)
  BY <1>1, <1>3 DEF SpdyBegins
<1>10. SpdyInUse(y.sock, y.strm, y.tasks, y.user)
  BY <1>1, <1>2, <1>3, <1>4, <1>5, <1>6 DEF SpdyInUse
<1>11. SpdyInv(y)
  BY <1>1, <1>3, <1>7, <1>8, <1>9, <1>10 DEF SpdyInv, SpdyGood
<1> QED BY <1>2, <1>11 DEF y

\* The posted answer to a Write runs.
SpdyWriteTold(x) == Answered([x EXCEPT !.tasks = Tail(@)], "write", "write")

LEMMA SpdyWriteIsAnswered ==
  ASSUME NEW x, SpdyInv(x), x.tasks # <<>>
  PROVE  SpdyInv(SpdyWriteTold(x))
<1> DEFINE w == [x EXCEPT !.tasks = Tail(@)]
           y == SpdyWriteTold(x)
<1>1. x.user.phase = "connected"
  BY SpdyHas DEF SpdyBegins, SpdyOver
<1>2. /\ SpdyInUse(x.sock, x.strm, x.tasks, x.user) /\ "write" \notin x.sock.callbacks
      /\ Tail(x.tasks) = <<>> /\ x.user.awaits = x.sock.callbacks \cup {"write"}
  BY <1>1, SpdyHas DEF SpdyInUse, SpdyKept
<1>3. IsState(w) /\ w.user = x.user /\ w.strm = x.strm /\ w.sock = x.sock /\ w.tasks = <<>>
  BY <1>2, SpdyHas DEF IsState
<1>4. y = Answered(w, "write", "write")
  BY DEF SpdyWriteTold
<1> HIDE DEF w, y
<1>5. IsAnswered(w, y, "write") /\ y.user.phase = "connected"
  <2>1. IsSocket(w.sock) /\ IsUser(w.user) /\ "write" \in w.user.awaits
    BY <1>2, <1>3, SpdyHas DEF SpdyTypes
  <2>2. IsAnswered(w, Answered(w, "write", "write"), "write")
        /\ Answered(w, "write", "write").user.phase = w.user.phase
    BY <1>3, <2>1, AnsweredIs
  <2> QED BY <1>1, <1>3, <1>4, <2>2
<1>6. /\ IsState(y) /\ y.strm = x.strm /\ y.tasks = <<>> /\ IsSocket(y.sock) /\ IsUser(y.user)
      /\ y.sock.callbacks = x.sock.callbacks
      /\ y.sock.next_state = x.sock.next_state /\ y.sock.use_fastopen = x.sock.use_fastopen
      /\ y.sock.read_headers_pending = x.sock.read_headers_pending
      /\ y.sock.user_buffer = x.sock.user_buffer
      /\ y.user.awaits = x.sock.callbacks /\ y.user.got = x.user.got
  BY <1>2, <1>3, <1>5 DEF IsAnswered
<1>7. SpdyTypes(y.sock, y.strm, y.tasks, y.user) /\ SpdyReplied(y.strm, y.user)
  BY <1>6, SpdyHas, EmptySeq DEF SpdyTypes, SpdyReplied
<1>8. SpdyKept(y.sock, y.strm, y.tasks, y.user)
  BY <1>1, <1>5, <1>6, SpdyHas DEF SpdyKept
<1>9. SpdyBegins(y.sock, y.strm, y.tasks, y.user)
  BY <1>5 DEF SpdyBegins
<1>10. SpdyInUse(y.sock, y.strm, y.tasks, y.user)
  BY <1>2, <1>6 DEF SpdyInUse
<1>11. SpdyInv(y)
  BY <1>5, <1>6, <1>7, <1>8, <1>9, <1>10 DEF SpdyInv, SpdyGood
<1> QED BY <1>11 DEF y

\* RestartWithAuth.
LEMMA SpdyRestarts ==
  ASSUME NEW x, SpdyInv(x), x.user.phase = "challenged"
  PROVE  SpdyInv(SetState(x, "DISCONNECTED"))
<1> DEFINE y == SetState(x, "DISCONNECTED")
<1>1. /\ IsState(y) /\ y.user = x.user /\ y.tasks = x.tasks /\ y.strm = x.strm
      /\ y.sock = [x.sock EXCEPT !.next_state = "DISCONNECTED"]
  BY SpdyHas DEF IsState, SetState
<1> HIDE DEF y
<1>2. /\ IsSocket(y.sock) /\ y.sock.callbacks = x.sock.callbacks
      /\ y.sock.next_state = "DISCONNECTED" /\ y.sock.user_buffer = x.sock.user_buffer
  BY <1>1, SpdyHas DEF SpdyTypes, IsSocket
<1>3. SpdyTypes(y.sock, y.strm, y.tasks, y.user) /\ SpdyReplied(y.strm, y.user)
      /\ SpdyKept(y.sock, y.strm, y.tasks, y.user)
  BY <1>1, <1>2, SpdyHas DEF SpdyTypes, SpdyKept
<1>4. SpdyBegins(y.sock, y.strm, y.tasks, y.user)
  BY <1>1, <1>2, SpdyHas DEF SpdyBegins
<1>5. SpdyInv(y)
  BY <1>1, <1>3, <1>4 DEF SpdyInv, SpdyGood
<1> QED BY <1>5 DEF y

\* Read finds data.
LEMMA SpdyReadsData ==
  ASSUME NEW x, SpdyInv(x), x.user.phase = "connected", x.sock.next_state # "DISCONNECTED",
         x.strm.buffered # <<>>
  PROVE  SpdyInv(ReadData(Take(x).x, Take(x).data))
<1> DEFINE data == First(x.strm.buffered, BufLen)
           left == Rest(x.strm.buffered, BufLen)
           got == x.user.got \o data
           w == Take(x).x
           y == ReadData(w, data)
<1>1. /\ InOrder(x.user.got, x.strm.buffered, x.strm.received)
      /\ x.user.got \in Seq(Nat) /\ x.strm.buffered \in Seq(Nat)
  BY SpdyHas DEF SpdyKept, SpdyTypes, IsUser, IsSpdyStream
<1>2. left \in Seq(Nat) /\ got \in Seq(Nat) /\ InOrder(got, left, x.strm.received)
  BY <1>1, TakenInOrder
<1>3. Take(x).data = data
  BY DEF Take
<1>4. /\ IsState(w) /\ w.sock = x.sock /\ w.tasks = x.tasks /\ w.user = x.user
      /\ w.strm = [x.strm EXCEPT !.buffered = left]
  BY SpdyHas DEF IsState, Take
<1> HIDE DEF data, left, w
<1>5. /\ IsState(y) /\ y.sock = x.sock /\ y.tasks = x.tasks /\ y.strm = w.strm
      /\ y.user = [x.user EXCEPT !.got = got]
  BY <1>4 DEF IsState, ReadData
<1> HIDE DEF y, got
<1>6. /\ IsSpdyStream(y.strm) /\ y.strm.response = x.strm.response
      /\ y.strm.io = x.strm.io /\ y.strm.received = x.strm.received
      /\ y.strm.reply = x.strm.reply /\ y.strm.sending = x.strm.sending
      /\ y.strm.buffered = left
  BY <1>2, <1>4, <1>5, SpdyHas DEF SpdyTypes, IsSpdyStream
<1>7. IsUser(y.user) /\ y.user.phase = "connected" /\ y.user.awaits = x.user.awaits
      /\ y.user.got = got
  BY <1>2, <1>5, SpdyHas DEF SpdyTypes, IsUser
<1>8. SpdyInUse(x.sock, x.strm, x.tasks, x.user) /\ x.strm.reply \notin Refusals
      /\ x.strm.reply # "none" /\ "read" \notin x.sock.callbacks
  BY SpdyHas DEF SpdyInUse, SpdyReplied, SpdyKept
<1>9. SpdyTypes(y.sock, y.strm, y.tasks, y.user)
  BY <1>5, <1>6, <1>7, SpdyHas DEF SpdyTypes
<1>10. SpdyReplied(y.strm, y.user)
  BY <1>6, <1>8, SpdyHas DEF SpdyReplied
<1>11. SpdyBegins(y.sock, y.strm, y.tasks, y.user)
  BY <1>7 DEF SpdyBegins
<1>12. SpdyInUse(y.sock, y.strm, y.tasks, y.user)
  BY <1>5, <1>6, <1>8 DEF SpdyInUse
<1>13. SpdyKept(y.sock, y.strm, y.tasks, y.user)
  <2>1. InOrder(y.user.got, y.strm.buffered, y.strm.received)
    BY <1>2, <1>6, <1>7
  <2> QED BY <1>5, <1>7, <1>8, <2>1, SpdyHas DEF SpdyKept
<1>14. SpdyInv(y)
  BY <1>5, <1>7, <1>9, <1>10, <1>11, <1>12, <1>13 DEF SpdyInv, SpdyGood
<1> QED BY <1>3, <1>14 DEF y, w

\* Read waits.
LEMMA SpdyReadWaits ==
  ASSUME NEW x, SpdyInv(x), x.user.phase = "connected", x.sock.next_state = "OPEN",
         x.strm.buffered = <<>>
  PROVE  SpdyInv(Awaits([x EXCEPT !.sock.user_buffer = TRUE], "read"))
<1> DEFINE w == [x EXCEPT !.sock.user_buffer = TRUE]
           y == Awaits(w, "read")
<1>1. /\ IsState(w) /\ w.user = x.user /\ w.tasks = x.tasks /\ w.strm = x.strm
      /\ w.sock = [x.sock EXCEPT !.user_buffer = TRUE]
  BY SpdyHas DEF IsState
<1> HIDE DEF w
<1>2. /\ IsState(y) /\ y.tasks = x.tasks /\ y.strm = x.strm
      /\ y.sock = [w.sock EXCEPT !.callbacks = @ \cup {"read"}]
      /\ y.user = [x.user EXCEPT !.awaits = @ \cup {"read"}]
  BY <1>1 DEF IsState, Awaits
<1> HIDE DEF y
<1>3. /\ IsSocket(w.sock) /\ w.sock.user_buffer /\ w.sock.callbacks = x.sock.callbacks
      /\ w.sock.next_state = x.sock.next_state /\ w.sock.use_fastopen = x.sock.use_fastopen
      /\ w.sock.read_headers_pending = x.sock.read_headers_pending
  BY <1>1, SpdyHas DEF SpdyTypes, IsSocket
<1>4. /\ IsSocket(y.sock) /\ y.sock.user_buffer
      /\ y.sock.callbacks = x.sock.callbacks \cup {"read"}
      /\ y.sock.next_state = x.sock.next_state /\ y.sock.use_fastopen = x.sock.use_fastopen
      /\ y.sock.read_headers_pending = x.sock.read_headers_pending
  <2>1. /\ IsSocket(y.sock) /\ y.sock.user_buffer = w.sock.user_buffer
        /\ y.sock.callbacks = w.sock.callbacks \cup {"read"}
        /\ y.sock.next_state = w.sock.next_state /\ y.sock.use_fastopen = w.sock.use_fastopen
        /\ y.sock.read_headers_pending = w.sock.read_headers_pending
    <3>1. IsSocket(w.sock)
      BY <1>3
    <3> QED BY <1>2, <3>1 DEF IsSocket
  <2> QED BY <1>3, <2>1
<1>5. /\ IsUser(y.user) /\ y.user.phase = "connected"
      /\ y.user.awaits = x.user.awaits \cup {"read"} /\ y.user.got = x.user.got
  BY <1>2, SpdyHas DEF SpdyTypes, IsUser
<1>6. SpdyTypes(y.sock, y.strm, y.tasks, y.user) /\ SpdyReplied(y.strm, y.user)
  BY <1>2, <1>4, <1>5, SpdyHas DEF SpdyTypes, SpdyReplied
<1>7. SpdyBegins(y.sock, y.strm, y.tasks, y.user)
  BY <1>5 DEF SpdyBegins
<1>8. SpdyInUse(y.sock, y.strm, y.tasks, y.user)
  BY <1>2, <1>4, SpdyHas DEF SpdyInUse
<1>9. SpdyKept(y.sock, y.strm, y.tasks, y.user)
  <2>1. x.user.awaits = x.sock.callbacks \cup (IF x.tasks # <<>> THEN {"write"} ELSE {})
        /\ InOrder(x.user.got, x.strm.buffered, x.strm.received)
    BY SpdyHas DEF SpdyKept
  <2> QED BY <1>2, <1>4, <1>5, <2>1 DEF SpdyKept
<1>10. SpdyInv(y)
  BY <1>2, <1>5, <1>6, <1>7, <1>8, <1>9 DEF SpdyInv, SpdyGood
<1> QED BY <1>10 DEF y, w

\* Write.
LEMMA SpdyWrites ==
  ASSUME kind = "spdy", NEW x, SpdyInv(x), x.user.phase = "connected",
         "write" \notin x.user.awaits
  PROVE  /\ "write" \notin x.sock.callbacks /\ x.strm.sending = "nothing"
         /\ x.sock.next_state = "OPEN" => x.strm.io \in {"OPEN", "HALF_CLOSED_REMOTE"}
         /\ SpdyInv(WriteDone(Writing(x), "error"))
         /\ x.sock.next_state = "OPEN" =>
              SpdyInv(Awaits([Writing(x) EXCEPT !.strm.sending = "data"], "write"))
<1> DEFINE w == Writing(x)
           v == [w EXCEPT !.strm.sending = "data"]
           y == Awaits(v, "write")
<1>1. /\ SpdyInUse(x.sock, x.strm, x.tasks, x.user) /\ "write" \notin x.sock.callbacks
      /\ x.tasks = <<>> /\ x.user.awaits = x.sock.callbacks
  BY SpdyHas DEF SpdyKept
<1>2. /\ x.strm.sending = "nothing"
      /\ x.sock.next_state = "OPEN" => x.strm.io \in {"OPEN", "HALF_CLOSED_REMOTE"}
  BY <1>1, SpdyHas DEF SpdyInUse, SpdyTypes, IsSpdyStream
<1>3. /\ IsState(w) /\ w.sock = x.sock /\ w.tasks = x.tasks /\ w.strm = x.strm
      /\ w.user = [x.user EXCEPT !.writes = @ + 1]
  BY SpdyHas DEF IsState, Writing
<1> HIDE DEF w
<1>4. /\ IsUser(w.user) /\ w.user.phase = "connected" /\ w.user.awaits = x.user.awaits
      /\ w.user.got = x.user.got
  BY <1>3, SpdyHas DEF SpdyTypes, IsUser
<1>5. SpdyTypes(w.sock, w.strm, w.tasks, w.user) /\ SpdyReplied(w.strm, w.user)
  BY <1>3, <1>4, SpdyHas DEF SpdyTypes, SpdyReplied
<1>6. SpdyInv(WriteDone(w, "error"))
  BY <1>3, <1>4, <1>5, SpdyGone DEF WriteDone
<1>7. ASSUME x.sock.next_state = "OPEN" PROVE SpdyInv(y)
  <2>1. /\ IsState(v) /\ v.sock = x.sock /\ v.tasks = x.tasks /\ v.user = w.user
        /\ v.strm = [x.strm EXCEPT !.sending = "data"]
    BY <1>3 DEF IsState
  <2> HIDE DEF v
  <2>2. /\ IsState(y) /\ y.tasks = x.tasks /\ y.strm = v.strm
        /\ y.sock = [x.sock EXCEPT !.callbacks = @ \cup {"write"}]
        /\ y.user = [w.user EXCEPT !.awaits = @ \cup {"write"}]
    BY <2>1 DEF IsState, Awaits
  <2> HIDE DEF y
  <2>3. /\ IsSocket(y.sock) /\ y.sock.user_buffer = x.sock.user_buffer
        /\ y.sock.callbacks = x.sock.callbacks \cup {"write"}
        /\ y.sock.next_state = x.sock.next_state /\ y.sock.use_fastopen = x.sock.use_fastopen
        /\ y.sock.read_headers_pending = x.sock.read_headers_pending
    BY <2>2, SpdyHas DEF SpdyTypes, IsSocket
  <2>4. /\ IsSpdyStream(y.strm) /\ y.strm.response = x.strm.response
        /\ y.strm.io = x.strm.io /\ y.strm.received = x.strm.received
        /\ y.strm.reply = x.strm.reply /\ y.strm.sending = "data"
        /\ y.strm.buffered = x.strm.buffered
    BY <2>1, <2>2, SpdyHas DEF SpdyTypes, IsSpdyStream
  <2>5. /\ IsUser(y.user) /\ y.user.phase = "connected"
        /\ y.user.awaits = x.user.awaits \cup {"write"} /\ y.user.got = x.user.got
    BY <1>4, <2>2 DEF IsUser
  <2>6. SpdyTypes(y.sock, y.strm, y.tasks, y.user) /\ SpdyReplied(y.strm, y.user)
    BY <2>2, <2>3, <2>4, <2>5, SpdyHas DEF SpdyTypes, SpdyReplied
  <2>7. SpdyBegins(y.sock, y.strm, y.tasks, y.user)
    BY <2>5 DEF SpdyBegins
  <2>8. SpdyInUse(y.sock, y.strm, y.tasks, y.user)
    BY <1>1, <1>7, <2>2, <2>3, <2>4 DEF SpdyInUse
  <2>9. SpdyKept(y.sock, y.strm, y.tasks, y.user)
    BY <1>1, <2>2, <2>3, <2>4, <2>5, SpdyHas DEF SpdyKept
  <2> QED BY <2>2, <2>5, <2>6, <2>7, <2>8, <2>9 DEF SpdyInv, SpdyGood
<1> QED BY <1>1, <1>2, <1>6, <1>7 DEF y, v, w

-----------------------------------------------------------------------------
\* The steps over HTTP/2.

LEMMA SpdyBecomes ==
  ASSUME kind = "spdy", NEW y, SpdyInv(y), Become(y)
  PROVE  Inv'
<1>1. sock' = y.sock /\ strm' = y.strm /\ tasks' = y.tasks /\ user' = y.user /\ kind' = "spdy"
  BY DEF Become
<1>2. SpdyGood(sock', strm', tasks', user')
  BY <1>1 DEF SpdyInv
<1>3. SpdyInv([sock |-> sock', strm |-> strm', tasks |-> tasks', user |-> user'])
  BY <1>2 DEF SpdyInv, IsState
<1>4. SpdyInv(Now')
  BY <1>3 DEF Now
<1> QED BY <1>1, <1>4 DEF Inv

LEMMA SpdyNextKeeps ==
  ASSUME Inv, SpdyNext
  PROVE  Inv'
<1>1. kind = "spdy"
  BY DEF SpdyNext, SpdyConnect, SpdyAuthDone, SpdyRequestWritten, SpdyHeadersSent, SpdyHeaders,
         SpdyData, SpdyReceiving, SpdyEndStream, SpdyReset, SpdyDataSent, SpdyWriteAnswered,
         SpdyRead, SpdyWrite
<1>2. PICK x : x = Now
  OBVIOUS
<1>3. SpdyInv(x) /\ x.sock = sock /\ x.strm = strm /\ x.tasks = tasks /\ x.user = user
  BY <1>1, <1>2 DEF Inv, Now
<1>4. CASE SpdyConnect
  <2> DEFINE w == [x EXCEPT !.user.phase = "connecting"]
             y == Awaits(w, "connect")
  <2>1. \/ Become(SetState(y, "GENERATE_AUTH_TOKEN_COMPLETE"))
        \/ \E fastopen \in BOOLEAN : Become(SpdySendRequest(y, fastopen))
        \/ Become(ConnectDone(y, "error"))
    BY <1>2, <1>4 DEF SpdyConnect
  <2>2. x.user.phase = "new"
    BY <1>3, <1>4 DEF SpdyConnect, CanConnect
  <2>3. /\ IsState(w) /\ w.sock = x.sock /\ w.strm = x.strm /\ w.tasks = x.tasks
        /\ w.user = [x.user EXCEPT !.phase = "connecting"]
    BY <1>3, SpdyHas DEF IsState
  <2> HIDE DEF w
  <2>4. /\ IsState(y) /\ y.strm = x.strm /\ y.tasks = x.tasks
        /\ y.sock = [x.sock EXCEPT !.callbacks = @ \cup {"connect"}]
        /\ y.user = [w.user EXCEPT !.awaits = @ \cup {"connect"}]
    BY <2>3 DEF IsState, Awaits
  <2> HIDE DEF y
  <2>5. /\ x.sock.callbacks = {} /\ ~x.sock.user_buffer /\ ~x.sock.read_headers_pending
        /\ x.strm.response = "READY_FOR_HEADERS" /\ x.strm.io = "IDLE"
        /\ x.strm.sending = "nothing" /\ x.tasks = <<>>
    BY <1>3, <2>2, SpdyHas DEF SpdyBegins
  <2>6. /\ x.user.awaits = {} /\ x.user.got = <<>>
        /\ InOrder(x.user.got, x.strm.buffered, x.strm.received)
    BY <1>3, <2>2, <2>5, SpdyHas DEF SpdyKept
  <2>7. /\ IsSocket(y.sock) /\ y.sock.callbacks = {"connect"} /\ ~y.sock.user_buffer
        /\ ~y.sock.read_headers_pending
    <3>1. IsSocket(x.sock)
      BY <1>3, SpdyHas DEF SpdyTypes
    <3> QED BY <2>4, <2>5, <3>1 DEF IsSocket
  <2>8. IsUser(w.user) /\ w.user.phase = "connecting" /\ w.user.awaits = {} /\ w.user.got = <<>>
    <3>1. IsUser(x.user)
      BY <1>3, SpdyHas DEF SpdyTypes
    <3> QED BY <2>3, <2>6, <3>1 DEF IsUser
  <2>9. /\ IsUser(y.user) /\ y.user.phase = "connecting" /\ y.user.awaits = {"connect"}
        /\ y.user.got = <<>>
    BY <2>4, <2>8 DEF IsUser
  <2>10. SpdyTypes(y.sock, y.strm, y.tasks, y.user) /\ SpdyReplied(y.strm, y.user)
    BY <1>3, <2>4, <2>6, <2>7, <2>9, SpdyHas DEF SpdyTypes, SpdyReplied
  <2>11. SpdyStarts(y)
    BY <2>4, <2>5, <2>6, <2>7, <2>9, <2>10 DEF SpdyStarts
  <2> QED BY <1>1, <2>1, <2>11, SpdyProceeds, SpdyBecomes
<1>5. CASE SpdyAuthDone
  <2>1. \/ \E fastopen \in BOOLEAN : Become(SpdySendRequest(x, fastopen))
        \/ Become(ConnectDone(SetState(x, "DISCONNECTED"), "error"))
    BY <1>2, <1>5 DEF SpdyAuthDone
  <2>2. x.user.phase = "connecting" /\ x.sock.next_state = "GENERATE_AUTH_TOKEN_COMPLETE"
    BY <1>3, <1>5, SpdyHas DEF SpdyAuthDone, SpdyBegins, SpdyInUse, SpdyOver
  <2>3. /\ x.sock.callbacks = {"connect"} /\ ~x.sock.user_buffer /\ ~x.sock.read_headers_pending
        /\ x.strm.response = "READY_FOR_HEADERS" /\ x.strm.io = "IDLE"
        /\ x.strm.sending = "nothing" /\ x.tasks = <<>>
    BY <1>3, <2>2, SpdyHas DEF SpdyBegins
  <2>4. SpdyStarts(x)
    BY <1>3, <2>2, <2>3, SpdyHas DEF SpdyStarts, SpdyKept
  <2> QED BY <1>1, <2>1, <2>4, SpdyProceeds, SpdyBecomes
<1>6. CASE SpdyRequestWritten
  <2>1. Become([x EXCEPT !.strm.sending = "written"]) /\ x.strm.sending = "request"
    BY <1>2, <1>3, <1>6 DEF SpdyRequestWritten
  <2> QED BY <1>1, <1>3, <2>1, SpdyRequestIsWritten, SpdyBecomes
<1>7. CASE SpdyHeadersSent
  <2>1. x.strm.sending = "written"
    BY <1>3, <1>7 DEF SpdyHeadersSent
  <2>2. x.sock.next_state = "SEND_REQUEST_COMPLETE" /\ SpdyInv(SpdyRequestSent(x))
    BY <1>1, <1>3, <2>1, SpdyRequestIsSent
  <2>3. Become(SpdyRequestSent(x))
    BY <1>2, <1>3, <1>7, <2>2 DEF SpdyHeadersSent, SpdyRequestSent, Checks
  <2> QED BY <1>1, <2>2, <2>3, SpdyBecomes
<1>8. ASSUME NEW reply \in Replies, SpdyHeaders(reply) PROVE Inv'
  <2>1. x.strm.io # "CLOSED" /\ (x.strm.io = "IDLE" => x.strm.sending = "written")
    BY <1>3, <1>8 DEF SpdyHeaders, SpdyReceiving
  <2>2. x.user.phase # "new"
    BY <1>3, <2>1, SpdyHas DEF SpdyBegins
  <2>3. CASE x.strm.response = "READY_FOR_HEADERS"
    <3>1. Become(IF x.strm.io = "IDLE" THEN SpdyOnClose(SpdyGivenReply(x, reply))
                 ELSE SpdyOnHeadersReceived(SpdyGivenReply(x, reply), reply))
      BY <1>2, <1>3, <1>8, <2>3 DEF SpdyHeaders, SpdyGivenReply
    <3>2. CASE x.strm.io = "IDLE"
      BY <1>1, <1>3, <2>1, <2>3, <3>1, <3>2, SpdyReplyTooEarly, SpdyBecomes
    <3>3. CASE x.strm.io # "IDLE"
      <4>1. x.user.phase \in {"connecting", "connected"}
        BY <1>3, <2>1, <2>2, <2>3, SpdyHas DEF SpdyBegins, SpdyOver
      <4>2. SpdyInv(SpdyOnHeadersReceived(SpdyGivenReply(x, reply), reply))
        BY <1>1, <1>3, <2>1, <2>3, <3>3, <4>1, SpdyReplyConnects, SpdyReplyTooLate
      <4> QED BY <1>1, <3>1, <3>3, <4>2, SpdyBecomes
    <3> QED BY <3>2, <3>3
  <2>4. CASE x.strm.response = "READY_FOR_DATA_OR_TRAILERS"
    <3>1. Become([x EXCEPT !.strm.response = "TRAILERS_RECEIVED"])
      BY <1>2, <1>3, <1>8, <2>4 DEF SpdyHeaders
    <3> QED BY <1>1, <1>3, <2>4, <3>1, SpdyTrailers, SpdyBecomes
  <2>5. CASE x.strm.response = "TRAILERS_RECEIVED"
    <3>1. Become(SpdyOnClose(x))
      BY <1>2, <1>3, <1>8, <2>5 DEF SpdyHeaders
    <3> QED BY <1>1, <1>3, <2>1, <2>2, <3>1, SpdyCloses, SpdyBecomes
  <2> QED BY <1>3, <2>3, <2>4, <2>5, SpdyHas DEF SpdyTypes, IsSpdyStream
<1>9. ASSUME NEW n \in 1..MaxFrame, SpdyData(n) PROVE Inv'
  <2>1. x.strm.io # "CLOSED" /\ (x.strm.io = "IDLE" => x.strm.sending = "written")
    BY <1>3, <1>9 DEF SpdyData, SpdyReceiving
  <2>2. x.user.phase # "new"
    BY <1>3, <2>1, SpdyHas DEF SpdyBegins
  <2>3. CASE x.strm.response # "READY_FOR_DATA_OR_TRAILERS" \/ x.strm.io = "HALF_CLOSED_REMOTE"
    <3>1. Become(SpdyOnClose(x))
      BY <1>2, <1>3, <1>9, <2>3 DEF SpdyData
    <3> QED BY <1>1, <1>3, <2>1, <2>2, <3>1, SpdyCloses, SpdyBecomes
  <2>4. CASE ~(x.strm.response # "READY_FOR_DATA_OR_TRAILERS" \/ x.strm.io = "HALF_CLOSED_REMOTE")
    <3>1. Become(SpdyTellReader(SpdyMore(x, n)))
      BY <1>2, <1>3, <1>9, <2>4 DEF SpdyData, SpdyMore
    <3>2. n \in Nat \ {0}
      BY SizesAssumption
    <3> QED BY <1>1, <1>3, <2>1, <2>4, <3>1, <3>2, SpdyDataArrives, SpdyBecomes
  <2> QED BY <2>3, <2>4
<1>10. CASE SpdyEndStream
  <2>1. x.strm.io # "CLOSED" /\ (x.strm.io = "IDLE" => x.strm.sending = "written")
    BY <1>3, <1>10 DEF SpdyEndStream, SpdyReceiving
  <2>2. x.user.phase # "new"
    BY <1>3, <2>1, SpdyHas DEF SpdyBegins
  <2>3. CASE x.strm.response = "READY_FOR_HEADERS" \/ x.strm.io = "HALF_CLOSED_REMOTE"
    <3>1. Become(SpdyOnClose(x))
      BY <1>2, <1>3, <1>10, <2>3 DEF SpdyEndStream
    <3> QED BY <1>1, <1>3, <2>1, <2>2, <3>1, SpdyCloses, SpdyBecomes
  <2>4. CASE ~(x.strm.response = "READY_FOR_HEADERS" \/ x.strm.io = "HALF_CLOSED_REMOTE")
    <3>1. Become(SpdyTellReader([x EXCEPT !.strm.io = "HALF_CLOSED_REMOTE"]))
      BY <1>2, <1>3, <1>10, <2>4 DEF SpdyEndStream
    <3> QED BY <1>1, <1>3, <2>1, <2>4, <3>1, SpdyEnds, SpdyBecomes
  <2> QED BY <2>3, <2>4
<1>11. CASE SpdyReset
  <2>1. Become(SpdyOnClose(x)) /\ x.strm.io # "CLOSED" /\ x.user.phase # "new"
    BY <1>2, <1>3, <1>11 DEF SpdyReset, CanConnect
  <2> QED BY <1>1, <1>3, <2>1, SpdyCloses, SpdyBecomes
<1>12. CASE SpdyDataSent
  <2>1. x.strm.sending = "data"
    BY <1>3, <1>12 DEF SpdyDataSent
  <2>2. "write" \in x.sock.callbacks /\ SpdyInv(SpdyWritten(x))
    BY <1>3, <2>1, SpdyDataIsSent
  <2>3. Become(SpdyWritten(x))
    BY <1>2, <1>3, <1>12, <2>2 DEF SpdyDataSent, SpdyWritten, Checks
  <2> QED BY <1>1, <2>2, <2>3, SpdyBecomes
<1>13. CASE SpdyWriteAnswered
  <2>1. Become(SpdyWriteTold(x)) /\ x.tasks # <<>>
    BY <1>2, <1>3, <1>13 DEF SpdyWriteAnswered, SpdyWriteTold, WriteDone
  <2> QED BY <1>1, <1>3, <2>1, SpdyWriteIsAnswered, SpdyBecomes
<1>14. CASE SpdyRead
  <2>1. x.user.phase = "connected" /\ "read" \notin x.user.awaits
    BY <1>3, <1>14 DEF SpdyRead, CanRead
  <2>2. /\ SpdyInUse(x.sock, x.strm, x.tasks, x.user) /\ "read" \notin x.sock.callbacks
        /\ ~ReadCallback(x) /\ ~x.sock.user_buffer
    BY <1>3, <2>1, SpdyHas DEF SpdyKept, SpdyInUse, ReadCallback
  <2>3. Checks(x, "Read", ~ReadCallback(x) /\ ~x.sock.user_buffer) = x
    BY <2>2 DEF Checks
  <2>4. Become(CASE x.sock.next_state = "DISCONNECTED" -> ReadEnds(x)
                 [] x.sock.next_state = "CLOSED" /\ x.strm.buffered = <<>> -> ReadEnds(x)
                 [] x.sock.next_state # "DISCONNECTED" /\ x.strm.buffered # <<>> ->
                      ReadData(Take(x).x, Take(x).data)
                 [] OTHER -> Awaits([x EXCEPT !.sock.user_buffer = TRUE], "read"))
    BY <1>2, <1>3, <1>14, <2>3 DEF SpdyRead
  <2>5. CASE x.sock.next_state = "DISCONNECTED" \/ (x.sock.next_state = "CLOSED" /\ x.strm.buffered = <<>>)
    <3>1. Become(Disconnected(x))
      BY <2>4, <2>5 DEF ReadEnds
    <3>2. SpdyInv(Disconnected(x))
      BY <1>1, <1>3, SpdyHas, SpdyGone
    <3> QED BY <1>1, <3>1, <3>2, SpdyBecomes
  <2>6. CASE x.sock.next_state # "DISCONNECTED" /\ x.strm.buffered # <<>>
    <3>1. Become(ReadData(Take(x).x, Take(x).data))
      BY <2>4, <2>6
    <3>2. SpdyInv(ReadData(Take(x).x, Take(x).data))
      BY <1>3, <2>1, <2>6, SpdyReadsData
    <3> QED BY <1>1, <3>1, <3>2, SpdyBecomes
  <2>7. CASE x.sock.next_state = "OPEN" /\ x.strm.buffered = <<>>
    <3>1. Become(Awaits([x EXCEPT !.sock.user_buffer = TRUE], "read"))
      BY <2>4, <2>7
    <3>2. SpdyInv(Awaits([x EXCEPT !.sock.user_buffer = TRUE], "read"))
      BY <1>3, <2>1, <2>7, SpdyReadWaits
    <3> QED BY <1>1, <3>1, <3>2, SpdyBecomes
  <2>8. x.sock.next_state \in {"OPEN", "CLOSED", "DISCONNECTED"}
    BY <2>2 DEF SpdyInUse
  <2> QED BY <2>5, <2>6, <2>7, <2>8
<1>15. CASE SpdyWrite
  <2>1. x.user.phase = "connected" /\ "write" \notin x.user.awaits
    BY <1>3, <1>15 DEF SpdyWrite, CanWrite
  <2>2. /\ "write" \notin x.sock.callbacks /\ x.strm.sending = "nothing"
        /\ x.sock.next_state = "OPEN" => x.strm.io \in {"OPEN", "HALF_CLOSED_REMOTE"}
        /\ SpdyInv(WriteDone(Writing(x), "error"))
        /\ x.sock.next_state = "OPEN" =>
             SpdyInv(Awaits([Writing(x) EXCEPT !.strm.sending = "data"], "write"))
    BY <1>1, <1>3, <2>1, SpdyWrites
  <2>3. IF x.sock.next_state # "OPEN" THEN Become(WriteDone(Writing(x), "error"))
        ELSE Become(Awaits([Writing(x) EXCEPT !.strm.sending = "data"], "write"))
    BY <1>2, <1>3, <1>15, <2>2 DEF SpdyWrite, Checks
  <2> QED BY <1>1, <2>2, <2>3, SpdyBecomes
<1> QED BY <1>4, <1>5, <1>6, <1>7, <1>8, <1>9, <1>10, <1>11, <1>12, <1>13, <1>14, <1>15 DEF SpdyNext

-----------------------------------------------------------------------------
\* Over HTTP/3.

LEMMA PostedTask ==
  ASSUME NEW q \in Seq(QuicTasks), NEW task \in QuicTasks
  PROVE  /\ Append(q, task) \in Seq(QuicTasks)
         /\ NoHeaders(q) /\ task # "headers" => NoHeaders(Append(q, task))
<1>1. /\ Append(q, task) \in Seq(QuicTasks) /\ Len(Append(q, task)) = Len(q) + 1
      /\ \A i \in 1..(Len(q) + 1) : Append(q, task)[i] = IF i <= Len(q) THEN q[i] ELSE task
  BY AppendProperties, LenProperties
<1>2. Len(q) \in Nat
  BY LenProperties
<1> QED BY <1>1, <1>2 DEF NoHeaders

LEMMA RunTask ==
  ASSUME NEW q \in Seq(QuicTasks), q # <<>>
  PROVE  /\ Tail(q) \in Seq(QuicTasks)
         /\ NoHeaders(q) => NoHeaders(Tail(q)) /\ Head(q) # "headers"
<1>1. /\ Tail(q) \in Seq(QuicTasks) /\ Len(Tail(q)) = Len(q) - 1 /\ Head(q) = q[1]
      /\ \A i \in 1..(Len(q) - 1) : Tail(q)[i] = q[i + 1]
  BY HeadTailProperties
<1>2. Len(q) \in Nat /\ Len(q) # 0
  BY LenProperties, EmptySeq
<1> QED BY <1>1, <1>2 DEF NoHeaders

LEMMA QuicHas ==
  ASSUME NEW x, QuicInv(x)
  PROVE  /\ IsState(x) /\ QuicTypes(x.sock, x.strm, x.tasks, x.user)
         /\ IsSocket(x.sock) /\ IsQuicStream(x.strm) /\ IsUser(x.user)
         /\ x.tasks \in Seq(QuicTasks)
         /\ QuicPhase(x.sock, x.strm, x.tasks, x.user)
         /\ QuicReplied(x.sock, x.strm, x.tasks, x.user) /\ QuicKept(x.sock, x.strm, x.user)
         /\ x.user.phase \in {"new", "connecting", "challenged", "connected", "disconnected",
                              "destroyed"}
BY DEF QuicInv, QuicGood, QuicTypes, IsUser

\* The stream closes: y is x without it.
IsClosed(x, y) ==
  /\ IsState(y) /\ y.sock = x.sock /\ y.user = x.user
  /\ IsQuicStream(y.strm) /\ ~y.strm.open /\ y.tasks \in Seq(QuicTasks)
  /\ y.strm.requested = x.strm.requested /\ y.strm.reply = x.strm.reply
  /\ y.strm.handle = x.strm.handle /\ y.strm.received = x.strm.received
  /\ y.strm.buffered = x.strm.buffered
  /\ NoHeaders(x.tasks) => NoHeaders(y.tasks)

LEMMA QuicStreamClosed ==
  ASSUME NEW x, IsState(x), IsQuicStream(x.strm), x.tasks \in Seq(QuicTasks)
  PROVE  IsClosed(x, QuicStreamCloses(x))
<1> DEFINE w == [x EXCEPT !.strm.open = FALSE]
           y == Post(w, "close")
<1>1. CASE x.strm.open
  <2>1. /\ IsState(w) /\ w.sock = x.sock /\ w.user = x.user /\ w.tasks = x.tasks
        /\ w.strm = [x.strm EXCEPT !.open = FALSE]
    BY DEF IsState
  <2> HIDE DEF w
  <2>2. /\ IsState(y) /\ y.sock = x.sock /\ y.user = x.user /\ y.strm = w.strm
        /\ y.tasks = Append(x.tasks, "close")
    BY <2>1 DEF IsState, Post
  <2>3. QuicStreamCloses(x) = y
    BY <1>1 DEF QuicStreamCloses, w
  <2> HIDE DEF y
  <2>4. /\ IsQuicStream(y.strm) /\ ~y.strm.open
        /\ y.strm.requested = x.strm.requested /\ y.strm.reply = x.strm.reply
        /\ y.strm.handle = x.strm.handle /\ y.strm.received = x.strm.received
        /\ y.strm.buffered = x.strm.buffered
    BY <2>1, <2>2 DEF IsQuicStream
  <2>5. y.tasks \in Seq(QuicTasks) /\ (NoHeaders(x.tasks) => NoHeaders(y.tasks))
    <3>1. "close" \in QuicTasks
      BY DEF QuicTasks
    <3> QED BY <2>2, <3>1, PostedTask
  <2> QED BY <2>2, <2>3, <2>4, <2>5 DEF IsClosed
<1>2. CASE ~x.strm.open
  BY <1>2 DEF IsClosed, QuicStreamCloses
<1> QED BY <1>1, <1>2

\* The user disconnects, or destroys the socket.
LEMMA QuicGone ==
  ASSUME kind = "quic", NEW x, IsState(x), QuicTypes(x.sock, x.strm, x.tasks, x.user),
         QuicReplied(x.sock, x.strm, x.tasks, x.user), x.user.stray = {}
  PROVE  /\ QuicInv(Destroyed(x)) /\ Destroyed(x).user.phase = "destroyed"
         /\ ("read_headers" \in x.strm.handle =>
               x.sock.use_fastopen /\ x.sock.read_headers_pending) =>
              QuicInv(Disconnected(x)) /\ Disconnected(x).user.phase = "disconnected"
<1> DEFINE w == [SetState(x, "DISCONNECTED") EXCEPT !.sock.callbacks = {}]
           c == QuicDisconnect(x)
<1>1. /\ IsState(w) /\ w.strm = x.strm /\ w.user = x.user /\ w.tasks = x.tasks
      /\ w.sock = [x.sock EXCEPT !.next_state = "DISCONNECTED", !.callbacks = {}]
  BY DEF IsState, SetState
<1>2. c = QuicStreamCloses(w)
  BY DEF QuicDisconnect
<1>3. Disconnect(x) = c
  BY DEF Disconnect
<1> HIDE DEF w, c
<1>4. IsClosed(w, c)
  BY <1>1, <1>2, QuicStreamClosed DEF QuicTypes
<1>5. /\ IsSocket(w.sock) /\ w.sock.next_state = "DISCONNECTED" /\ w.sock.callbacks = {}
      /\ w.sock.use_fastopen = x.sock.use_fastopen
      /\ w.sock.read_headers_pending = x.sock.read_headers_pending
  BY <1>1 DEF QuicTypes, IsSocket
<1>6. /\ IsState(c) /\ c.user = x.user /\ IsQuicStream(c.strm) /\ ~c.strm.open
      /\ c.tasks \in Seq(QuicTasks) /\ c.strm.requested = x.strm.requested
      /\ c.strm.reply = x.strm.reply /\ c.strm.handle = x.strm.handle
      /\ NoHeaders(x.tasks) => NoHeaders(c.tasks)
      /\ IsSocket(c.sock) /\ c.sock.next_state = "DISCONNECTED" /\ c.sock.callbacks = {}
      /\ c.sock.use_fastopen = x.sock.use_fastopen
      /\ c.sock.read_headers_pending = x.sock.read_headers_pending
  BY <1>1, <1>4, <1>5 DEF IsClosed
<1>7. ASSUME NEW u, IsUser(u), u.awaits = {}, u.got = x.user.got, u.stray = {},
             u.phase \in {"disconnected", "destroyed"}, NEW q \in Seq(QuicTasks),
             NoHeaders(c.tasks) => NoHeaders(q),
             u.phase = "destroyed" => q = <<>>,
             u.phase = "disconnected" /\ "read_headers" \in x.strm.handle =>
               x.sock.use_fastopen /\ x.sock.read_headers_pending
      PROVE  QuicGood(c.sock, c.strm, q, u)
  <2>1. QuicTypes(c.sock, c.strm, q, u)
    BY <1>6, <1>7 DEF QuicTypes
  <2>2. QuicPhase(c.sock, c.strm, q, u)
    BY <1>6, <1>7 DEF QuicPhase
  <2>3. QuicReplied(c.sock, c.strm, q, u) /\ QuicKept(c.sock, c.strm, u)
    BY <1>6, <1>7 DEF QuicReplied, QuicKept
  <2> QED BY <2>1, <2>2, <2>3 DEF QuicGood
<1>8. ASSUME "read_headers" \in x.strm.handle =>
               x.sock.use_fastopen /\ x.sock.read_headers_pending
      PROVE  QuicInv(Disconnected(x)) /\ Disconnected(x).user.phase = "disconnected"
  <2> DEFINE d == Disconnected(x)
             u == [x.user EXCEPT !.phase = "disconnected", !.awaits = {}]
  <2>1. IsState(d) /\ d.sock = c.sock /\ d.strm = c.strm /\ d.tasks = c.tasks /\ d.user = u
    BY <1>3, <1>6 DEF Disconnected, IsState
  <2>2. IsUser(u) /\ u.awaits = {} /\ u.got = x.user.got /\ u.stray = {}
        /\ u.phase = "disconnected"
    BY DEF IsUser, QuicTypes
  <2> HIDE DEF d, u
  <2>3. QuicGood(d.sock, d.strm, d.tasks, d.user) /\ d.user.phase = u.phase
    BY <1>6, <1>7, <1>8, <2>1, <2>2
  <2> QED BY <2>1, <2>2, <2>3 DEF QuicInv, d
<1>9. QuicInv(Destroyed(x)) /\ Destroyed(x).user.phase = "destroyed"
  <2> DEFINE d == Destroyed(x)
             u == [x.user EXCEPT !.phase = "destroyed", !.awaits = {}]
  <2>1. IsState(d) /\ d.sock = c.sock /\ d.strm = c.strm /\ d.tasks = <<>> /\ d.user = u
    BY <1>3, <1>6 DEF Destroyed, IsState
  <2>2. IsUser(u) /\ u.awaits = {} /\ u.got = x.user.got /\ u.stray = {}
        /\ u.phase = "destroyed"
    BY DEF IsUser, QuicTypes
  <2>3. <<>> \in Seq(QuicTasks) /\ NoHeaders(<<>>)
    BY EmptySeq DEF NoHeaders
  <2> HIDE DEF d, u
  <2>4. QuicGood(d.sock, d.strm, d.tasks, d.user) /\ d.user.phase = u.phase
    BY <1>7, <2>1, <2>2, <2>3
  <2> QED BY <2>1, <2>2, <2>4 DEF QuicInv, d
<1> QED BY <1>8, <1>9

LEMMA QuicConnectFails ==
  ASSUME kind = "quic", NEW x, IsState(x), QuicTypes(x.sock, x.strm, x.tasks, x.user),
         QuicReplied(x.sock, x.strm, x.tasks, x.user), x.user.stray = {},
         "connect" \in x.user.awaits
  PROVE  QuicInv(ConnectDone(x, "error")) /\ ConnectDone(x, "error").user.phase = "destroyed"
<1> DEFINE z == Answered(x, "connect", "connect")
<1>1. ConnectDone(x, "error") = Destroyed(z)
  BY DEF ConnectDone
<1>2. IsAnswered(x, z, "connect")
  BY AnsweredIs DEF QuicTypes
<1> HIDE DEF z
<1>3. /\ IsState(z) /\ QuicTypes(z.sock, z.strm, z.tasks, z.user) /\ z.user.stray = {}
      /\ QuicReplied(z.sock, z.strm, z.tasks, z.user)
  BY <1>2 DEF QuicTypes, QuicReplied, IsAnswered
<1> QED BY <1>1, <1>3, QuicGone

\* A Connect is answered by the reply, or fails.
LEMMA QuicReplyConnects ==
  ASSUME kind = "quic", NEW x, IsState(x), QuicTypes(x.sock, x.strm, x.tasks, x.user),
         QuicReplied(x.sock, x.strm, x.tasks, x.user), QuicKept(x.sock, x.strm, x.user),
         x.user.phase = "connecting", x.sock.callbacks = {"connect"},
         x.sock.next_state = "READ_REPLY_COMPLETE", ~x.sock.use_fastopen, x.strm.handle = {},
         NEW result \in Replies \cup {"error"}, result = "200" => x.strm.reply = "200"
  PROVE  /\ QuicInv(QuicReplyDone(x, result))
         /\ result = "error" => QuicReplyDone(x, result).user.phase = "destroyed"
<1> DEFINE r == DoReadReplyComplete(result)
           z == SetState(x, r.state)
           d == ConnectDone(z, r.rv)
<1>1. /\ result = "200" => r.rv = "ok" /\ r.state = "OPEN"
      /\ result = "407" => r.rv = "auth" /\ r.state = "OPEN"
      /\ result \in {"other", "error"} => r.rv = "error"
  BY DEF DoReadReplyComplete
<1>2. x.user.awaits = {"connect"} /\ x.user.got = <<>> /\ x.user.stray = {}
      /\ InOrder(x.user.got, x.strm.buffered, x.strm.received)
  BY DEF QuicKept
<1>3. QuicReplyDone(x, result) = d
  BY DEF QuicReplyDone, Checks
<1> HIDE DEF r
<1>4. /\ IsState(z) /\ z.strm = x.strm /\ z.tasks = x.tasks /\ z.user = x.user
      /\ z.sock = [x.sock EXCEPT !.next_state = r.state]
  BY DEF IsState, SetState
<1> HIDE DEF z
<1>5. /\ IsSocket(z.sock) /\ z.sock.next_state = r.state /\ z.sock.callbacks = {"connect"}
      /\ ~z.sock.use_fastopen
  BY <1>4 DEF QuicTypes, IsSocket
<1>6. /\ QuicTypes(z.sock, z.strm, z.tasks, z.user) /\ z.user.stray = {}
      /\ QuicReplied(z.sock, z.strm, z.tasks, z.user)
  BY <1>2, <1>4, <1>5 DEF QuicTypes, QuicReplied
<1>7. CASE result \in {"other", "error"}
  <2>1. QuicInv(ConnectDone(z, "error")) /\ ConnectDone(z, "error").user.phase = "destroyed"
    BY <1>2, <1>4, <1>6, QuicConnectFails
  <2> QED BY <1>1, <1>3, <1>7, <2>1
<1>8. CASE result \in {"200", "407"}
  <2>1. r.rv \in {"ok", "auth"} /\ r.state = "OPEN"
    BY <1>1, <1>8
  <2>2. IsAnswered(z, d, "connect")
        /\ d.user.phase = IF r.rv = "ok" THEN "connected" ELSE "challenged"
    BY <1>2, <1>4, <1>5, <1>6, <2>1, ConnectDoneIs DEF QuicTypes
  <2> HIDE DEF d
  <2>3. /\ IsState(d) /\ d.strm = x.strm /\ d.tasks = x.tasks /\ d.sock.callbacks = {}
        /\ d.sock.next_state = "OPEN" /\ IsSocket(d.sock) /\ IsUser(d.user)
        /\ ~d.sock.use_fastopen
        /\ d.user.awaits = {} /\ d.user.got = <<>> /\ d.user.stray = {}
    BY <1>2, <1>4, <1>5, <2>1, <2>2 DEF IsAnswered
  <2>4. /\ d.user.phase \in {"connected", "challenged"}
        /\ d.user.phase = "connected" => d.strm.reply = "200"
    BY <1>1, <1>8, <2>2, <2>3
  <2>5. QuicTypes(d.sock, d.strm, d.tasks, d.user)
    BY <2>3 DEF QuicTypes
  <2>6. QuicReplied(d.sock, d.strm, d.tasks, d.user)
    BY <2>3 DEF QuicReplied
  <2>7. QuicPhase(d.sock, d.strm, d.tasks, d.user)
    BY <2>3, <2>4 DEF QuicPhase
  <2>8. QuicKept(d.sock, d.strm, d.user)
    <3>1. InOrder(d.user.got, d.strm.buffered, d.strm.received)
      BY <1>2, <2>3
    <3> QED BY <2>3, <3>1 DEF QuicKept
  <2> QED BY <1>3, <1>8, <2>3, <2>5, <2>6, <2>7, <2>8 DEF QuicInv, QuicGood
<1> QED BY <1>7, <1>8

\* The reply of a tunnel that Fast Open already uses, or used.
LEMMA QuicReplyTooLate ==
  ASSUME NEW x, QuicInv(x), x.user.phase \in {"connected", "disconnected"},
         x.sock.use_fastopen, x.sock.read_headers_pending, "read_headers" \notin x.strm.handle,
         NEW result \in Replies \cup {"error"}
  PROVE  /\ QuicInv(QuicReplyDone(x, result))
         /\ QuicReplyDone(x, result).user = x.user /\ QuicReplyDone(x, result).strm = x.strm
<1> DEFINE r == DoReadReplyComplete(result)
           w == [x EXCEPT !.sock.read_headers_pending = FALSE]
           state == IF r.rv = "ok" THEN "OPEN" ELSE "DISCONNECTED"
           y == SetState(w, state)
<1>1. CASE x.sock.next_state = "DISCONNECTED"
  <2>1. QuicReplyDone(x, result) = x
    BY <1>1 DEF QuicReplyDone, QuicReplyGuard
  <2> QED BY <2>1
<1>2. CASE x.sock.next_state # "DISCONNECTED"
  <2>1. QuicReplyDone(x, result) = y
    BY <1>2 DEF QuicReplyDone, QuicReplyGuard, Checks
  <2>2. state \in {"OPEN", "DISCONNECTED"}
    OBVIOUS
  <2>3. IsState(x)
    BY QuicHas
  <2>4. /\ IsState(w) /\ w.strm = x.strm /\ w.tasks = x.tasks /\ w.user = x.user
        /\ w.sock = [x.sock EXCEPT !.read_headers_pending = FALSE]
    BY <2>3 DEF IsState
  <2> HIDE DEF w, state
  <2>5. /\ IsState(y) /\ y.strm = x.strm /\ y.tasks = x.tasks /\ y.user = x.user
        /\ y.sock = [w.sock EXCEPT !.next_state = state]
    BY <2>4 DEF IsState, SetState
  <2> HIDE DEF y
  <2>6. IsSocket(w.sock) /\ w.sock.callbacks = x.sock.callbacks /\ w.sock.use_fastopen
    BY <2>4, QuicHas DEF IsSocket
  <2>7. IsSocket(y.sock) /\ y.sock.callbacks = x.sock.callbacks /\ y.sock.use_fastopen
        /\ y.sock.next_state = state
    BY <2>5, <2>6 DEF IsSocket
  <2>8. x.user.phase = "connected"
    BY <1>2, QuicHas DEF QuicPhase
  <2>9. QuicTypes(y.sock, y.strm, y.tasks, y.user)
    BY <2>5, <2>7, QuicHas DEF QuicTypes
  <2>10. QuicReplied(y.sock, y.strm, y.tasks, y.user) /\ QuicKept(y.sock, y.strm, y.user)
    BY <2>5, <2>7, QuicHas DEF QuicReplied, QuicKept
  <2>11. QuicPhase(y.sock, y.strm, y.tasks, y.user)
    BY <2>2, <2>5, <2>7, <2>8, QuicHas DEF QuicPhase
  <2> QED BY <2>1, <2>5, <2>9, <2>10, <2>11 DEF QuicInv, QuicGood
<1> QED BY <1>1, <1>2

\* A callback of the handle is taken out of it.
IsUnhandled(x, y, op) ==
  /\ IsState(y) /\ y.sock = x.sock /\ y.tasks = x.tasks /\ y.user = x.user
  /\ IsQuicStream(y.strm) /\ y.strm.handle = x.strm.handle \ {op}
  /\ y.strm.open = x.strm.open /\ y.strm.requested = x.strm.requested
  /\ y.strm.reply = x.strm.reply /\ y.strm.received = x.strm.received
  /\ y.strm.buffered = x.strm.buffered /\ y.strm.fin = x.strm.fin

Unhandled(x, op) == [x EXCEPT !.strm.handle = @ \ {op}]

LEMMA UnhandledIs ==
  ASSUME NEW x, IsState(x), IsQuicStream(x.strm), NEW op
  PROVE  IsUnhandled(x, Unhandled(x, op), op)
<1> DEFINE y == Unhandled(x, op)
<1>1. /\ IsState(y) /\ y.sock = x.sock /\ y.tasks = x.tasks /\ y.user = x.user
      /\ y.strm = [x.strm EXCEPT !.handle = @ \ {op}]
  BY DEF IsState, Unhandled
<1> HIDE DEF y
<1>2. /\ IsQuicStream(y.strm) /\ y.strm.handle = x.strm.handle \ {op}
      /\ y.strm.open = x.strm.open /\ y.strm.requested = x.strm.requested
      /\ y.strm.reply = x.strm.reply /\ y.strm.received = x.strm.received
      /\ y.strm.buffered = x.strm.buffered /\ y.strm.fin = x.strm.fin
  BY <1>1 DEF IsQuicStream
<1> QED BY <1>1, <1>2 DEF IsUnhandled, y

\* What does not speak of the callbacks stays true.
LEMMA UnhandledKeeps ==
  ASSUME NEW x, QuicInv(x), NEW y, NEW op, IsUnhandled(x, y, op)
  PROVE  /\ QuicTypes(y.sock, y.strm, y.tasks, y.user)
         /\ QuicReplied(y.sock, y.strm, y.tasks, y.user) /\ QuicKept(y.sock, y.strm, y.user)
         /\ x.user.phase = "connected" /\ op = "read_headers" => QuicInv(y)
         /\ x.user.phase = "disconnected" => QuicInv(y)
<1>1. QuicTypes(y.sock, y.strm, y.tasks, y.user)
  BY QuicHas DEF QuicTypes, IsUnhandled
<1>2. QuicReplied(y.sock, y.strm, y.tasks, y.user) /\ QuicKept(y.sock, y.strm, y.user)
  BY QuicHas DEF QuicReplied, QuicKept, IsUnhandled
<1>3. ASSUME (x.user.phase = "connected" /\ op = "read_headers") \/ x.user.phase = "disconnected"
      PROVE  QuicPhase(y.sock, y.strm, y.tasks, y.user)
  BY <1>3, QuicHas DEF QuicPhase, IsUnhandled
<1> QED BY <1>1, <1>2, <1>3 DEF QuicInv, QuicGood, IsUnhandled

\* A Read that waits is told that the stream is gone.
LEMMA QuicReadEnds ==
  ASSUME kind = "quic", NEW x, QuicInv(x), x.user.phase \in {"connected", "disconnected"},
         "read_body" \in x.strm.handle
  PROVE  /\ QuicInv(QuicReadDone(Unhandled(x, "read_body"), <<>>))
         /\ QuicReadDone(Unhandled(x, "read_body"), <<>>).user.phase = "disconnected"
<1> DEFINE y == Unhandled(x, "read_body")
           z == Answered(y, "read", "read")
<1>1. IsUnhandled(x, y, "read_body")
  BY QuicHas, UnhandledIs
<1> HIDE DEF y
<1>2. /\ QuicTypes(y.sock, y.strm, y.tasks, y.user)
      /\ QuicReplied(y.sock, y.strm, y.tasks, y.user) /\ QuicKept(y.sock, y.strm, y.user)
      /\ x.user.phase = "disconnected" => QuicInv(y)
  BY <1>1, UnhandledKeeps
<1>3. CASE x.user.phase = "disconnected"
  <2>1. "read" \notin y.sock.callbacks
    BY <1>1, <1>3, QuicHas DEF QuicPhase, IsUnhandled
  <2>2. QuicReadDone(y, <<>>) = y /\ y.user.phase = "disconnected"
    BY <1>1, <1>3, <2>1 DEF QuicReadDone, IsUnhandled
  <2> QED BY <1>2, <1>3, <2>2 DEF y
<1>4. CASE x.user.phase = "connected"
  <2>1. "read" \in y.sock.callbacks /\ "read" \in y.user.awaits /\ y.user.stray = {}
        /\ ("read_headers" \in y.strm.handle =>
              y.sock.use_fastopen /\ y.sock.read_headers_pending)
    BY <1>1, <1>2, <1>4, QuicHas DEF QuicPhase, IsUnhandled, QuicKept
  <2>2. QuicReadDone(y, <<>>) = Disconnected(z)
    BY <2>1 DEF QuicReadDone, ReadEnds
  <2>3. IsAnswered(y, z, "read")
    BY <1>1, <1>2, <2>1, AnsweredIs DEF QuicTypes, IsUnhandled
  <2> HIDE DEF z
  <2>4. /\ IsState(z) /\ QuicTypes(z.sock, z.strm, z.tasks, z.user) /\ z.user.stray = {}
        /\ QuicReplied(z.sock, z.strm, z.tasks, z.user)
        /\ ("read_headers" \in z.strm.handle =>
              z.sock.use_fastopen /\ z.sock.read_headers_pending)
    BY <1>2, <2>1, <2>3 DEF QuicTypes, QuicReplied, IsAnswered
  <2>5. QuicInv(Disconnected(z)) /\ Disconnected(z).user.phase = "disconnected"
    BY <2>4, QuicGone
  <2> QED BY <2>2, <2>5 DEF y
<1> QED BY <1>3, <1>4

\* A Write that waits is answered.
LEMMA QuicWriteEnds ==
  ASSUME kind = "quic", NEW x, QuicInv(x), x.user.phase \in {"connected", "disconnected"},
         "write" \in x.strm.handle, NEW y, IsUnhandled(x, y, "write"),
         NEW rv \in {"ok", "error"}
  PROVE  QuicInv(QuicWriteDone(y, rv))
<1> DEFINE z == Answered(y, "write", "write")
<1>1. /\ QuicTypes(y.sock, y.strm, y.tasks, y.user)
      /\ QuicReplied(y.sock, y.strm, y.tasks, y.user) /\ QuicKept(y.sock, y.strm, y.user)
      /\ x.user.phase = "disconnected" => QuicInv(y)
  BY UnhandledKeeps
<1>2. CASE x.user.phase = "disconnected"
  <2>1. "write" \notin y.sock.callbacks
    BY <1>2, QuicHas DEF QuicPhase, IsUnhandled
  <2>2. QuicWriteDone(y, rv) = y
    BY <2>1 DEF QuicWriteDone
  <2> QED BY <1>1, <1>2, <2>2
<1>3. CASE x.user.phase = "connected"
  <2>1. /\ "write" \in y.sock.callbacks /\ "write" \in y.user.awaits /\ y.user.stray = {}
        /\ y.sock.callbacks \ {"write"} =
             (y.strm.handle \cap {"write"}) \cup
               (IF "read_body" \in y.strm.handle THEN {"read"} ELSE {})
        /\ y.sock.next_state \in {"OPEN", "DISCONNECTED"}
        /\ ~y.sock.use_fastopen => y.strm.reply = "200"
        /\ ("read_headers" \in y.strm.handle =>
              y.sock.use_fastopen /\ y.sock.read_headers_pending)
    BY <1>1, <1>3, QuicHas DEF QuicPhase, IsUnhandled, QuicKept
  <2>2. QuicWriteDone(y, rv) = WriteDone(z, rv)
    BY <2>1 DEF QuicWriteDone
  <2>3. IsAnswered(y, z, "write") /\ z.user.phase = "connected"
    <3>1. IsState(y) /\ IsSocket(y.sock) /\ IsUser(y.user) /\ y.user.phase = "connected"
      BY <1>1, <1>3 DEF QuicTypes, IsUnhandled
    <3>2. IsAnswered(y, z, "write") /\ z.user.phase = y.user.phase
      BY <2>1, <3>1, AnsweredIs
    <3> QED BY <3>1, <3>2
  <2> HIDE DEF z
  <2>4. /\ IsState(z) /\ QuicTypes(z.sock, z.strm, z.tasks, z.user) /\ z.user.stray = {}
        /\ QuicReplied(z.sock, z.strm, z.tasks, z.user)
        /\ ("read_headers" \in z.strm.handle =>
              z.sock.use_fastopen /\ z.sock.read_headers_pending)
    BY <1>1, <2>1, <2>3 DEF QuicTypes, QuicReplied, IsAnswered
  <2>5. CASE rv = "error"
    BY <2>2, <2>3, <2>4, <2>5, QuicGone DEF WriteDone
  <2>6. CASE rv = "ok"
    <3>1. QuicPhase(z.sock, z.strm, z.tasks, z.user)
      BY <2>1, <2>3 DEF QuicPhase, IsAnswered
    <3>2. QuicKept(z.sock, z.strm, z.user)
      BY <1>1, <1>3, <2>3, <2>4 DEF QuicKept, IsAnswered, IsUnhandled
    <3>3. QuicWriteDone(y, rv) = z
      BY <2>2, <2>6 DEF WriteDone
    <3> QED BY <2>4, <3>1, <3>2, <3>3 DEF QuicInv, QuicGood
  <2> QED BY <2>5, <2>6
<1> QED BY <1>2, <1>3

\* A task is taken from the message loop.
LEMMA QuicRuns ==
  ASSUME NEW x, QuicInv(x), x.tasks # <<>>
  PROVE  /\ QuicInv([x EXCEPT !.tasks = Tail(@)]) /\ x.user.phase # "destroyed"
         /\ [x EXCEPT !.tasks = Tail(@)].user = x.user
         /\ [x EXCEPT !.tasks = Tail(@)].strm = x.strm
         /\ Head(x.tasks) = "headers" => x.strm.reply # "none"
<1> DEFINE y == [x EXCEPT !.tasks = Tail(@)]
<1>1. x.tasks \in Seq(QuicTasks) /\ x.user.phase # "destroyed" /\ IsState(x)
  BY QuicHas DEF QuicPhase
<1>2. /\ Tail(x.tasks) \in Seq(QuicTasks)
      /\ NoHeaders(x.tasks) => NoHeaders(Tail(x.tasks)) /\ Head(x.tasks) # "headers"
  BY <1>1, RunTask
<1>3. IsState(y) /\ y.sock = x.sock /\ y.strm = x.strm /\ y.user = x.user
      /\ y.tasks = Tail(x.tasks)
  BY <1>1 DEF IsState
<1> HIDE DEF y
<1>4. QuicTypes(y.sock, y.strm, y.tasks, y.user) /\ QuicKept(y.sock, y.strm, y.user)
  BY <1>2, <1>3, QuicHas DEF QuicTypes
<1>5. QuicPhase(y.sock, y.strm, y.tasks, y.user)
  BY <1>1, <1>3, QuicHas DEF QuicPhase
<1>6. QuicReplied(y.sock, y.strm, y.tasks, y.user)
  BY <1>2, <1>3, QuicHas DEF QuicReplied
<1>7. QuicInv(y)
  BY <1>3, <1>4, <1>5, <1>6 DEF QuicInv, QuicGood
<1>8. Head(x.tasks) = "headers" => x.strm.reply # "none"
  BY <1>2, QuicHas DEF QuicReplied
<1> QED BY <1>1, <1>3, <1>7, <1>8 DEF y

LEMMA QuicHeadersRun ==
  ASSUME kind = "quic", NEW x, QuicInv(x), x.strm.reply # "none"
  PROVE  QuicInv(QuicHeadersTask(x))
<1> DEFINE y == [x EXCEPT !.strm.delivered = TRUE, !.strm.handle = @ \ {"read_headers"}]
<1>1. CASE ~x.strm.open \/ x.strm.delivered \/ "read_headers" \notin x.strm.handle
  BY <1>1 DEF QuicHeadersTask
<1>2. CASE ~(~x.strm.open \/ x.strm.delivered \/ "read_headers" \notin x.strm.handle)
  <2>1. QuicHeadersTask(x) = QuicReplyDone(y, x.strm.reply)
    BY <1>2 DEF QuicHeadersTask
  <2>2. IsState(x) /\ IsQuicStream(x.strm)
    BY QuicHas
  <2>3. /\ IsState(y) /\ y.sock = x.sock /\ y.tasks = x.tasks /\ y.user = x.user
        /\ y.strm = [x.strm EXCEPT !.delivered = TRUE, !.handle = @ \ {"read_headers"}]
    BY <2>2 DEF IsState
  <2> HIDE DEF y
  <2>4. /\ IsQuicStream(y.strm) /\ y.strm.handle = x.strm.handle \ {"read_headers"}
        /\ y.strm.open = x.strm.open /\ y.strm.requested = x.strm.requested
        /\ y.strm.reply = x.strm.reply /\ y.strm.received = x.strm.received
        /\ y.strm.buffered = x.strm.buffered /\ y.strm.fin = x.strm.fin
    BY <2>2, <2>3 DEF IsQuicStream
  <2>5. IsUnhandled(x, y, "read_headers")
    BY <2>3, <2>4 DEF IsUnhandled
  <2>6. /\ QuicTypes(y.sock, y.strm, y.tasks, y.user)
        /\ QuicReplied(y.sock, y.strm, y.tasks, y.user) /\ QuicKept(y.sock, y.strm, y.user)
        /\ x.user.phase = "connected" => QuicInv(y)
    BY <2>5, UnhandledKeeps
  <2>7. x.user.phase \in {"connecting", "connected"} /\ x.strm.reply \in Replies
    BY <1>2, QuicHas DEF QuicPhase, IsQuicStream
  <2>8. CASE x.user.phase = "connecting"
    <3>1. /\ y.user.phase = "connecting" /\ y.sock.callbacks = {"connect"}
          /\ y.sock.next_state = "READ_REPLY_COMPLETE" /\ ~y.sock.use_fastopen
          /\ y.strm.handle = {}
      BY <1>2, <2>3, <2>4, <2>8, QuicHas DEF QuicPhase
    <3>2. PICK result \in Replies \cup {"error"} : result = x.strm.reply
      BY <2>7
    <3>3. result = "200" => y.strm.reply = "200"
      BY <2>4, <3>2
    <3>4. QuicInv(QuicReplyDone(y, result))
      BY <2>3, <2>6, <3>1, <3>3, QuicReplyConnects
    <3> QED BY <2>1, <3>2, <3>4
  <2>9. CASE x.user.phase = "connected"
    <3>1. /\ y.sock.use_fastopen /\ y.sock.read_headers_pending
          /\ "read_headers" \notin y.strm.handle /\ y.user.phase = "connected"
      BY <1>2, <2>3, <2>4, <2>9, QuicHas DEF QuicPhase
    <3> QED BY <2>1, <2>6, <2>7, <2>9, <3>1, QuicReplyTooLate
  <2> QED BY <2>7, <2>8, <2>9
<1> QED BY <1>1, <1>2

LEMMA QuicCloseRuns ==
  ASSUME kind = "quic", NEW x, QuicInv(x), x.user.phase # "destroyed"
  PROVE  QuicInv(QuicCloseTask(x))
<1> DEFINE h == Unhandled(x, "read_headers")
           a == IF "read_headers" \in x.strm.handle THEN QuicReplyDone(h, "error") ELSE x
           b == IF Alive(a) /\ "read_body" \in a.strm.handle
                THEN QuicReadDone(Unhandled(a, "read_body"), <<>>) ELSE a
           c == IF Alive(b) /\ "write" \in b.strm.handle
                THEN QuicWriteDone(Unhandled(b, "write"), "error") ELSE b
<1>1. QuicCloseTask(x) = c
  BY DEF QuicCloseTask, Unhandled
<1>2. QuicInv(a)
  <2>1. CASE "read_headers" \notin x.strm.handle
    BY <2>1
  <2>2. CASE "read_headers" \in x.strm.handle
    <3>1. a = QuicReplyDone(h, "error")
      BY <2>2
    <3>2. IsUnhandled(x, h, "read_headers")
      BY QuicHas, UnhandledIs
    <3> HIDE DEF h
    <3>3. /\ QuicTypes(h.sock, h.strm, h.tasks, h.user)
          /\ QuicReplied(h.sock, h.strm, h.tasks, h.user) /\ QuicKept(h.sock, h.strm, h.user)
          /\ x.user.phase \in {"connected", "disconnected"} => QuicInv(h)
      BY <3>2, UnhandledKeeps
    <3>4. x.user.phase \in {"connecting", "connected", "disconnected"}
      BY <2>2, QuicHas DEF QuicPhase
    <3>5. CASE x.user.phase = "connecting"
      <4>1. /\ h.user.phase = "connecting" /\ h.sock.callbacks = {"connect"}
            /\ h.sock.next_state = "READ_REPLY_COMPLETE" /\ ~h.sock.use_fastopen
            /\ h.strm.handle = {} /\ IsState(h)
        BY <2>2, <3>2, <3>5, QuicHas DEF QuicPhase, IsUnhandled
      <4> QED BY <3>1, <3>3, <4>1, QuicReplyConnects
    <3>6. CASE x.user.phase \in {"connected", "disconnected"}
      <4>1. /\ h.sock.use_fastopen /\ h.sock.read_headers_pending
            /\ "read_headers" \notin h.strm.handle /\ h.user.phase \in {"connected", "disconnected"}
        BY <2>2, <3>2, <3>6, QuicHas DEF QuicPhase, IsUnhandled
      <4> QED BY <3>1, <3>3, <3>6, <4>1, QuicReplyTooLate
    <3> QED BY <3>4, <3>5, <3>6
  <2> QED BY <2>1, <2>2
<1> HIDE DEF a
<1>3. QuicInv(b)
  <2>1. CASE Alive(a) /\ "read_body" \in a.strm.handle
    <3>1. a.user.phase \in {"connected", "disconnected"}
      BY <1>2, <2>1, QuicHas DEF QuicPhase, Alive
    <3> QED BY <1>2, <2>1, <3>1, QuicReadEnds
  <2>2. CASE ~(Alive(a) /\ "read_body" \in a.strm.handle)
    BY <1>2, <2>2
  <2> QED BY <2>1, <2>2
<1> HIDE DEF b
<1>4. QuicInv(c)
  <2>1. CASE Alive(b) /\ "write" \in b.strm.handle
    <3>1. b.user.phase \in {"connected", "disconnected"}
      BY <1>3, <2>1, QuicHas DEF QuicPhase, Alive
    <3>2. IsUnhandled(b, Unhandled(b, "write"), "write")
      BY <1>3, QuicHas, UnhandledIs
    <3> QED BY <1>3, <2>1, <3>1, <3>2, QuicWriteEnds
  <2>2. CASE ~(Alive(b) /\ "write" \in b.strm.handle)
    BY <1>3, <2>2
  <2> QED BY <2>1, <2>2
<1> QED BY <1>1, <1>4

\* The user is given data.
LEMMA QuicGets ==
  ASSUME NEW x, IsState(x), QuicTypes(x.sock, x.strm, x.tasks, x.user),
         QuicPhase(x.sock, x.strm, x.tasks, x.user),
         QuicReplied(x.sock, x.strm, x.tasks, x.user),
         x.user.phase = "connected", x.user.awaits = x.sock.callbacks, x.user.stray = {},
         NEW data, x.user.got \o data \in Seq(Nat),
         InOrder(x.user.got \o data, x.strm.buffered, x.strm.received)
  PROVE  QuicInv(ReadData(x, data))
<1> DEFINE got == x.user.got \o data
           y == ReadData(x, data)
<1>1. /\ IsState(y) /\ y.sock = x.sock /\ y.tasks = x.tasks /\ y.strm = x.strm
      /\ y.user = [x.user EXCEPT !.got = got]
  BY DEF IsState, ReadData
<1>2. got \in Seq(Nat) /\ InOrder(got, x.strm.buffered, x.strm.received)
  OBVIOUS
<1> HIDE DEF y, got
<1>3. /\ IsUser(y.user) /\ y.user.phase = "connected" /\ y.user.awaits = x.user.awaits
      /\ y.user.got = got /\ y.user.stray = {}
  BY <1>1, <1>2 DEF QuicTypes, IsUser
<1>4. QuicTypes(y.sock, y.strm, y.tasks, y.user)
  BY <1>1, <1>3 DEF QuicTypes
<1>5. QuicPhase(y.sock, y.strm, y.tasks, y.user)
  BY <1>1, <1>3 DEF QuicPhase
<1>6. QuicReplied(y.sock, y.strm, y.tasks, y.user)
  BY <1>1 DEF QuicReplied, QuicPhase
<1>7. QuicKept(y.sock, y.strm, y.user)
  BY <1>1, <1>2, <1>3 DEF QuicKept
<1> QED BY <1>1, <1>4, <1>5, <1>6, <1>7 DEF QuicInv, QuicGood, y

\* Data is taken from the stream.
IsTaken(x, y) ==
  /\ IsState(y) /\ y.sock = x.sock /\ y.tasks = x.tasks /\ y.user = x.user
  /\ IsQuicStream(y.strm) /\ y.strm.buffered = Rest(x.strm.buffered, BufLen)
  /\ y.strm.open = x.strm.open /\ y.strm.requested = x.strm.requested
  /\ y.strm.reply = x.strm.reply /\ y.strm.received = x.strm.received
  /\ y.strm.handle = x.strm.handle

LEMMA TakenIs ==
  ASSUME NEW x, IsState(x), IsQuicStream(x.strm), IsUser(x.user),
         InOrder(x.user.got, x.strm.buffered, x.strm.received)
  PROVE  /\ IsTaken(x, Take(x).x) /\ Take(x).data = First(x.strm.buffered, BufLen)
         /\ x.user.got \o First(x.strm.buffered, BufLen) \in Seq(Nat)
         /\ InOrder(x.user.got \o First(x.strm.buffered, BufLen),
                    Rest(x.strm.buffered, BufLen), x.strm.received)
         /\ First(x.strm.buffered, BufLen) = <<>> <=> x.strm.buffered = <<>>
<1> DEFINE left == Rest(x.strm.buffered, BufLen)
           y == Take(x).x
<1>1. x.user.got \in Seq(Nat) /\ x.strm.buffered \in Seq(Nat)
  BY DEF IsUser, IsQuicStream
<1>2. /\ left \in Seq(Nat) /\ x.user.got \o First(x.strm.buffered, BufLen) \in Seq(Nat)
      /\ InOrder(x.user.got \o First(x.strm.buffered, BufLen), left, x.strm.received)
      /\ First(x.strm.buffered, BufLen) = <<>> <=> x.strm.buffered = <<>>
  BY <1>1, TakenInOrder
<1>3. /\ IsState(y) /\ y.sock = x.sock /\ y.tasks = x.tasks /\ y.user = x.user
      /\ y.strm = [x.strm EXCEPT !.buffered = left]
  BY DEF IsState, Take
<1>4. Take(x).data = First(x.strm.buffered, BufLen)
  BY DEF Take
<1>5. left = Rest(x.strm.buffered, BufLen)
  OBVIOUS
<1> HIDE DEF y, left
<1>6. /\ IsQuicStream(y.strm) /\ y.strm.buffered = left
      /\ y.strm.open = x.strm.open /\ y.strm.requested = x.strm.requested
      /\ y.strm.reply = x.strm.reply /\ y.strm.received = x.strm.received
      /\ y.strm.handle = x.strm.handle
  BY <1>2, <1>3 DEF IsQuicStream
<1>7. IsTaken(x, y)
  BY <1>3, <1>5, <1>6 DEF IsTaken
<1> QED BY <1>2, <1>4, <1>5, <1>7 DEF y

LEMMA QuicDataRuns ==
  ASSUME kind = "quic", NEW x, QuicInv(x)
  PROVE  QuicInv(QuicDataTask(x))
<1> DEFINE y == Unhandled(x, "read_body")
           data == First(x.strm.buffered, BufLen)
           w == Take(y).x
           z == Answered(w, "read", "read")
<1>1. CASE ~x.strm.open \/ "read_body" \notin x.strm.handle \/ NothingToRead(x)
  BY <1>1 DEF QuicDataTask
<1>2. CASE ~(~x.strm.open \/ "read_body" \notin x.strm.handle \/ NothingToRead(x))
  <2>1. QuicDataTask(x) = QuicReadDone(w, Take(y).data)
    BY <1>2 DEF QuicDataTask, Unhandled
  <2>2. x.user.phase = "connected"
    BY <1>2, QuicHas DEF QuicPhase
  <2>3. IsUnhandled(x, y, "read_body")
    BY QuicHas, UnhandledIs
  <2> HIDE DEF y
  <2>4. /\ QuicTypes(y.sock, y.strm, y.tasks, y.user)
        /\ QuicReplied(y.sock, y.strm, y.tasks, y.user)
    BY <2>3, UnhandledKeeps
  <2>5. InOrder(y.user.got, y.strm.buffered, y.strm.received) /\ y.user.awaits = y.sock.callbacks
        /\ y.user.stray = {} /\ y.strm.buffered = x.strm.buffered
    BY <2>2, <2>3, QuicHas DEF QuicKept, IsUnhandled
  <2>6. /\ IsTaken(y, w) /\ Take(y).data = data
        /\ y.user.got \o data \in Seq(Nat)
        /\ InOrder(y.user.got \o data, Rest(y.strm.buffered, BufLen), y.strm.received)
    BY <2>3, <2>4, <2>5, TakenIs DEF QuicTypes, IsUnhandled
  <2> HIDE DEF w, data
  <2>7. /\ "read" \in y.sock.callbacks
        /\ y.sock.callbacks \ {"read"} =
             (y.strm.handle \cap {"write"}) \cup
               (IF "read_body" \in y.strm.handle THEN {"read"} ELSE {})
        /\ y.sock.next_state \in {"OPEN", "DISCONNECTED"}
        /\ ~y.sock.use_fastopen => y.strm.reply = "200"
        /\ "read_headers" \in y.strm.handle =>
             y.sock.use_fastopen /\ y.sock.read_headers_pending
    BY <1>2, <2>2, <2>3, QuicHas DEF QuicPhase, IsUnhandled
  <2>8. IsAnswered(w, z, "read") /\ z.user.phase = "connected"
    <3>1. /\ IsState(w) /\ IsSocket(w.sock) /\ IsUser(w.user) /\ "read" \in w.user.awaits
          /\ w.user.phase = "connected"
      BY <2>2, <2>3, <2>4, <2>5, <2>6, <2>7 DEF IsTaken, IsUnhandled, QuicTypes
    <3>2. IsAnswered(w, z, "read") /\ z.user.phase = w.user.phase
      BY <3>1, AnsweredIs
    <3> QED BY <3>1, <3>2
  <2>9. QuicReadDone(w, data) = IF data = <<>> \/ ~w.strm.open THEN Disconnected(z)
                                ELSE ReadData(z, data)
    BY <2>6, <2>7 DEF QuicReadDone, IsTaken, ReadEnds
  <2> HIDE DEF z
  <2>10. QuicTypes(w.sock, w.strm, w.tasks, w.user)
         /\ QuicReplied(w.sock, w.strm, w.tasks, w.user)
    BY <2>4, <2>6 DEF IsTaken, QuicTypes, QuicReplied
  <2>11. QuicTypes(z.sock, z.strm, z.tasks, z.user)
         /\ QuicReplied(z.sock, z.strm, z.tasks, z.user) /\ IsState(z)
    BY <2>8, <2>10 DEF IsAnswered, QuicTypes, QuicReplied
  <2>12. z.user.stray = {} /\ z.user.awaits = z.sock.callbacks
    BY <2>5, <2>6, <2>8 DEF IsAnswered, IsTaken
  <2>13. /\ z.sock.callbacks = (z.strm.handle \cap {"write"}) \cup
               (IF "read_body" \in z.strm.handle THEN {"read"} ELSE {})
         /\ z.sock.next_state \in {"OPEN", "DISCONNECTED"}
         /\ ~z.sock.use_fastopen => z.strm.reply = "200"
         /\ "read_headers" \in z.strm.handle =>
              z.sock.use_fastopen /\ z.sock.read_headers_pending
    BY <2>6, <2>7, <2>8 DEF IsAnswered, IsTaken
  <2>14. CASE data = <<>> \/ ~w.strm.open
    BY <2>1, <2>6, <2>9, <2>11, <2>12, <2>13, <2>14, QuicGone
  <2>15. CASE ~(data = <<>> \/ ~w.strm.open)
    <3>1. QuicPhase(z.sock, z.strm, z.tasks, z.user)
      BY <2>8, <2>13 DEF QuicPhase
    <3>2. z.user.got \o data \in Seq(Nat)
          /\ InOrder(z.user.got \o data, z.strm.buffered, z.strm.received)
      BY <2>6, <2>8 DEF IsAnswered, IsTaken
    <3>3. QuicInv(ReadData(z, data))
      BY <2>8, <2>11, <2>12, <3>1, <3>2, QuicGets
    <3> QED BY <2>1, <2>6, <2>9, <2>15, <3>3
  <2> QED BY <2>14, <2>15
<1> QED BY <1>1, <1>2

\* Read finds data.
LEMMA QuicReadsData ==
  ASSUME NEW x, QuicInv(x), x.user.phase = "connected"
  PROVE  QuicInv(ReadData(Take(x).x, Take(x).data))
<1> DEFINE data == First(x.strm.buffered, BufLen)
           y == Take(x).x
<1>1. InOrder(x.user.got, x.strm.buffered, x.strm.received) /\ x.user.awaits = x.sock.callbacks
      /\ x.user.stray = {}
  BY QuicHas DEF QuicKept
<1>2. /\ IsTaken(x, y) /\ Take(x).data = data /\ x.user.got \o data \in Seq(Nat)
      /\ InOrder(x.user.got \o data, Rest(x.strm.buffered, BufLen), x.strm.received)
  BY <1>1, QuicHas, TakenIs
<1> HIDE DEF y, data
<1>3. QuicTypes(y.sock, y.strm, y.tasks, y.user)
      /\ QuicReplied(y.sock, y.strm, y.tasks, y.user)
  BY <1>2, QuicHas DEF IsTaken, QuicTypes, QuicReplied
<1>4. QuicPhase(y.sock, y.strm, y.tasks, y.user)
  BY <1>2, QuicHas DEF IsTaken, QuicPhase
<1>5. /\ IsState(y) /\ y.user.phase = "connected" /\ y.user.awaits = y.sock.callbacks
      /\ y.user.stray = {} /\ y.user.got \o data \in Seq(Nat)
      /\ InOrder(y.user.got \o data, y.strm.buffered, y.strm.received)
  BY <1>1, <1>2 DEF IsTaken
<1>6. QuicInv(ReadData(y, data))
  BY <1>3, <1>4, <1>5, QuicGets
<1> QED BY <1>2, <1>6 DEF y

\* Read waits.
LEMMA QuicReadWaits ==
  ASSUME NEW x, QuicInv(x), x.user.phase = "connected"
  PROVE  QuicInv(Awaits([x EXCEPT !.strm.handle = @ \cup {"read_body"}], "read"))
<1> DEFINE w == [x EXCEPT !.strm.handle = @ \cup {"read_body"}]
           y == Awaits(w, "read")
<1>1. IsState(x) /\ IsSocket(x.sock) /\ IsQuicStream(x.strm) /\ IsUser(x.user)
  BY QuicHas
<1>2. /\ IsState(w) /\ w.user = x.user /\ w.tasks = x.tasks /\ w.sock = x.sock
      /\ w.strm = [x.strm EXCEPT !.handle = @ \cup {"read_body"}]
  BY <1>1 DEF IsState
<1> HIDE DEF w
<1>3. /\ IsState(y) /\ y.tasks = x.tasks /\ y.strm = w.strm
      /\ y.sock = [x.sock EXCEPT !.callbacks = @ \cup {"read"}]
      /\ y.user = [x.user EXCEPT !.awaits = @ \cup {"read"}]
  BY <1>2 DEF IsState, Awaits
<1> HIDE DEF y
<1>4. /\ IsSocket(y.sock) /\ y.sock.callbacks = x.sock.callbacks \cup {"read"}
      /\ y.sock.next_state = x.sock.next_state /\ y.sock.use_fastopen = x.sock.use_fastopen
      /\ y.sock.read_headers_pending = x.sock.read_headers_pending
  BY <1>1, <1>3 DEF IsSocket
<1>5. /\ IsQuicStream(y.strm) /\ y.strm.handle = x.strm.handle \cup {"read_body"}
      /\ y.strm.requested = x.strm.requested /\ y.strm.reply = x.strm.reply
      /\ y.strm.received = x.strm.received /\ y.strm.buffered = x.strm.buffered
  BY <1>1, <1>2, <1>3 DEF IsQuicStream
<1>6. /\ IsUser(y.user) /\ y.user.phase = "connected" /\ y.user.stray = x.user.stray
      /\ y.user.awaits = x.user.awaits \cup {"read"} /\ y.user.got = x.user.got
  BY <1>1, <1>3 DEF IsUser
<1>7. QuicTypes(y.sock, y.strm, y.tasks, y.user)
      /\ QuicReplied(y.sock, y.strm, y.tasks, y.user)
  BY <1>3, <1>4, <1>5, <1>6, QuicHas DEF QuicTypes, QuicReplied
<1>8. QuicPhase(y.sock, y.strm, y.tasks, y.user)
  BY <1>4, <1>5, <1>6, QuicHas DEF QuicPhase
<1>9. QuicKept(y.sock, y.strm, y.user)
  BY <1>4, <1>5, <1>6, QuicHas DEF QuicKept
<1> QED BY <1>3, <1>7, <1>8, <1>9 DEF QuicInv, QuicGood, y, w

\* Write.
QuicWriteWaits(x) ==
  Awaits([Writing(x) EXCEPT !.strm.handle = @ \cup {"write"}, !.strm.unsent = TRUE], "write")

LEMMA QuicWrites ==
  ASSUME kind = "quic", NEW x, QuicInv(x), x.user.phase = "connected"
  PROVE  /\ QuicInv(WriteDone(Writing(x), "error")) /\ QuicInv(WriteDone(Writing(x), "ok"))
         /\ QuicInv(QuicWriteWaits(x))
<1> DEFINE w == Writing(x)
           v == [w EXCEPT !.strm.handle = @ \cup {"write"}, !.strm.unsent = TRUE]
           y == Awaits(v, "write")
<1>1. IsState(x) /\ IsSocket(x.sock) /\ IsQuicStream(x.strm) /\ IsUser(x.user)
  BY QuicHas
<1>2. /\ IsState(w) /\ w.sock = x.sock /\ w.tasks = x.tasks /\ w.strm = x.strm
      /\ w.user = [x.user EXCEPT !.writes = @ + 1]
  BY <1>1 DEF IsState, Writing
<1> HIDE DEF w
<1>3. /\ IsUser(w.user) /\ w.user.phase = "connected" /\ w.user.awaits = x.user.awaits
      /\ w.user.got = x.user.got /\ w.user.stray = x.user.stray
  BY <1>1, <1>2 DEF IsUser
<1>4. QuicTypes(w.sock, w.strm, w.tasks, w.user)
      /\ QuicReplied(w.sock, w.strm, w.tasks, w.user)
  BY <1>2, <1>3, QuicHas DEF QuicTypes, QuicReplied
<1>5. QuicPhase(w.sock, w.strm, w.tasks, w.user) /\ QuicKept(w.sock, w.strm, w.user)
  BY <1>2, <1>3, QuicHas DEF QuicPhase, QuicKept
<1>6. QuicInv(w)
  BY <1>2, <1>4, <1>5 DEF QuicInv, QuicGood
<1>7. QuicInv(Disconnected(w))
  BY <1>2, <1>3, <1>4, <1>5, QuicGone DEF QuicPhase, QuicKept
<1>8. WriteDone(w, "ok") = w /\ WriteDone(w, "error") = Disconnected(w)
  BY <1>3 DEF WriteDone
<1>9. QuicInv(y)
  <2>1. /\ IsState(v) /\ v.sock = x.sock /\ v.tasks = x.tasks /\ v.user = w.user
        /\ v.strm = [x.strm EXCEPT !.handle = @ \cup {"write"}, !.unsent = TRUE]
    BY <1>2 DEF IsState
  <2> HIDE DEF v
  <2>2. /\ IsState(y) /\ y.tasks = x.tasks /\ y.strm = v.strm
        /\ y.sock = [x.sock EXCEPT !.callbacks = @ \cup {"write"}]
        /\ y.user = [w.user EXCEPT !.awaits = @ \cup {"write"}]
    BY <2>1 DEF IsState, Awaits
  <2> HIDE DEF y
  <2>3. /\ IsSocket(y.sock) /\ y.sock.callbacks = x.sock.callbacks \cup {"write"}
        /\ y.sock.next_state = x.sock.next_state /\ y.sock.use_fastopen = x.sock.use_fastopen
        /\ y.sock.read_headers_pending = x.sock.read_headers_pending
    BY <1>1, <2>2 DEF IsSocket
  <2>4. /\ IsQuicStream(y.strm) /\ y.strm.handle = x.strm.handle \cup {"write"}
        /\ y.strm.requested = x.strm.requested /\ y.strm.reply = x.strm.reply
        /\ y.strm.received = x.strm.received /\ y.strm.buffered = x.strm.buffered
    BY <1>1, <2>1, <2>2 DEF IsQuicStream
  <2>5. /\ IsUser(y.user) /\ y.user.phase = "connected" /\ y.user.stray = x.user.stray
        /\ y.user.awaits = x.user.awaits \cup {"write"} /\ y.user.got = x.user.got
    BY <1>3, <2>2 DEF IsUser
  <2>6. QuicTypes(y.sock, y.strm, y.tasks, y.user)
        /\ QuicReplied(y.sock, y.strm, y.tasks, y.user)
    BY <2>2, <2>3, <2>4, <2>5, QuicHas DEF QuicTypes, QuicReplied
  <2>7. QuicPhase(y.sock, y.strm, y.tasks, y.user)
    BY <2>3, <2>4, <2>5, QuicHas DEF QuicPhase
  <2>8. QuicKept(y.sock, y.strm, y.user)
    BY <2>3, <2>4, <2>5, QuicHas DEF QuicKept
  <2> QED BY <2>2, <2>6, <2>7, <2>8 DEF QuicInv, QuicGood
<1> QED BY <1>6, <1>7, <1>8, <1>9 DEF QuicWriteWaits, y, v, w

\* A tunnel whose request is still to be sent.
QuicStarts(x) ==
  /\ IsState(x) /\ QuicTypes(x.sock, x.strm, x.tasks, x.user)
  /\ QuicReplied(x.sock, x.strm, x.tasks, x.user) /\ QuicKept(x.sock, x.strm, x.user)
  /\ x.user.phase = "connecting" /\ x.sock.callbacks = {"connect"}
  /\ x.strm.handle = {} /\ ~x.strm.requested /\ ~x.sock.read_headers_pending

\* y is x with another next_state.
IsStateSet(x, y, state) ==
  /\ IsState(y) /\ y.strm = x.strm /\ y.tasks = x.tasks /\ y.user = x.user
  /\ IsSocket(y.sock) /\ y.sock.next_state = state /\ y.sock.callbacks = x.sock.callbacks
  /\ y.sock.use_fastopen = x.sock.use_fastopen
  /\ y.sock.read_headers_pending = x.sock.read_headers_pending

LEMMA StateSetIs ==
  ASSUME NEW x, IsState(x), IsSocket(x.sock), NEW state
  PROVE  IsStateSet(x, SetState(x, state), state)
<1> DEFINE y == SetState(x, state)
<1>1. /\ IsState(y) /\ y.tasks = x.tasks /\ y.user = x.user /\ y.strm = x.strm
      /\ y.sock = [x.sock EXCEPT !.next_state = state]
  BY DEF SetState, IsState
<1> HIDE DEF y
<1>2. /\ IsSocket(y.sock) /\ y.sock.next_state = state /\ y.sock.callbacks = x.sock.callbacks
      /\ y.sock.use_fastopen = x.sock.use_fastopen
      /\ y.sock.read_headers_pending = x.sock.read_headers_pending
  BY <1>1 DEF IsSocket
<1> QED BY <1>1, <1>2 DEF IsStateSet, y

LEMMA QuicProceeds ==
  ASSUME kind = "quic", NEW x, QuicStarts(x)
  PROVE  /\ QuicInv(SetState(x, "GENERATE_AUTH_TOKEN_COMPLETE"))
         /\ QuicInv(ConnectDone(x, "error"))
         /\ QuicInv(ConnectDone(SetState(x, "DISCONNECTED"), "error"))
<1>1. "connect" \in x.user.awaits /\ x.user.stray = {}
  BY DEF QuicStarts, QuicKept
<1>2. QuicInv(ConnectDone(x, "error"))
  BY <1>1, QuicConnectFails DEF QuicStarts
<1>3. QuicInv(SetState(x, "GENERATE_AUTH_TOKEN_COMPLETE"))
  <2> DEFINE y == SetState(x, "GENERATE_AUTH_TOKEN_COMPLETE")
  <2>1. IsStateSet(x, y, "GENERATE_AUTH_TOKEN_COMPLETE")
    BY StateSetIs DEF QuicStarts, QuicTypes
  <2> HIDE DEF y
  <2>2. QuicTypes(y.sock, y.strm, y.tasks, y.user)
        /\ QuicReplied(y.sock, y.strm, y.tasks, y.user) /\ QuicKept(y.sock, y.strm, y.user)
    BY <2>1 DEF QuicStarts, IsStateSet, QuicTypes, QuicReplied, QuicKept
  <2>3. QuicPhase(y.sock, y.strm, y.tasks, y.user)
    BY <2>1 DEF QuicStarts, IsStateSet, QuicPhase
  <2> QED BY <2>1, <2>2, <2>3 DEF QuicInv, QuicGood, IsStateSet, y
<1>4. QuicInv(ConnectDone(SetState(x, "DISCONNECTED"), "error"))
  <2> DEFINE y == SetState(x, "DISCONNECTED")
  <2>1. IsStateSet(x, y, "DISCONNECTED")
    BY StateSetIs DEF QuicStarts, QuicTypes
  <2> HIDE DEF y
  <2>2. /\ QuicTypes(y.sock, y.strm, y.tasks, y.user) /\ IsState(y)
        /\ QuicReplied(y.sock, y.strm, y.tasks, y.user)
        /\ "connect" \in y.user.awaits /\ y.user.stray = {}
    BY <1>1, <2>1 DEF QuicStarts, IsStateSet, QuicTypes, QuicReplied
  <2>3. QuicInv(ConnectDone(y, "error"))
    BY <2>2, QuicConnectFails
  <2> QED BY <2>3 DEF y
<1> QED BY <1>2, <1>3, <1>4

LEMMA QuicRequests ==
  ASSUME kind = "quic", NEW x, QuicStarts(x), NEW fastopen \in BOOLEAN
  PROVE  QuicInv(QuicSendRequest(x, fastopen))
<1> DEFINE y == [x EXCEPT !.sock.use_fastopen = fastopen, !.strm.requested = TRUE]
           z == [y EXCEPT !.strm.handle = @ \cup {"read_headers"}]
           o == SetState(z, "OPEN")
           v == [o EXCEPT !.sock.read_headers_pending = TRUE]
           d == ConnectDone(v, "ok")
           e == SetState(z, "READ_REPLY_COMPLETE")
           c == SetState(y, "DISCONNECTED")
<1>1. QuicSendRequest(x, fastopen) =
        IF ~x.strm.open THEN ConnectDone(c, "error") ELSE IF fastopen THEN d ELSE e
  BY DEF QuicSendRequest
<1>2. /\ IsState(x) /\ IsSocket(x.sock) /\ IsQuicStream(x.strm) /\ IsUser(x.user)
      /\ x.tasks \in Seq(QuicTasks)
      /\ x.user.awaits = {"connect"} /\ x.user.got = <<>> /\ x.user.stray = {}
      /\ InOrder(x.user.got, x.strm.buffered, x.strm.received) /\ x.strm.reply = "none"
      /\ NoHeaders(x.tasks)
  BY DEF QuicStarts, QuicTypes, QuicKept, QuicReplied
<1>3. /\ IsState(y) /\ y.tasks = x.tasks /\ y.user = x.user
      /\ y.sock = [x.sock EXCEPT !.use_fastopen = fastopen]
      /\ y.strm = [x.strm EXCEPT !.requested = TRUE]
  BY <1>2 DEF IsState
<1> HIDE DEF y
<1>4. /\ IsSocket(y.sock) /\ y.sock.use_fastopen = fastopen /\ y.sock.callbacks = {"connect"}
      /\ ~y.sock.read_headers_pending
  BY <1>2, <1>3 DEF IsSocket, QuicStarts
<1>5. /\ IsQuicStream(y.strm) /\ y.strm.requested /\ y.strm.handle = {}
      /\ y.strm.reply = "none" /\ y.strm.received = x.strm.received
      /\ y.strm.buffered = x.strm.buffered
  BY <1>2, <1>3 DEF IsQuicStream, QuicStarts
<1>6. CASE ~x.strm.open
  <2>1. IsStateSet(y, c, "DISCONNECTED")
    BY <1>3, <1>4, StateSetIs
  <2> HIDE DEF c
  <2>2. /\ IsState(c) /\ c.tasks = x.tasks /\ c.user = x.user /\ IsSocket(c.sock)
        /\ c.strm = y.strm
    BY <1>3, <2>1 DEF IsStateSet
  <2>3. QuicTypes(c.sock, c.strm, c.tasks, c.user)
        /\ QuicReplied(c.sock, c.strm, c.tasks, c.user)
    BY <1>2, <1>5, <2>2 DEF QuicTypes, QuicReplied
  <2>4. QuicInv(ConnectDone(c, "error"))
    BY <1>2, <2>2, <2>3, QuicConnectFails
  <2> QED BY <1>1, <1>6, <2>4 DEF c
<1>7. CASE x.strm.open
  <2>1. /\ IsState(z) /\ z.tasks = x.tasks /\ z.user = x.user /\ z.sock = y.sock
        /\ z.strm = [y.strm EXCEPT !.handle = @ \cup {"read_headers"}]
    BY <1>3 DEF IsState
  <2> HIDE DEF z
  <2>2. /\ IsQuicStream(z.strm) /\ z.strm.requested /\ z.strm.handle = {"read_headers"}
        /\ z.strm.reply = "none" /\ z.strm.received = x.strm.received
        /\ z.strm.buffered = x.strm.buffered
    BY <1>5, <2>1 DEF IsQuicStream
  <2>3. CASE fastopen
    <3>1. IsStateSet(z, o, "OPEN")
      BY <1>4, <2>1, StateSetIs
    <3> HIDE DEF o
    <3>2. /\ IsState(o) /\ o.tasks = x.tasks /\ o.user = x.user /\ o.strm = z.strm
          /\ IsSocket(o.sock) /\ o.sock.next_state = "OPEN" /\ o.sock.callbacks = {"connect"}
          /\ o.sock.use_fastopen
      BY <1>4, <2>1, <2>3, <3>1 DEF IsStateSet
    <3>3. /\ IsState(v) /\ v.tasks = x.tasks /\ v.user = x.user /\ v.strm = z.strm
          /\ v.sock = [o.sock EXCEPT !.read_headers_pending = TRUE]
      BY <3>2 DEF IsState
    <3> HIDE DEF v
    <3>4. /\ IsSocket(v.sock) /\ v.sock.next_state = "OPEN" /\ v.sock.callbacks = {"connect"}
          /\ v.sock.use_fastopen /\ v.sock.read_headers_pending
      BY <3>2, <3>3 DEF IsSocket
    <3>5. IsAnswered(v, d, "connect") /\ d.user.phase = "connected"
      BY <1>2, <3>3, <3>4, ConnectDoneIs
    <3> HIDE DEF d
    <3>6. /\ IsState(d) /\ d.strm = z.strm /\ d.tasks = x.tasks /\ d.sock.callbacks = {}
          /\ d.sock.next_state = "OPEN" /\ IsSocket(d.sock) /\ IsUser(d.user)
          /\ d.sock.use_fastopen /\ d.sock.read_headers_pending
          /\ d.user.awaits = {} /\ d.user.got = <<>> /\ d.user.stray = {}
      BY <1>2, <3>3, <3>4, <3>5 DEF IsAnswered
    <3>7. QuicTypes(d.sock, d.strm, d.tasks, d.user)
          /\ QuicReplied(d.sock, d.strm, d.tasks, d.user)
      BY <1>2, <2>2, <3>6 DEF QuicTypes, QuicReplied
    <3>8. QuicPhase(d.sock, d.strm, d.tasks, d.user)
      BY <2>2, <3>5, <3>6 DEF QuicPhase
    <3>9. QuicKept(d.sock, d.strm, d.user)
      <4>1. InOrder(d.user.got, d.strm.buffered, d.strm.received)
        BY <1>2, <2>2, <3>6
      <4> QED BY <3>6, <4>1 DEF QuicKept
    <3> QED BY <1>1, <1>7, <2>3, <3>6, <3>7, <3>8, <3>9 DEF QuicInv, QuicGood, d, v, o, z
  <2>4. CASE ~fastopen
    <3>1. IsStateSet(z, e, "READ_REPLY_COMPLETE")
      BY <1>4, <2>1, StateSetIs
    <3>2. QuicSendRequest(x, fastopen) = e
      BY <1>1, <1>7, <2>4
    <3> HIDE DEF e
    <3>3. /\ IsState(e) /\ e.tasks = x.tasks /\ e.user = x.user /\ e.strm = z.strm
          /\ IsSocket(e.sock) /\ e.sock.next_state = "READ_REPLY_COMPLETE"
          /\ e.sock.callbacks = {"connect"} /\ ~e.sock.use_fastopen
          /\ ~e.sock.read_headers_pending
      BY <1>4, <2>1, <2>4, <3>1 DEF IsStateSet
    <3>4. QuicTypes(e.sock, e.strm, e.tasks, e.user)
          /\ QuicReplied(e.sock, e.strm, e.tasks, e.user)
      BY <1>2, <2>2, <3>3 DEF QuicTypes, QuicReplied
    <3>5. QuicPhase(e.sock, e.strm, e.tasks, e.user)
      <4>1. e.user.phase = "connecting"
        BY <3>3 DEF QuicStarts
      <4> QED BY <2>2, <3>3, <4>1 DEF QuicPhase
    <3>6. QuicKept(e.sock, e.strm, e.user)
      <4>1. InOrder(e.user.got, e.strm.buffered, e.strm.received)
        BY <1>2, <2>2, <3>3
      <4> QED BY <1>2, <3>3, <4>1 DEF QuicKept
    <3> QED BY <3>2, <3>3, <3>4, <3>5, <3>6 DEF QuicInv, QuicGood
  <2> QED BY <2>3, <2>4
<1> QED BY <1>6, <1>7

\* A task is posted.
LEMMA QuicPosts ==
  ASSUME NEW x, QuicInv(x), x.user.phase # "destroyed", NEW task \in QuicTasks,
         task = "headers" => x.strm.reply # "none"
  PROVE  QuicInv(Post(x, task))
<1> DEFINE y == Post(x, task)
<1>1. IsState(y) /\ y.sock = x.sock /\ y.strm = x.strm /\ y.user = x.user
      /\ y.tasks = Append(x.tasks, task)
  BY QuicHas DEF IsState, Post
<1>2. y.tasks \in Seq(QuicTasks)
      /\ (NoHeaders(x.tasks) /\ task # "headers" => NoHeaders(y.tasks))
  BY <1>1, QuicHas, PostedTask
<1> HIDE DEF y
<1>3. QuicTypes(y.sock, y.strm, y.tasks, y.user) /\ QuicKept(y.sock, y.strm, y.user)
  BY <1>1, <1>2, QuicHas DEF QuicTypes
<1>4. QuicReplied(y.sock, y.strm, y.tasks, y.user)
  BY <1>1, <1>2, QuicHas DEF QuicReplied
<1>5. QuicPhase(y.sock, y.strm, y.tasks, y.user)
  BY <1>1, QuicHas DEF QuicPhase
<1> QED BY <1>1, <1>3, <1>4, <1>5 DEF QuicInv, QuicGood, y

\* The reply comes.
LEMMA QuicReplyComes ==
  ASSUME NEW x, QuicInv(x), x.strm.open, x.strm.requested, x.strm.reply = "none",
         NEW reply \in Replies
  PROVE  QuicInv(Post([x EXCEPT !.strm.reply = reply], "headers"))
<1> DEFINE y == [x EXCEPT !.strm.reply = reply]
<1>1. IsState(x) /\ IsQuicStream(x.strm)
  BY QuicHas
<1>2. /\ IsState(y) /\ y.tasks = x.tasks /\ y.user = x.user /\ y.sock = x.sock
      /\ y.strm = [x.strm EXCEPT !.reply = reply]
  BY <1>1 DEF IsState
<1> HIDE DEF y
<1>3. /\ IsQuicStream(y.strm) /\ y.strm.requested /\ y.strm.handle = x.strm.handle
      /\ y.strm.reply = reply /\ y.strm.received = x.strm.received /\ y.strm.open
      /\ y.strm.buffered = x.strm.buffered
  BY <1>1, <1>2 DEF IsQuicStream
<1>4. QuicTypes(y.sock, y.strm, y.tasks, y.user) /\ QuicKept(y.sock, y.strm, y.user)
  BY <1>2, <1>3, QuicHas DEF QuicTypes, QuicKept
<1>5. QuicReplied(y.sock, y.strm, y.tasks, y.user)
  BY <1>2, <1>3, QuicHas DEF QuicReplied
<1>6. QuicPhase(y.sock, y.strm, y.tasks, y.user) /\ y.user.phase # "destroyed"
  BY <1>2, <1>3, QuicHas DEF QuicPhase
<1>7. QuicInv(y)
  BY <1>2, <1>4, <1>5, <1>6 DEF QuicInv, QuicGood
<1>8. "headers" \in QuicTasks
  BY DEF QuicTasks
<1> QED BY <1>3, <1>6, <1>7, <1>8, QuicPosts DEF y

\* Body is announced.
LEMMA QuicBodyTold ==
  ASSUME NEW x, QuicInv(x), x.user.phase # "destroyed"
  PROVE  QuicInv(QuicBodyAvailable(x))
<1>1. "data" \in QuicTasks
  BY DEF QuicTasks
<1> QED BY <1>1, QuicPosts DEF QuicBodyAvailable

\* Data comes.
QuicMore(x, n) ==
  [x EXCEPT !.strm.received = @ + n,
            !.strm.buffered = @ \o [i \in 1..n |-> x.strm.received + i]]

LEMMA QuicDataArrives ==
  ASSUME NEW x, QuicInv(x), x.strm.open, NEW n \in Nat \ {0}
  PROVE  QuicInv(QuicBodyAvailable(QuicMore(x, n))) /\ QuicInv(QuicMore(x, n))
<1> DEFINE more == x.strm.buffered \o [i \in 1..n |-> x.strm.received + i]
           y == QuicMore(x, n)
<1>1. x.user.phase \notin {"disconnected", "destroyed"}
  BY QuicHas DEF QuicPhase
<1>2. /\ IsState(x) /\ IsQuicStream(x.strm) /\ x.user.got \in Seq(Nat)
      /\ x.strm.buffered \in Seq(Nat) /\ x.strm.received \in Nat
      /\ InOrder(x.user.got, x.strm.buffered, x.strm.received)
  BY <1>1, QuicHas DEF QuicKept, IsUser, IsQuicStream
<1>3. /\ more \in Seq(Nat) /\ InOrder(x.user.got, more, x.strm.received + n)
      /\ x.strm.received + n \in Nat
  <2>1. more \in Seq(Nat) /\ InOrder(x.user.got, more, x.strm.received + n)
    BY <1>2, ReceivedInOrder
  <2> QED BY <1>2, <2>1
<1>4. /\ IsState(y) /\ y.sock = x.sock /\ y.tasks = x.tasks /\ y.user = x.user
      /\ y.strm = [x.strm EXCEPT !.received = x.strm.received + n, !.buffered = more]
  BY <1>2 DEF IsState, QuicMore
<1> HIDE DEF y, more
<1>5. /\ IsQuicStream(y.strm) /\ y.strm.requested = x.strm.requested
      /\ y.strm.handle = x.strm.handle /\ y.strm.reply = x.strm.reply
      /\ y.strm.open = x.strm.open
      /\ y.strm.received = x.strm.received + n /\ y.strm.buffered = more
  BY <1>2, <1>3, <1>4 DEF IsQuicStream
<1>6. QuicTypes(y.sock, y.strm, y.tasks, y.user)
      /\ QuicReplied(y.sock, y.strm, y.tasks, y.user)
  BY <1>4, <1>5, QuicHas DEF QuicTypes, QuicReplied
<1>7. QuicPhase(y.sock, y.strm, y.tasks, y.user)
  BY <1>4, <1>5, QuicHas DEF QuicPhase
<1>8. QuicKept(y.sock, y.strm, y.user)
  BY <1>3, <1>4, <1>5, QuicHas DEF QuicKept
<1>9. QuicInv(y)
  BY <1>4, <1>6, <1>7, <1>8 DEF QuicInv, QuicGood
<1> QED BY <1>1, <1>4, <1>9, QuicBodyTold DEF y

\* The end of the stream comes.
QuicEnded(x) == [x EXCEPT !.strm.fin = TRUE]

LEMMA QuicEnds ==
  ASSUME NEW x, QuicInv(x), x.strm.open
  PROVE  QuicInv(QuicBodyAvailable(QuicEnded(x))) /\ QuicInv(QuicEnded(x))
<1> DEFINE y == QuicEnded(x)
<1>1. IsState(x) /\ IsQuicStream(x.strm) /\ x.user.phase # "destroyed"
  BY QuicHas DEF QuicPhase
<1>2. /\ IsState(y) /\ y.sock = x.sock /\ y.tasks = x.tasks /\ y.user = x.user
      /\ y.strm = [x.strm EXCEPT !.fin = TRUE]
  BY <1>1 DEF IsState, QuicEnded
<1> HIDE DEF y
<1>3. /\ IsQuicStream(y.strm) /\ y.strm.requested = x.strm.requested
      /\ y.strm.handle = x.strm.handle /\ y.strm.reply = x.strm.reply
      /\ y.strm.open = x.strm.open
      /\ y.strm.received = x.strm.received /\ y.strm.buffered = x.strm.buffered
  BY <1>1, <1>2 DEF IsQuicStream
<1>4. QuicTypes(y.sock, y.strm, y.tasks, y.user)
      /\ QuicReplied(y.sock, y.strm, y.tasks, y.user)
  BY <1>2, <1>3, QuicHas DEF QuicTypes, QuicReplied
<1>5. QuicPhase(y.sock, y.strm, y.tasks, y.user) /\ QuicKept(y.sock, y.strm, y.user)
  BY <1>2, <1>3, QuicHas DEF QuicPhase, QuicKept
<1>6. QuicInv(y)
  BY <1>2, <1>4, <1>5 DEF QuicInv, QuicGood
<1> QED BY <1>1, <1>2, <1>6, QuicBodyTold DEF y

\* Trailers come, and their task runs.
QuicTrailed(x) == [x EXCEPT !.strm.trailers = TRUE]

LEMMA QuicTrailersCome ==
  ASSUME NEW x, QuicInv(x), x.strm.open
  PROVE  QuicInv(Post(QuicTrailed(x), "trailers"))
<1> DEFINE y == QuicTrailed(x)
<1>1. IsState(x) /\ IsQuicStream(x.strm) /\ x.user.phase # "destroyed"
  BY QuicHas DEF QuicPhase
<1>2. /\ IsState(y) /\ y.sock = x.sock /\ y.tasks = x.tasks /\ y.user = x.user
      /\ y.strm = [x.strm EXCEPT !.trailers = TRUE]
  BY <1>1 DEF IsState, QuicTrailed
<1> HIDE DEF y
<1>3. /\ IsQuicStream(y.strm) /\ y.strm.requested = x.strm.requested
      /\ y.strm.handle = x.strm.handle /\ y.strm.reply = x.strm.reply
      /\ y.strm.open = x.strm.open
      /\ y.strm.received = x.strm.received /\ y.strm.buffered = x.strm.buffered
  BY <1>1, <1>2 DEF IsQuicStream
<1>4. QuicTypes(y.sock, y.strm, y.tasks, y.user)
      /\ QuicReplied(y.sock, y.strm, y.tasks, y.user)
  BY <1>2, <1>3, QuicHas DEF QuicTypes, QuicReplied
<1>5. QuicPhase(y.sock, y.strm, y.tasks, y.user) /\ QuicKept(y.sock, y.strm, y.user)
  BY <1>2, <1>3, QuicHas DEF QuicPhase, QuicKept
<1>6. QuicInv(y)
  BY <1>2, <1>4, <1>5 DEF QuicInv, QuicGood
<1>7. "trailers" \in QuicTasks
  BY DEF QuicTasks
<1> QED BY <1>1, <1>2, <1>6, <1>7, QuicPosts DEF y

LEMMA QuicTrailersAre ==
  ASSUME NEW x, x.strm.open => x.strm.delivered /\ "read_headers" \notin x.strm.handle
  PROVE  QuicTrailersTask(x) = IF x.strm.open THEN Post(x, "data") ELSE x
BY DEF QuicTrailersTask, Checks

LEMMA QuicTrailersRun ==
  ASSUME NEW x, QuicInv(x), x.user.phase # "destroyed",
         x.strm.open => x.strm.delivered /\ "read_headers" \notin x.strm.handle
  PROVE  QuicInv(QuicTrailersTask(x))
<1>1. "data" \in QuicTasks
  BY DEF QuicTasks
<1> QED BY <1>1, QuicTrailersAre, QuicPosts

\* The stream is reset.
LEMMA QuicResets ==
  ASSUME NEW x, QuicInv(x), x.strm.open
  PROVE  QuicInv(QuicStreamCloses(x))
<1> DEFINE y == QuicStreamCloses(x)
<1>1. IsClosed(x, y)
  BY QuicHas, QuicStreamClosed
<1>2. x.user.phase \notin {"disconnected", "destroyed"}
  BY QuicHas DEF QuicPhase
<1> HIDE DEF y
<1>3. QuicTypes(y.sock, y.strm, y.tasks, y.user)
      /\ QuicReplied(y.sock, y.strm, y.tasks, y.user)
  BY <1>1, QuicHas DEF QuicTypes, QuicReplied, IsClosed
<1>4. QuicPhase(y.sock, y.strm, y.tasks, y.user) /\ QuicKept(y.sock, y.strm, y.user)
  BY <1>1, <1>2, QuicHas DEF QuicPhase, QuicKept, IsClosed
<1> QED BY <1>1, <1>3, <1>4 DEF QuicInv, QuicGood, IsClosed, y

\* What the stream kept is sent.
QuicSent(x) == [x EXCEPT !.strm.unsent = FALSE, !.strm.handle = @ \ {"write"}]

LEMMA QuicSends ==
  ASSUME kind = "quic", NEW x, QuicInv(x), x.strm.open
  PROVE  QuicInv(IF "write" \in x.strm.handle THEN QuicWriteDone(QuicSent(x), "ok")
                 ELSE QuicSent(x))
<1> DEFINE y == QuicSent(x)
<1>1. IsState(x) /\ IsQuicStream(x.strm)
  BY QuicHas
<1>2. /\ IsState(y) /\ y.sock = x.sock /\ y.tasks = x.tasks /\ y.user = x.user
      /\ y.strm = [x.strm EXCEPT !.unsent = FALSE, !.handle = @ \ {"write"}]
  BY <1>1 DEF IsState, QuicSent
<1> HIDE DEF y
<1>3. /\ IsQuicStream(y.strm) /\ y.strm.handle = x.strm.handle \ {"write"}
      /\ y.strm.open = x.strm.open /\ y.strm.requested = x.strm.requested
      /\ y.strm.reply = x.strm.reply /\ y.strm.received = x.strm.received
      /\ y.strm.buffered = x.strm.buffered /\ y.strm.fin = x.strm.fin
  BY <1>1, <1>2 DEF IsQuicStream
<1>4. IsUnhandled(x, y, "write")
  BY <1>2, <1>3 DEF IsUnhandled
<1>5. CASE "write" \in x.strm.handle
  <2>1. x.user.phase = "connected"
    BY <1>5, QuicHas DEF QuicPhase
  <2>2. QuicInv(QuicWriteDone(y, "ok"))
    BY <1>4, <1>5, <2>1, QuicWriteEnds
  <2> QED BY <1>5, <2>2 DEF y
<1>6. CASE "write" \notin x.strm.handle
  <2>1. /\ QuicTypes(y.sock, y.strm, y.tasks, y.user)
        /\ QuicReplied(y.sock, y.strm, y.tasks, y.user) /\ QuicKept(y.sock, y.strm, y.user)
    BY <1>4, UnhandledKeeps
  <2>2. y.strm.handle = x.strm.handle
    BY <1>3, <1>6
  <2>3. QuicPhase(y.sock, y.strm, y.tasks, y.user)
    BY <1>2, <1>3, <2>2, QuicHas DEF QuicPhase
  <2>4. QuicInv(y)
    BY <1>2, <2>1, <2>3 DEF QuicInv, QuicGood
  <2> QED BY <1>6, <2>4 DEF y
<1> QED BY <1>5, <1>6

LEMMA QuicRestarts ==
  ASSUME NEW x, QuicInv(x), x.user.phase = "challenged"
  PROVE  QuicInv(SetState(x, "DISCONNECTED"))
<1> DEFINE y == SetState(x, "DISCONNECTED")
<1>1. IsStateSet(x, y, "DISCONNECTED")
  BY QuicHas, StateSetIs
<1> HIDE DEF y
<1>2. QuicTypes(y.sock, y.strm, y.tasks, y.user)
      /\ QuicReplied(y.sock, y.strm, y.tasks, y.user) /\ QuicKept(y.sock, y.strm, y.user)
  BY <1>1, QuicHas DEF IsStateSet, QuicTypes, QuicReplied, QuicKept
<1>3. QuicPhase(y.sock, y.strm, y.tasks, y.user)
  BY <1>1, QuicHas DEF IsStateSet, QuicPhase
<1> QED BY <1>1, <1>2, <1>3 DEF QuicInv, QuicGood, IsStateSet, y

-----------------------------------------------------------------------------
\* The steps over HTTP/3.

LEMMA QuicBecomes ==
  ASSUME kind = "quic", NEW y, QuicInv(y), Become(y)
  PROVE  kind' = "quic" /\ QuicInv(Now')
<1>1. sock' = y.sock /\ strm' = y.strm /\ tasks' = y.tasks /\ user' = y.user /\ kind' = "quic"
  BY DEF Become
<1>2. QuicGood(sock', strm', tasks', user')
  BY <1>1 DEF QuicInv
<1>3. QuicInv([sock |-> sock', strm |-> strm', tasks |-> tasks', user |-> user'])
  BY <1>2 DEF QuicInv, IsState
<1>4. QuicInv(Now')
  BY <1>3 DEF Now
<1> QED BY <1>1, <1>4

LEMMA QuicNextKeeps ==
  ASSUME Inv, QuicNext
  PROVE  kind' = "quic" /\ QuicInv(Now')
<1>1. kind = "quic"
  BY DEF QuicNext, QuicConnect, QuicAuthDone, QuicHeaders, QuicData, QuicReceiving, QuicFin,
         QuicTrailers, QuicReset, QuicCanWrite, QuicTask, QuicRead, QuicWrite
<1>2. PICK x : x = Now
  OBVIOUS
<1>3. /\ QuicInv(x) /\ x.sock = sock /\ x.strm = strm /\ x.tasks = tasks /\ x.user = user
      /\ Delivery(x)
  BY <1>1, <1>2 DEF Inv, Now
<1>4. CASE QuicConnect
  <2> DEFINE w == [x EXCEPT !.user.phase = "connecting"]
             y == Awaits(w, "connect")
  <2>1. \/ Become(SetState(y, "GENERATE_AUTH_TOKEN_COMPLETE"))
        \/ \E fastopen \in BOOLEAN : Become(QuicSendRequest(y, fastopen))
        \/ Become(ConnectDone(y, "error"))
    BY <1>2, <1>4 DEF QuicConnect
  <2>2. x.user.phase = "new"
    BY <1>3, <1>4 DEF QuicConnect, CanConnect
  <2>3. IsState(x) /\ IsSocket(x.sock) /\ IsUser(x.user)
    BY <1>3, QuicHas
  <2>4. /\ IsState(w) /\ w.sock = x.sock /\ w.strm = x.strm /\ w.tasks = x.tasks
        /\ w.user = [x.user EXCEPT !.phase = "connecting"]
    BY <2>3 DEF IsState
  <2> HIDE DEF w
  <2>5. /\ IsState(y) /\ y.strm = x.strm /\ y.tasks = x.tasks
        /\ y.sock = [x.sock EXCEPT !.callbacks = @ \cup {"connect"}]
        /\ y.user = [w.user EXCEPT !.awaits = @ \cup {"connect"}]
    BY <2>4 DEF IsState, Awaits
  <2> HIDE DEF y
  <2>6. /\ x.sock.callbacks = {} /\ ~x.sock.read_headers_pending /\ x.strm.handle = {}
        /\ ~x.strm.requested
    BY <1>3, <2>2, QuicHas DEF QuicPhase
  <2>7. /\ x.user.awaits = {} /\ x.user.got = <<>> /\ x.user.stray = {}
        /\ InOrder(x.user.got, x.strm.buffered, x.strm.received)
    BY <1>3, <2>2, <2>6, QuicHas DEF QuicKept
  <2>8. /\ IsSocket(y.sock) /\ y.sock.callbacks = {"connect"}
        /\ ~y.sock.read_headers_pending /\ y.sock.use_fastopen = x.sock.use_fastopen
    BY <2>3, <2>5, <2>6 DEF IsSocket
  <2>9. IsUser(w.user) /\ w.user.phase = "connecting" /\ w.user.awaits = {}
        /\ w.user.got = <<>> /\ w.user.stray = {}
    BY <2>3, <2>4, <2>7 DEF IsUser
  <2>10. /\ IsUser(y.user) /\ y.user.phase = "connecting" /\ y.user.awaits = {"connect"}
         /\ y.user.got = <<>> /\ y.user.stray = {}
    BY <2>5, <2>9 DEF IsUser
  <2>11. QuicTypes(y.sock, y.strm, y.tasks, y.user)
         /\ QuicReplied(y.sock, y.strm, y.tasks, y.user)
    BY <1>3, <2>5, <2>8, <2>10, QuicHas DEF QuicTypes, QuicReplied
  <2>12. QuicKept(y.sock, y.strm, y.user)
    <3>1. InOrder(y.user.got, y.strm.buffered, y.strm.received)
      BY <2>5, <2>7, <2>10
    <3> QED BY <2>8, <2>10, <3>1 DEF QuicKept
  <2>13. QuicStarts(y)
    BY <2>5, <2>6, <2>8, <2>10, <2>11, <2>12 DEF QuicStarts
  <2> QED BY <1>1, <2>1, <2>13, QuicProceeds, QuicRequests, QuicBecomes
<1>5. CASE QuicAuthDone
  <2>1. \/ \E fastopen \in BOOLEAN : Become(QuicSendRequest(x, fastopen))
        \/ Become(ConnectDone(SetState(x, "DISCONNECTED"), "error"))
    BY <1>2, <1>5 DEF QuicAuthDone
  <2>2. x.user.phase = "connecting" /\ x.sock.next_state = "GENERATE_AUTH_TOKEN_COMPLETE"
    BY <1>3, <1>5, QuicHas DEF QuicAuthDone, QuicPhase
  <2>3. QuicStarts(x)
    BY <1>3, <2>2, QuicHas DEF QuicStarts, QuicPhase
  <2> QED BY <1>1, <2>1, <2>3, QuicProceeds, QuicRequests, QuicBecomes
<1>6. ASSUME NEW reply \in Replies, QuicHeaders(reply) PROVE kind' = "quic" /\ QuicInv(Now')
  <2>1. /\ Become(Post([x EXCEPT !.strm.reply = reply], "headers")) /\ x.strm.open
        /\ x.strm.requested /\ x.strm.reply = "none"
    BY <1>2, <1>3, <1>6 DEF QuicHeaders, QuicReceiving
  <2> QED BY <1>1, <1>3, <2>1, QuicReplyComes, QuicBecomes
<1>7. ASSUME NEW n \in 1..MaxFrame, QuicData(n) PROVE kind' = "quic" /\ QuicInv(Now')
  <2>1. /\ Become(QuicBodyAvailable(QuicMore(x, n))) \/ Become(QuicMore(x, n))
        /\ x.strm.open
    BY <1>2, <1>3, <1>7 DEF QuicData, QuicReceiving, QuicMore
  <2>2. n \in Nat \ {0}
    BY SizesAssumption
  <2> QED BY <1>1, <1>3, <2>1, <2>2, QuicDataArrives, QuicBecomes
<1>8. CASE QuicFin
  <2>1. /\ Become(QuicBodyAvailable(QuicEnded(x))) \/ Become(QuicEnded(x))
        /\ x.strm.open
    BY <1>2, <1>3, <1>8 DEF QuicFin, QuicReceiving, QuicEnded
  <2> QED BY <1>1, <1>3, <2>1, QuicEnds, QuicBecomes
<1>9. CASE QuicReset
  <2>1. Become(QuicStreamCloses(x)) /\ x.strm.open
    BY <1>2, <1>3, <1>9 DEF QuicReset
  <2> QED BY <1>1, <1>3, <2>1, QuicResets, QuicBecomes
<1>10. CASE QuicCanWrite
  <2>1. /\ Become(IF "write" \in x.strm.handle THEN QuicWriteDone(QuicSent(x), "ok")
                  ELSE QuicSent(x))
        /\ x.strm.open
    BY <1>2, <1>3, <1>10 DEF QuicCanWrite, QuicSent
  <2> QED BY <1>1, <1>3, <2>1, QuicSends, QuicBecomes
<1>11. ASSUME NEW task \in QuicTasks, QuicTask(task) PROVE kind' = "quic" /\ QuicInv(Now')
  <2> DEFINE y == [x EXCEPT !.tasks = Tail(@)]
  <2>1. /\ x.tasks # <<>> /\ Head(x.tasks) = task
        /\ Become(CASE task = "headers" -> QuicHeadersTask(y)
                    [] task = "data" -> QuicDataTask(y)
                    [] task = "trailers" -> QuicTrailersTask(y)
                    [] task = "close" -> QuicCloseTask(y))
    BY <1>2, <1>3, <1>11 DEF QuicTask
  <2>2. /\ QuicInv(y) /\ y.user.phase # "destroyed" /\ y.strm = x.strm
        /\ task = "headers" => y.strm.reply # "none"
    BY <1>3, <2>1, QuicRuns
  <2> HIDE DEF y
  <2>3. CASE task = "headers"
    BY <1>1, <2>1, <2>2, <2>3, QuicHeadersRun, QuicBecomes
  <2>4. CASE task = "data"
    BY <1>1, <2>1, <2>2, <2>4, QuicDataRuns, QuicBecomes
  <2>5. CASE task = "close"
    BY <1>1, <2>1, <2>2, <2>5, QuicCloseRuns, QuicBecomes
  <2>6. CASE task = "trailers"
    <3>1. y.strm.open => y.strm.delivered /\ "read_headers" \notin y.strm.handle
      BY <1>3, <2>1, <2>2, <2>6 DEF Delivery, Told
    <3> QED BY <1>1, <2>1, <2>2, <2>6, <3>1, QuicTrailersRun, QuicBecomes
  <2> QED BY <2>3, <2>4, <2>5, <2>6 DEF QuicTasks
<1>12. CASE QuicRead
  <2>1. x.user.phase = "connected" /\ "read" \notin x.user.awaits
    BY <1>3, <1>12 DEF QuicRead, CanRead
  <2>2. /\ x.sock.callbacks \cap {"connect", "read"} = {} /\ x.user.stray = {}
        /\ "read_headers" \in x.strm.handle =>
             x.sock.use_fastopen /\ x.sock.read_headers_pending
    BY <1>3, <2>1, QuicHas DEF QuicKept, QuicPhase
  <2>3. Checks(x, "Read", x.sock.callbacks \cap {"connect", "read"} = {}) = x
    BY <2>2 DEF Checks
  <2>4. Become(CASE x.sock.next_state = "DISCONNECTED" \/ ~x.strm.open \/ DoneReading(x) ->
                      ReadEnds(x)
                 [] x.sock.next_state # "DISCONNECTED" /\ x.strm.open /\ x.strm.buffered # <<>> ->
                      ReadData(Take(x).x, Take(x).data)
                 [] OTHER -> Awaits([x EXCEPT !.strm.handle = @ \cup {"read_body"}], "read"))
    BY <1>2, <1>3, <1>12, <2>3 DEF QuicRead
  <2>5. CASE x.sock.next_state = "DISCONNECTED" \/ ~x.strm.open \/ DoneReading(x)
    <3>1. Become(Disconnected(x))
      BY <2>4, <2>5 DEF ReadEnds, DoneReading
    <3>2. QuicInv(Disconnected(x))
      BY <1>1, <1>3, <2>2, QuicHas, QuicGone
    <3> QED BY <1>1, <3>1, <3>2, QuicBecomes
  <2>6. CASE ~(x.sock.next_state = "DISCONNECTED" \/ ~x.strm.open \/ DoneReading(x))
             /\ x.strm.buffered # <<>>
    <3>1. Become(ReadData(Take(x).x, Take(x).data))
      BY <2>4, <2>6
    <3> QED BY <1>1, <1>3, <2>1, <3>1, QuicReadsData, QuicBecomes
  <2>7. CASE ~(x.sock.next_state = "DISCONNECTED" \/ ~x.strm.open \/ DoneReading(x))
             /\ x.strm.buffered = <<>>
    <3>1. Become(Awaits([x EXCEPT !.strm.handle = @ \cup {"read_body"}], "read"))
      BY <2>4, <2>7
    <3> QED BY <1>1, <1>3, <2>1, <3>1, QuicReadWaits, QuicBecomes
  <2> QED BY <2>5, <2>6, <2>7
<1>13. CASE QuicWrite
  <2>1. x.user.phase = "connected" /\ "write" \notin x.user.awaits
    BY <1>3, <1>13 DEF QuicWrite, CanWrite
  <2>2. x.sock.callbacks \cap {"connect", "write"} = {}
    BY <1>3, <2>1, QuicHas DEF QuicKept, QuicPhase
  <2>3. \/ Become(WriteDone(Writing(x), "error")) \/ Become(WriteDone(Writing(x), "ok"))
        \/ Become(QuicWriteWaits(x))
    BY <1>2, <1>3, <1>13, <2>2 DEF QuicWrite, Checks, QuicWriteWaits
  <2> QED BY <1>1, <1>3, <2>1, <2>3, QuicWrites, QuicBecomes
<1>14. CASE QuicTrailers
  <2>1. Become(Post(QuicTrailed(x), "trailers")) /\ x.strm.open
    BY <1>2, <1>3, <1>14 DEF QuicTrailers, QuicReceiving, QuicTrailed
  <2> QED BY <1>1, <1>3, <2>1, QuicTrailersCome, QuicBecomes
<1> QED BY <1>4, <1>5, <1>6, <1>7, <1>8, <1>9, <1>10, <1>11, <1>12, <1>13, <1>14 DEF QuicNext

-----------------------------------------------------------------------------
\* The delivery of the headers.  What the handlers do with the stream: y comes
\* from x, by handlers that do not tell of the headers and post nothing before
\* them.
HasStream(x) == IsState(x) /\ IsQuicStream(x.strm) /\ x.tasks \in Seq(QuicTasks)

Goes(x, y) ==
  /\ HasStream(y)
  /\ y.strm.open =>
       /\ x.strm.open /\ y.strm.delivered = x.strm.delivered
       /\ y.strm.requested = x.strm.requested /\ y.strm.reply = x.strm.reply
       /\ "read_headers" \in y.strm.handle <=> "read_headers" \in x.strm.handle
       /\ x.strm.delivered \/ y.tasks = x.tasks

LEMMA GoesKeeps ==
  ASSUME NEW x, Delivery(x), NEW y, Goes(x, y)
  PROVE  Delivery(y)
BY DEF Delivery, Told, Goes

LEMMA GoesOn ==
  ASSUME NEW x, NEW y, Goes(x, y), NEW z, Goes(y, z)
  PROVE  Goes(x, z)
BY DEF Goes

LEMMA SameGoes ==
  ASSUME NEW x, HasStream(x), NEW y, IsState(y), y.strm = x.strm, y.tasks = x.tasks
  PROVE  Goes(x, y)
BY DEF Goes, HasStream

\* Only what the headers do not depend on changes in the stream.
LEMMA StreamGoes ==
  ASSUME NEW x, NEW y, IsState(y), IsQuicStream(y.strm), y.tasks \in Seq(QuicTasks),
         x.strm.delivered \/ y.tasks = x.tasks, y.strm.open = x.strm.open,
         y.strm.delivered = x.strm.delivered, y.strm.requested = x.strm.requested,
         y.strm.reply = x.strm.reply,
         "read_headers" \in y.strm.handle <=> "read_headers" \in x.strm.handle
  PROVE  Goes(x, y)
BY DEF Goes, HasStream

LEMMA GoneGoes ==
  ASSUME kind = "quic", NEW x, HasStream(x)
  PROVE  Goes(x, Disconnected(x)) /\ Goes(x, Destroyed(x))
<1> DEFINE w == [SetState(x, "DISCONNECTED") EXCEPT !.sock.callbacks = {}]
           c == Disconnect(x)
           d == Disconnected(x)
           e == Destroyed(x)
<1>1. IsState(w) /\ w.strm = x.strm /\ w.tasks = x.tasks
  BY DEF HasStream, IsState, SetState
<1>2. c = QuicStreamCloses(w)
  BY DEF Disconnect, QuicDisconnect
<1>3. IsClosed(w, c)
  <2> HIDE DEF w, c
  <2> QED BY <1>1, <1>2, QuicStreamClosed DEF HasStream
<1>4. IsState(c) /\ IsQuicStream(c.strm) /\ ~c.strm.open /\ c.tasks \in Seq(QuicTasks)
  BY <1>3 DEF IsClosed
<1>5. d = [c EXCEPT !.user.phase = "disconnected", !.user.awaits = {}]
      /\ e = [c EXCEPT !.tasks = <<>>, !.user.phase = "destroyed", !.user.awaits = {}]
  BY DEF Disconnected, Destroyed
<1>6. <<>> \in Seq(QuicTasks)
  BY EmptySeq
<1> HIDE DEF c, d, e
<1>7. /\ IsState(d) /\ d.strm = c.strm /\ d.tasks = c.tasks
      /\ IsState(e) /\ e.strm = c.strm /\ e.tasks = <<>>
  BY <1>4, <1>5 DEF IsState
<1>8. Goes(x, d) /\ Goes(x, e)
  BY <1>4, <1>6, <1>7 DEF Goes, HasStream
<1> QED BY <1>8 DEF d, e

LEMMA UserGoes ==
  ASSUME NEW x, HasStream(x)
  PROVE  /\ \A op, how : Goes(x, Answered(x, op, how))
         /\ \A data : Goes(x, ReadData(x, data))
         /\ \A state : Goes(x, SetState(x, state))
         /\ \A op : Goes(x, Awaits(x, op))
         /\ Goes(x, Writing(x))
         /\ \A name, holds : Goes(x, Checks(x, name, holds))
<1>1. ASSUME NEW op, NEW how PROVE Goes(x, Answered(x, op, how))
  <2> DEFINE y == Answered(x, op, how)
  <2>1. IsState(y) /\ y.strm = x.strm /\ y.tasks = x.tasks
    BY DEF HasStream, IsState, Answered
  <2> HIDE DEF y
  <2>2. Goes(x, y)
    BY <2>1, SameGoes
  <2> QED BY <2>2 DEF y
<1>2. ASSUME NEW data PROVE Goes(x, ReadData(x, data))
  <2> DEFINE y == ReadData(x, data)
  <2>1. IsState(y) /\ y.strm = x.strm /\ y.tasks = x.tasks
    BY DEF HasStream, IsState, ReadData
  <2> HIDE DEF y
  <2>2. Goes(x, y)
    BY <2>1, SameGoes
  <2> QED BY <2>2 DEF y
<1>3. ASSUME NEW state PROVE Goes(x, SetState(x, state))
  <2> DEFINE y == SetState(x, state)
  <2>1. IsState(y) /\ y.strm = x.strm /\ y.tasks = x.tasks
    BY DEF HasStream, IsState, SetState
  <2> HIDE DEF y
  <2>2. Goes(x, y)
    BY <2>1, SameGoes
  <2> QED BY <2>2 DEF y
<1>4. ASSUME NEW op PROVE Goes(x, Awaits(x, op))
  <2> DEFINE y == Awaits(x, op)
  <2>1. IsState(y) /\ y.strm = x.strm /\ y.tasks = x.tasks
    BY DEF HasStream, IsState, Awaits
  <2> HIDE DEF y
  <2>2. Goes(x, y)
    BY <2>1, SameGoes
  <2> QED BY <2>2 DEF y
<1>5. Goes(x, Writing(x))
  <2> DEFINE y == Writing(x)
  <2>1. IsState(y) /\ y.strm = x.strm /\ y.tasks = x.tasks
    BY DEF HasStream, IsState, Writing
  <2> HIDE DEF y
  <2>2. Goes(x, y)
    BY <2>1, SameGoes
  <2> QED BY <2>2 DEF y
<1>6. ASSUME NEW name, NEW holds PROVE Goes(x, Checks(x, name, holds))
  <2> DEFINE y == [x EXCEPT !.sock.failed_checks = @ \cup {name}]
  <2>1. IsState(y) /\ y.strm = x.strm /\ y.tasks = x.tasks
    BY DEF HasStream, IsState
  <2>2. Checks(x, name, holds) = IF holds THEN x ELSE y
    BY DEF Checks
  <2> HIDE DEF y
  <2>3. Goes(x, y) /\ Goes(x, x)
    BY <2>1, SameGoes DEF HasStream
  <2> QED BY <2>2, <2>3
<1> QED BY <1>1, <1>2, <1>3, <1>4, <1>5, <1>6

LEMMA ConnectGoes ==
  ASSUME kind = "quic", NEW x, HasStream(x), NEW rv \in {"ok", "auth", "error"}
  PROVE  Goes(x, ConnectDone(x, rv))
<1> DEFINE y == Answered(x, "connect", "connect")
           ok == [y EXCEPT !.user.phase = "connected"]
           auth == [y EXCEPT !.user.phase = "challenged"]
<1>1. Goes(x, y) /\ HasStream(y)
  BY UserGoes DEF Goes
<1>2. ConnectDone(x, rv) = CASE rv = "ok" -> ok [] rv = "auth" -> auth [] rv = "error" -> Destroyed(y)
  BY DEF ConnectDone
<1> HIDE DEF y
<1>3. /\ IsState(ok) /\ ok.strm = y.strm /\ ok.tasks = y.tasks
      /\ IsState(auth) /\ auth.strm = y.strm /\ auth.tasks = y.tasks
  BY <1>1 DEF HasStream, IsState
<1> HIDE DEF ok, auth
<1>4. Goes(y, ok) /\ Goes(y, auth) /\ Goes(y, Destroyed(y))
  BY <1>1, <1>3, SameGoes, GoneGoes
<1>5. Goes(x, ok) /\ Goes(x, auth) /\ Goes(x, Destroyed(y))
  BY <1>1, <1>4, GoesOn
<1> QED BY <1>2, <1>5

LEMMA WriteGoes ==
  ASSUME kind = "quic", NEW x, HasStream(x), NEW rv \in {"ok", "error"}
  PROVE  Goes(x, WriteDone(x, rv))
<1>1. Goes(x, x) /\ Goes(x, Disconnected(x))
  BY SameGoes, GoneGoes DEF HasStream
<1> QED BY <1>1 DEF WriteDone

\* The answers of the handle.
LEMMA AnswersGo ==
  ASSUME kind = "quic", NEW x, HasStream(x)
  PROVE  /\ \A result \in Replies \cup {"error"} : Goes(x, QuicReplyDone(x, result))
         /\ \A data : Goes(x, QuicReadDone(x, data))
         /\ \A rv \in {"ok", "error"} : Goes(x, QuicWriteDone(x, rv))
<1>1. Goes(x, x)
  BY SameGoes DEF HasStream
<1>2. ASSUME NEW result \in Replies \cup {"error"} PROVE Goes(x, QuicReplyDone(x, result))
  <2> DEFINE y == Checks(x, "OnIOComplete", x.sock.next_state # "DISCONNECTED")
             r == DoReadReplyComplete(result)
             a == [y EXCEPT !.sock.read_headers_pending = FALSE]
             b == SetState(a, IF r.rv = "ok" THEN "OPEN" ELSE "DISCONNECTED")
             c == Checks(y, "connect_callback", "connect" \in x.sock.callbacks)
             d == SetState(c, r.state)
             e == ConnectDone(d, r.rv)
  <2>1. QuicReplyDone(x, result) \in {x, b, e}
    <3>1. QuicReplyDone(x, result) =
            CASE (x.sock.use_fastopen /\ x.sock.read_headers_pending) /\ QuicReplyGuard(x) -> x
              [] (x.sock.use_fastopen /\ x.sock.read_headers_pending) /\ ~QuicReplyGuard(x) -> b
              [] ~(x.sock.use_fastopen /\ x.sock.read_headers_pending) -> e
      BY DEF QuicReplyDone
    <3> HIDE DEF b, e
    <3> QED BY <3>1 DEF QuicReplyGuard
  <2>2. r.rv \in {"ok", "auth", "error"}
    BY DEF DoReadReplyComplete, Replies
  <2> HIDE DEF r
  <2>3. Goes(x, y) /\ HasStream(y)
    BY UserGoes DEF Goes
  <2> HIDE DEF y
  <2>4. Goes(y, a) /\ HasStream(a)
    <3>1. IsState(a) /\ a.strm = y.strm /\ a.tasks = y.tasks
      BY <2>3 DEF HasStream, IsState
    <3> HIDE DEF a
    <3> QED BY <2>3, <3>1, SameGoes DEF Goes
  <2> HIDE DEF a
  <2>5. Goes(a, b)
    BY <2>4, UserGoes
  <2>6. Goes(y, c) /\ HasStream(c)
    BY <2>3, UserGoes DEF Goes
  <2> HIDE DEF b, c
  <2>7. Goes(c, d) /\ HasStream(d)
    BY <2>6, UserGoes DEF Goes
  <2> HIDE DEF d
  <2>8. Goes(d, e)
    BY <2>2, <2>7, ConnectGoes
  <2> HIDE DEF e
  <2>9. Goes(x, a) /\ Goes(x, c)
    BY <2>3, <2>4, <2>6, GoesOn
  <2>10. Goes(x, b) /\ Goes(x, d)
    BY <2>5, <2>7, <2>9, GoesOn
  <2>11. Goes(x, e)
    BY <2>8, <2>10, GoesOn
  <2> QED BY <1>1, <2>1, <2>10, <2>11
<1>3. ASSUME NEW data PROVE Goes(x, QuicReadDone(x, data))
  <2> DEFINE y == Answered(x, "read", "read")
  <2>1. QuicReadDone(x, data) \in {x, Disconnected(y), ReadData(y, data)}
    BY DEF QuicReadDone, ReadEnds
  <2>2. Goes(x, y) /\ HasStream(y)
    BY UserGoes DEF Goes
  <2> HIDE DEF y
  <2>3. Goes(y, Disconnected(y)) /\ Goes(y, ReadData(y, data))
    BY <2>2, UserGoes, GoneGoes
  <2>4. Goes(x, Disconnected(y)) /\ Goes(x, ReadData(y, data))
    BY <2>2, <2>3, GoesOn
  <2> QED BY <1>1, <2>1, <2>4
<1>4. ASSUME NEW rv \in {"ok", "error"} PROVE Goes(x, QuicWriteDone(x, rv))
  <2> DEFINE y == Answered(x, "write", "write")
  <2>1. QuicWriteDone(x, rv) \in {x, WriteDone(y, rv)}
    BY DEF QuicWriteDone
  <2>2. Goes(x, y) /\ HasStream(y)
    BY UserGoes DEF Goes
  <2> HIDE DEF y
  <2>3. Goes(y, WriteDone(y, rv))
    BY <2>2, WriteGoes
  <2>4. Goes(x, WriteDone(y, rv))
    BY <2>2, <2>3, GoesOn
  <2> QED BY <1>1, <2>1, <2>4
<1> QED BY <1>2, <1>3, <1>4

LEMMA UnhandledGoes ==
  ASSUME NEW x, HasStream(x), NEW op, op # "read_headers" \/ ~x.strm.open
  PROVE  Goes(x, Unhandled(x, op))
<1> DEFINE y == Unhandled(x, op)
<1>1. /\ IsState(y) /\ y.tasks = x.tasks /\ y.strm = [x.strm EXCEPT !.handle = @ \ {op}]
  BY DEF HasStream, IsState, Unhandled
<1> HIDE DEF y
<1>2. /\ IsQuicStream(y.strm) /\ y.strm.open = x.strm.open
      /\ y.strm.delivered = x.strm.delivered /\ y.strm.requested = x.strm.requested
      /\ y.strm.reply = x.strm.reply /\ y.strm.handle = x.strm.handle \ {op}
  BY <1>1 DEF HasStream, IsQuicStream
<1>3. Goes(x, y)
  BY <1>1, <1>2 DEF Goes, HasStream
<1> QED BY <1>3 DEF y

LEMMA TakenGoes ==
  ASSUME NEW x, HasStream(x)
  PROVE  Goes(x, Take(x).x)
<1> DEFINE left == Rest(x.strm.buffered, BufLen)
           y == Take(x).x
<1>1. IsState(y) /\ y.tasks = x.tasks /\ y.strm = [x.strm EXCEPT !.buffered = left]
  BY DEF HasStream, IsState, Take
<1>2. left \in Seq(Nat)
  <2> DEFINE b == x.strm.buffered
  <2>1. b \in Seq(Nat)
    BY DEF HasStream, IsQuicStream
  <2>2. left = SubSeq(b, BufLen + 1, Len(b))
    BY DEF Rest
  <2> HIDE DEF b, left
  <2>3. BufLen \in Nat \ {0} /\ Len(b) \in Nat /\ \A i \in 1..Len(b) : b[i] \in Nat
    BY <2>1, SizesAssumption, LenProperties, ElementOfSeq
  <2>4. \A i \in (BufLen + 1)..Len(b) : b[i] \in Nat
    BY <2>3
  <2> QED BY <2>1, <2>2, <2>3, <2>4, SubSeqProperties
<1> HIDE DEF y, left
<1>3. /\ IsQuicStream(y.strm) /\ y.strm.open = x.strm.open
      /\ y.strm.delivered = x.strm.delivered /\ y.strm.requested = x.strm.requested
      /\ y.strm.reply = x.strm.reply /\ y.strm.handle = x.strm.handle
  BY <1>1, <1>2 DEF HasStream, IsQuicStream
<1>4. Goes(x, y)
  BY <1>1, <1>3, StreamGoes DEF HasStream
<1> QED BY <1>4 DEF y

LEMMA PostGoes ==
  ASSUME NEW x, HasStream(x), x.strm.delivered, NEW task \in QuicTasks
  PROVE  Goes(x, Post(x, task))
<1> DEFINE y == Post(x, task)
<1>1. IsState(y) /\ y.strm = x.strm /\ y.tasks = Append(x.tasks, task)
  BY DEF HasStream, IsState, Post
<1>2. Append(x.tasks, task) \in Seq(QuicTasks)
  BY PostedTask DEF HasStream
<1> HIDE DEF y
<1>3. Goes(x, y)
  BY <1>1, <1>2 DEF Goes, HasStream
<1> QED BY <1>3 DEF y

LEMMA BodyGoes ==
  ASSUME NEW x, HasStream(x)
  PROVE  Goes(x, QuicBodyAvailable(x))
<1>1. "data" \in QuicTasks
  BY DEF QuicTasks
<1>2. Goes(x, x)
  BY SameGoes DEF HasStream
<1> QED BY <1>1, <1>2, PostGoes DEF QuicBodyAvailable

\* The callbacks of the handle change, and the headers are delivered.
LEMMA HandleSet ==
  ASSUME NEW t, IsQuicStream(t), NEW ops \in SUBSET {"read_headers", "read_body", "write"},
         NEW v, v = [t EXCEPT !.handle = ops]
  PROVE  /\ IsQuicStream(v) /\ v.handle = ops /\ v.open = t.open
         /\ v.requested = t.requested /\ v.delivered = t.delivered /\ v.reply = t.reply
BY DEF IsQuicStream

LEMMA DeliveredSet ==
  ASSUME NEW t, IsQuicStream(t), NEW v,
         v = [t EXCEPT !.delivered = TRUE, !.handle = @ \ {"read_headers"}]
  PROVE  /\ IsQuicStream(v) /\ v.handle = t.handle \ {"read_headers"}
         /\ v.requested = t.requested /\ v.delivered = TRUE
<1>1. DOMAIN v = DOMAIN t /\ v.delivered = TRUE /\ v.handle = t.handle \ {"read_headers"}
  BY DEF IsQuicStream
<1>2. /\ v.open = t.open /\ v.requested = t.requested /\ v.fin = t.fin
      /\ v.reply = t.reply /\ v.received = t.received /\ v.buffered = t.buffered
  BY DEF IsQuicStream
<1>3. v.handle \subseteq {"read_headers", "read_body", "write"} /\ v.delivered \in BOOLEAN
  BY <1>1 DEF IsQuicStream
<1> QED BY <1>1, <1>2, <1>3 DEF IsQuicStream

\* The request is sent, and the handle waits for the headers.
LEMMA RequestDelivers ==
  ASSUME kind = "quic", NEW x, HasStream(x), Delivery(x), ~x.strm.requested,
         x.strm.reply = "none", NEW fastopen \in BOOLEAN
  PROVE  Delivery(QuicSendRequest(x, fastopen))
<1> DEFINE y == [x EXCEPT !.sock.use_fastopen = fastopen, !.strm.requested = TRUE]
           z == [y EXCEPT !.strm.handle = @ \cup {"read_headers"}]
           o == SetState(z, "OPEN")
           v == [o EXCEPT !.sock.read_headers_pending = TRUE]
           d == ConnectDone(v, "ok")
           e == SetState(z, "READ_REPLY_COMPLETE")
           c == SetState(y, "DISCONNECTED")
           g == ConnectDone(c, "error")
<1>1. QuicSendRequest(x, fastopen) = IF ~x.strm.open THEN g ELSE IF fastopen THEN d ELSE e
  BY DEF QuicSendRequest
<1>2. IsState(y) /\ y.tasks = x.tasks /\ y.strm = [x.strm EXCEPT !.requested = TRUE]
  BY DEF HasStream, IsState
<1> HIDE DEF y
<1>3. /\ IsQuicStream(y.strm) /\ y.strm.open = x.strm.open /\ y.strm.requested
      /\ y.strm.delivered = x.strm.delivered /\ y.strm.reply = "none"
      /\ y.strm.handle = x.strm.handle
  BY <1>2 DEF HasStream, IsQuicStream
<1>4. HasStream(y)
  BY <1>2, <1>3 DEF HasStream
<1>5. CASE ~x.strm.open
  <2>1. Goes(y, c)
    BY <1>4, UserGoes
  <2> HIDE DEF c
  <2>2. HasStream(c) /\ (c.strm.open => y.strm.open)
    BY <2>1 DEF Goes
  <2>3. Goes(c, g)
    BY <2>2, ConnectGoes
  <2> HIDE DEF g
  <2>4. ~g.strm.open
    BY <1>3, <1>5, <2>2, <2>3 DEF Goes
  <2> QED BY <1>1, <1>5, <2>4 DEF Delivery
<1>6. CASE x.strm.open
  <2>1. /\ IsState(z) /\ z.tasks = x.tasks
        /\ z.strm = [y.strm EXCEPT !.handle = @ \cup {"read_headers"}]
    BY <1>2 DEF IsState
  <2> HIDE DEF z
  <2>2. /\ IsQuicStream(z.strm) /\ z.strm.delivered = y.strm.delivered
        /\ z.strm.reply = y.strm.reply
        /\ z.strm.handle = y.strm.handle \cup {"read_headers"}
    <3>1. y.strm.handle \cup {"read_headers"} \in SUBSET {"read_headers", "read_body", "write"}
      BY <1>3 DEF IsQuicStream
    <3> QED BY <1>3, <2>1, <3>1, HandleSet
  <2>3. ~x.strm.delivered /\ x.tasks = <<>>
    BY <1>6 DEF Delivery, Told
  <2>4. HasStream(z) /\ Delivery(z)
    BY <1>3, <2>1, <2>2, <2>3 DEF HasStream, Delivery, Told
  <2>5. Goes(z, o) /\ HasStream(o) /\ Goes(z, e)
    BY <2>4, UserGoes DEF Goes
  <2> HIDE DEF o, e
  <2>6. Goes(o, v) /\ HasStream(v)
    <3>1. IsState(v) /\ v.strm = o.strm /\ v.tasks = o.tasks
      BY <2>5 DEF HasStream, IsState
    <3> HIDE DEF v
    <3> QED BY <2>5, <3>1, SameGoes DEF Goes
  <2> HIDE DEF v
  <2>7. Goes(v, d)
    BY <2>6, ConnectGoes
  <2> HIDE DEF d
  <2>8. Delivery(o) /\ Delivery(e)
    BY <2>4, <2>5, GoesKeeps
  <2>9. Delivery(d)
    <3>1. Delivery(v)
      BY <2>6, <2>8, GoesKeeps
    <3> QED BY <2>7, <3>1, GoesKeeps
  <2> QED BY <1>1, <1>6, <2>8, <2>9
<1> QED BY <1>5, <1>6

\* A posted task runs: x is the state before it was taken.
QuicPopped(x) == [x EXCEPT !.tasks = Tail(@)]

LEMMA PoppedGoes ==
  ASSUME NEW x, HasStream(x), x.tasks # <<>>, x.strm.delivered \/ ~x.strm.open
  PROVE  Goes(x, QuicPopped(x))
<1> DEFINE y == QuicPopped(x)
<1>1. IsState(y) /\ y.strm = x.strm /\ y.tasks = Tail(x.tasks)
  BY DEF HasStream, IsState, QuicPopped
<1>2. Tail(x.tasks) \in Seq(QuicTasks)
  BY RunTask DEF HasStream
<1> HIDE DEF y
<1>3. Goes(x, y)
  BY <1>1, <1>2 DEF Goes, HasStream
<1> QED BY <1>3 DEF y

LEMMA HeadersTaskDelivers ==
  ASSUME kind = "quic", NEW x, HasStream(x), Delivery(x), x.tasks # <<>>,
         Head(x.tasks) = "headers", x.strm.reply \in Replies, x.strm.requested
  PROVE  Delivery(QuicHeadersTask(QuicPopped(x)))
<1> DEFINE y == QuicPopped(x)
           h == [y EXCEPT !.strm.delivered = TRUE, !.strm.handle = @ \ {"read_headers"}]
           r == QuicReplyDone(h, y.strm.reply)
<1>1. IsState(y) /\ y.strm = x.strm /\ y.tasks = Tail(x.tasks)
  BY DEF HasStream, IsState, QuicPopped
<1>2. y.tasks \in Seq(QuicTasks)
  BY <1>1, RunTask DEF HasStream
<1>3. QuicHeadersTask(y) =
        IF ~y.strm.open \/ y.strm.delivered \/ "read_headers" \notin y.strm.handle THEN y ELSE r
  BY DEF QuicHeadersTask
<1>4. CASE x.strm.delivered \/ ~x.strm.open
  <2>1. Delivery(y)
    BY <1>4, PoppedGoes, GoesKeeps
  <2> QED BY <1>1, <1>3, <1>4, <2>1
<1>5. CASE ~x.strm.delivered /\ x.strm.open
  <2> HIDE DEF y
  <2>1. /\ IsState(h) /\ h.tasks = y.tasks
        /\ h.strm = [x.strm EXCEPT !.delivered = TRUE, !.handle = @ \ {"read_headers"}]
    BY <1>1 DEF IsState
  <2>2. "read_headers" \in x.strm.handle
    BY <1>5 DEF Delivery, Told
  <2>3. QuicHeadersTask(y) = r
    BY <1>1, <1>3, <1>5, <2>2
  <2> HIDE DEF h
  <2>4. /\ IsQuicStream(h.strm) /\ h.strm.requested = x.strm.requested
        /\ h.strm.delivered = TRUE /\ h.strm.handle = x.strm.handle \ {"read_headers"}
    BY <2>1, DeliveredSet DEF HasStream
  <2>5. HasStream(h) /\ Delivery(h)
    BY <1>2, <2>1, <2>4 DEF HasStream, Delivery, Told
  <2>6. Goes(h, r)
    BY <1>1, <2>5, AnswersGo
  <2> QED BY <2>3, <2>5, <2>6, GoesKeeps DEF y
<1> QED BY <1>4, <1>5

LEMMA OtherTasksGo ==
  ASSUME kind = "quic", NEW x, HasStream(x),
         x.strm.open => x.strm.delivered /\ "read_headers" \notin x.strm.handle
  PROVE  /\ Goes(x, QuicDataTask(x)) /\ Goes(x, QuicTrailersTask(x))
         /\ Goes(x, QuicCloseTask(x))
<1>1. Goes(x, x)
  BY SameGoes DEF HasStream
<1>2. Goes(x, QuicDataTask(x))
  <2> DEFINE y == Unhandled(x, "read_body")
             w == Take(y).x
             r == QuicReadDone(w, Take(y).data)
  <2>1. QuicDataTask(x) \in {x, r}
    BY DEF QuicDataTask, Unhandled
  <2>2. Goes(x, y) /\ HasStream(y)
    BY UnhandledGoes DEF Goes
  <2> HIDE DEF y
  <2>3. Goes(y, w) /\ HasStream(w)
    BY <2>2, TakenGoes DEF Goes
  <2> HIDE DEF w
  <2>4. Goes(w, r)
    BY <2>3, AnswersGo
  <2> HIDE DEF r
  <2>5. Goes(x, w)
    BY <2>2, <2>3, GoesOn
  <2>6. Goes(x, r)
    BY <2>4, <2>5, GoesOn
  <2> QED BY <1>1, <2>1, <2>6
<1>3. Goes(x, QuicTrailersTask(x))
  <2>1. "data" \in QuicTasks
    BY DEF QuicTasks
  <2> QED BY <1>1, <2>1, QuicTrailersAre, PostGoes
<1>4. Goes(x, QuicCloseTask(x))
  <2> DEFINE h == Unhandled(x, "read_headers")
             a == IF "read_headers" \in x.strm.handle THEN QuicReplyDone(h, "error") ELSE x
             b == IF Alive(a) /\ "read_body" \in a.strm.handle
                  THEN QuicReadDone(Unhandled(a, "read_body"), <<>>) ELSE a
             c == IF Alive(b) /\ "write" \in b.strm.handle
                  THEN QuicWriteDone(Unhandled(b, "write"), "error") ELSE b
  <2>1. QuicCloseTask(x) = c
    BY DEF QuicCloseTask, Unhandled
  <2>2. Goes(x, a) /\ HasStream(a)
    <3>1. CASE "read_headers" \in x.strm.handle
      <4>1. Goes(x, h) /\ HasStream(h)
        BY <3>1, UnhandledGoes DEF Goes
      <4> HIDE DEF h
      <4>2. Goes(h, QuicReplyDone(h, "error"))
        BY <4>1, AnswersGo
      <4>3. Goes(x, QuicReplyDone(h, "error"))
        BY <4>1, <4>2, GoesOn
      <4> QED BY <3>1, <4>3 DEF Goes
    <3>2. CASE "read_headers" \notin x.strm.handle
      BY <1>1, <3>2
    <3> QED BY <3>1, <3>2
  <2> HIDE DEF a
  <2>3. Goes(a, b) /\ HasStream(b)
    <3> DEFINE y == Unhandled(a, "read_body")
    <3>1. Goes(a, y) /\ HasStream(y)
      BY <2>2, UnhandledGoes DEF Goes
    <3>2. b \in {a, QuicReadDone(y, <<>>)}
      OBVIOUS
    <3> HIDE DEF y
    <3>3. Goes(y, QuicReadDone(y, <<>>)) /\ Goes(a, a)
      BY <2>2, <3>1, AnswersGo, SameGoes DEF HasStream
    <3>4. Goes(a, QuicReadDone(y, <<>>))
      BY <3>1, <3>3, GoesOn
    <3> HIDE DEF b
    <3> QED BY <3>2, <3>3, <3>4 DEF Goes
  <2> HIDE DEF b
  <2>4. Goes(b, c)
    <3> DEFINE y == Unhandled(b, "write")
    <3>1. Goes(b, y) /\ HasStream(y)
      BY <2>3, UnhandledGoes DEF Goes
    <3>2. c \in {b, QuicWriteDone(y, "error")}
      OBVIOUS
    <3> HIDE DEF y
    <3>3. Goes(y, QuicWriteDone(y, "error")) /\ Goes(b, b)
      BY <2>3, <3>1, AnswersGo, SameGoes DEF HasStream
    <3>4. Goes(b, QuicWriteDone(y, "error"))
      BY <3>1, <3>3, GoesOn
    <3> HIDE DEF c
    <3> QED BY <3>2, <3>3, <3>4
  <2> HIDE DEF c
  <2>5. Goes(x, b)
    BY <2>2, <2>3, GoesOn
  <2>6. Goes(x, c)
    BY <2>4, <2>5, GoesOn
  <2> QED BY <2>1, <2>6
<1> QED BY <1>2, <1>3, <1>4

-----------------------------------------------------------------------------
\* The steps over HTTP/3 deliver the headers first.

LEMMA DeliveryBecomes ==
  ASSUME NEW y, Delivery(y), Become(y)
  PROVE  Delivery(Now')
BY DEF Delivery, Become, Now

LEMMA GoesBecomes ==
  ASSUME NEW x, Delivery(x), NEW y, Goes(x, y), Become(y)
  PROVE  Delivery(Now')
BY GoesKeeps, DeliveryBecomes

LEMMA QuicNextDelivers ==
  ASSUME Inv, QuicNext
  PROVE  Delivery(Now')
<1>1. kind = "quic"
  BY DEF QuicNext, QuicConnect, QuicAuthDone, QuicHeaders, QuicData, QuicReceiving, QuicFin,
         QuicTrailers, QuicReset, QuicCanWrite, QuicTask, QuicRead, QuicWrite
<1>2. PICK x : x = Now
  OBVIOUS
<1>3. /\ QuicInv(x) /\ x.sock = sock /\ x.strm = strm /\ x.tasks = tasks /\ x.user = user
      /\ Delivery(x)
  BY <1>1, <1>2 DEF Inv, Now
<1>4. HasStream(x)
  BY <1>3, QuicHas DEF HasStream
<1>5. ~x.strm.requested => x.strm.reply = "none"
  BY <1>3, QuicHas DEF QuicReplied
<1>6. CASE QuicConnect
  <2> DEFINE w == [x EXCEPT !.user.phase = "connecting"]
             y == Awaits(w, "connect")
  <2>1. \/ Become(SetState(y, "GENERATE_AUTH_TOKEN_COMPLETE"))
        \/ \E fastopen \in BOOLEAN : Become(QuicSendRequest(y, fastopen))
        \/ Become(ConnectDone(y, "error"))
    BY <1>2, <1>6 DEF QuicConnect
  <2>2. ~x.strm.requested
    BY <1>3, <1>6, QuicHas DEF QuicPhase, QuicConnect, CanConnect
  <2>3. IsState(w) /\ w.strm = x.strm /\ w.tasks = x.tasks
    BY <1>4 DEF HasStream, IsState
  <2> HIDE DEF w
  <2>4. IsState(y) /\ y.strm = w.strm /\ y.tasks = w.tasks
    BY <2>3 DEF IsState, Awaits
  <2> HIDE DEF y
  <2>5. HasStream(y) /\ Delivery(y) /\ ~y.strm.requested /\ y.strm.reply = "none"
    BY <1>3, <1>4, <1>5, <2>2, <2>3, <2>4 DEF HasStream, Delivery
  <2>6. Goes(y, SetState(y, "GENERATE_AUTH_TOKEN_COMPLETE")) /\ Goes(y, ConnectDone(y, "error"))
    BY <1>1, <2>5, UserGoes, ConnectGoes
  <2> QED BY <1>1, <2>1, <2>5, <2>6, GoesBecomes, RequestDelivers, DeliveryBecomes
<1>7. CASE QuicAuthDone
  <2> DEFINE c == SetState(x, "DISCONNECTED")
  <2>1. \/ \E fastopen \in BOOLEAN : Become(QuicSendRequest(x, fastopen))
        \/ Become(ConnectDone(c, "error"))
    BY <1>2, <1>7 DEF QuicAuthDone
  <2>2. ~x.strm.requested
    BY <1>3, <1>7, QuicHas DEF QuicAuthDone, QuicPhase
  <2>3. Goes(x, c)
    BY <1>4, UserGoes
  <2> HIDE DEF c
  <2>4. Goes(c, ConnectDone(c, "error")) /\ Delivery(c)
    BY <1>1, <1>3, <2>3, ConnectGoes, GoesKeeps DEF Goes
  <2> QED BY <1>1, <1>3, <1>4, <1>5, <2>1, <2>2, <2>4, GoesBecomes, RequestDelivers, DeliveryBecomes
<1>8. ASSUME NEW reply \in Replies, QuicHeaders(reply) PROVE Delivery(Now')
  <2> DEFINE w == [x EXCEPT !.strm.reply = reply]
             y == Post(w, "headers")
  <2>1. Become(y) /\ x.strm.open /\ x.strm.requested /\ x.strm.reply = "none"
    BY <1>2, <1>3, <1>8 DEF QuicHeaders, QuicReceiving
  <2>2. IsState(w) /\ w.tasks = x.tasks /\ w.strm = [x.strm EXCEPT !.reply = reply]
    BY <1>4 DEF HasStream, IsState
  <2> HIDE DEF w
  <2>3. y.strm = w.strm /\ y.tasks = Append(x.tasks, "headers")
    BY <2>2 DEF IsState, Post
  <2> HIDE DEF y
  <2>4. /\ y.strm.delivered = x.strm.delivered /\ y.strm.requested = x.strm.requested
        /\ y.strm.handle = x.strm.handle
    BY <1>4, <2>2, <2>3 DEF HasStream, IsQuicStream
  <2>5. x.tasks = <<>> => y.tasks # <<>> /\ Head(y.tasks) = "headers"
    BY <2>3
  <2>6. y.strm.reply = reply /\ reply # "none"
    BY <1>4, <2>2, <2>3 DEF HasStream, IsQuicStream, Replies
  <2>7. Delivery(y)
    BY <1>3, <2>1, <2>4, <2>5, <2>6 DEF Delivery, Told
  <2> QED BY <2>1, <2>7, DeliveryBecomes
<1>9. ASSUME NEW n \in 1..MaxFrame, QuicData(n) PROVE Delivery(Now')
  <2> DEFINE y == QuicMore(x, n)
  <2>1. (Become(QuicBodyAvailable(y)) \/ Become(y)) /\ x.strm.open
    BY <1>2, <1>3, <1>9 DEF QuicData, QuicReceiving, QuicMore
  <2>2. HasStream(y)
    <3>1. n \in Nat \ {0}
      BY SizesAssumption
    <3> QED BY <1>3, <2>1, <3>1, QuicDataArrives, QuicHas DEF HasStream
  <2>3. /\ y.tasks = x.tasks /\ y.strm.open = x.strm.open
        /\ y.strm.delivered = x.strm.delivered /\ y.strm.requested = x.strm.requested
        /\ y.strm.reply = x.strm.reply /\ y.strm.handle = x.strm.handle
    BY <1>4 DEF HasStream, IsState, IsQuicStream, QuicMore
  <2> HIDE DEF y
  <2>4. Goes(x, y) /\ Goes(y, QuicBodyAvailable(y))
    BY <2>2, <2>3, BodyGoes DEF Goes
  <2>5. Delivery(y)
    BY <1>3, <2>4, GoesKeeps
  <2> QED BY <1>3, <2>1, <2>4, <2>5, GoesBecomes
<1>10. CASE QuicFin
  <2> DEFINE y == QuicEnded(x)
  <2>1. (Become(QuicBodyAvailable(y)) \/ Become(y)) /\ x.strm.open
    BY <1>2, <1>3, <1>10 DEF QuicFin, QuicReceiving, QuicEnded
  <2>2. HasStream(y)
    BY <1>3, <2>1, QuicEnds, QuicHas DEF HasStream
  <2>3. /\ y.tasks = x.tasks /\ y.strm.open = x.strm.open
        /\ y.strm.delivered = x.strm.delivered /\ y.strm.requested = x.strm.requested
        /\ y.strm.reply = x.strm.reply /\ y.strm.handle = x.strm.handle
    BY <1>4 DEF HasStream, IsState, IsQuicStream, QuicEnded
  <2> HIDE DEF y
  <2>4. Goes(x, y) /\ Goes(y, QuicBodyAvailable(y))
    BY <2>2, <2>3, BodyGoes DEF Goes
  <2>5. Delivery(y)
    BY <1>3, <2>4, GoesKeeps
  <2> QED BY <1>3, <2>1, <2>4, <2>5, GoesBecomes
<1>11. CASE QuicTrailers
  <2> DEFINE w == QuicTrailed(x)
             y == Post(w, "trailers")
  <2>1. Become(y) /\ x.strm.open /\ x.strm.reply # "none"
    BY <1>2, <1>3, <1>11 DEF QuicTrailers, QuicReceiving, QuicTrailed
  <2>2. IsState(w) /\ w.tasks = x.tasks /\ w.strm = [x.strm EXCEPT !.trailers = TRUE]
    BY <1>4 DEF HasStream, IsState, QuicTrailed
  <2> HIDE DEF w
  <2>3. y.strm = w.strm /\ y.tasks = Append(x.tasks, "trailers")
    BY <2>2 DEF IsState, Post
  <2> HIDE DEF y
  <2>4. /\ y.strm.delivered = x.strm.delivered /\ y.strm.requested = x.strm.requested
        /\ y.strm.handle = x.strm.handle /\ y.strm.reply = x.strm.reply
    BY <1>4, <2>2, <2>3 DEF HasStream, IsQuicStream
  <2>5. x.tasks # <<>> => y.tasks # <<>> /\ Head(y.tasks) = Head(x.tasks)
    <3>1. x.tasks \in Seq(QuicTasks) /\ "trailers" \in QuicTasks
      BY <1>4 DEF HasStream, QuicTasks
    <3> QED BY <2>3, <3>1
  <2>6. Delivery(y)
    BY <1>3, <2>1, <2>4, <2>5 DEF Delivery, Told
  <2> QED BY <2>1, <2>6, DeliveryBecomes
<1>12. CASE QuicReset
  <2>1. Become(QuicStreamCloses(x))
    BY <1>2, <1>12 DEF QuicReset
  <2>2. Delivery(QuicStreamCloses(x))
    BY <1>4, QuicStreamClosed DEF HasStream, IsClosed, Delivery
  <2> QED BY <2>1, <2>2, DeliveryBecomes
<1>13. CASE QuicCanWrite
  <2> DEFINE y == QuicSent(x)
  <2>1. Become(IF "write" \in x.strm.handle THEN QuicWriteDone(y, "ok") ELSE y)
    BY <1>2, <1>3, <1>13 DEF QuicCanWrite, QuicSent
  <2>2. /\ IsState(y) /\ y.tasks = x.tasks
        /\ y.strm = [x.strm EXCEPT !.unsent = FALSE, !.handle = @ \ {"write"}]
    BY <1>4 DEF HasStream, IsState, QuicSent
  <2> HIDE DEF y
  <2>3. /\ IsQuicStream(y.strm) /\ y.strm.open = x.strm.open
        /\ y.strm.delivered = x.strm.delivered /\ y.strm.requested = x.strm.requested
        /\ y.strm.reply = x.strm.reply /\ y.strm.handle = x.strm.handle \ {"write"}
    BY <1>4, <2>2 DEF HasStream, IsQuicStream
  <2>4. Goes(x, y)
    BY <1>4, <2>2, <2>3 DEF Goes, HasStream
  <2>5. Goes(y, QuicWriteDone(y, "ok")) /\ Delivery(y)
    BY <1>1, <1>3, <2>4, AnswersGo, GoesKeeps DEF Goes
  <2> QED BY <1>3, <2>1, <2>4, <2>5, GoesBecomes
<1>14. ASSUME NEW task \in QuicTasks, QuicTask(task) PROVE Delivery(Now')
  <2> DEFINE y == QuicPopped(x)
  <2>1. /\ x.tasks # <<>> /\ Head(x.tasks) = task
        /\ Become(CASE task = "headers" -> QuicHeadersTask(y)
                    [] task = "data" -> QuicDataTask(y)
                    [] task = "trailers" -> QuicTrailersTask(y)
                    [] task = "close" -> QuicCloseTask(y))
    BY <1>2, <1>3, <1>14 DEF QuicTask, QuicPopped
  <2>2. y.strm = x.strm
    BY <1>4 DEF HasStream, IsState, QuicPopped
  <2> HIDE DEF y
  <2>3. CASE task = "headers"
    <3>1. x.strm.reply \in Replies /\ x.strm.requested
      BY <1>3, <1>4, <1>5, <2>1, <2>3, QuicRuns DEF HasStream, IsQuicStream
    <3>2. Delivery(QuicHeadersTask(y))
      BY <1>1, <1>3, <1>4, <2>1, <2>3, <3>1, HeadersTaskDelivers DEF y
    <3> QED BY <2>1, <2>3, <3>2, DeliveryBecomes
  <2>4. CASE task # "headers"
    <3>1. x.strm.open => x.strm.delivered /\ "read_headers" \notin x.strm.handle
      BY <1>3, <2>1, <2>4 DEF Delivery, Told
    <3>2. Goes(x, y)
      BY <1>4, <2>1, <3>1, PoppedGoes DEF y
    <3>3. HasStream(y) /\ Delivery(y)
      BY <1>3, <3>2, GoesKeeps DEF Goes
    <3>4. /\ Goes(y, QuicDataTask(y)) /\ Goes(y, QuicTrailersTask(y))
          /\ Goes(y, QuicCloseTask(y))
      BY <1>1, <2>2, <3>1, <3>3, OtherTasksGo
    <3>5. task \in {"data", "trailers", "close"}
      BY <2>4 DEF QuicTasks
    <3> QED BY <2>1, <3>3, <3>4, <3>5, GoesBecomes
  <2> QED BY <2>3, <2>4
<1>15. CASE QuicRead
  <2> DEFINE y == Checks(x, "Read", x.sock.callbacks \cap {"connect", "read"} = {})
             r == ReadData(Take(y).x, Take(y).data)
             h == [y EXCEPT !.strm.handle = @ \cup {"read_body"}]
             a == Awaits(h, "read")
  <2>1. Become(ReadEnds(y)) \/ Become(r) \/ Become(a)
    BY <1>2, <1>3, <1>15 DEF QuicRead
  <2>2. Goes(x, y)
    BY <1>4, UserGoes
  <2>3. HasStream(y) /\ Delivery(y)
    BY <1>3, <2>2, GoesKeeps DEF Goes
  <2> HIDE DEF y
  <2>4. Goes(y, ReadEnds(y))
    BY <1>1, <2>3, GoneGoes DEF ReadEnds
  <2>5. Delivery(r)
    <3>1. Goes(y, Take(y).x)
      BY <2>3, TakenGoes
    <3>2. HasStream(Take(y).x) /\ Delivery(Take(y).x)
      BY <2>3, <3>1, GoesKeeps DEF Goes
    <3>3. Goes(Take(y).x, r)
      BY <3>2, UserGoes
    <3> HIDE DEF r
    <3> QED BY <3>2, <3>3, GoesKeeps
  <2> HIDE DEF r
  <2>6. Delivery(a)
    <3>1. /\ IsState(h) /\ h.tasks = y.tasks
          /\ h.strm = [y.strm EXCEPT !.handle = @ \cup {"read_body"}]
      BY <2>3 DEF HasStream, IsState
    <3> HIDE DEF h
    <3>2. /\ IsQuicStream(h.strm) /\ h.strm.open = y.strm.open
          /\ h.strm.delivered = y.strm.delivered /\ h.strm.requested = y.strm.requested
          /\ h.strm.reply = y.strm.reply /\ h.strm.handle = y.strm.handle \cup {"read_body"}
      BY <2>3, <3>1 DEF HasStream, IsQuicStream
    <3>3. Goes(y, h)
      BY <2>3, <3>1, <3>2 DEF Goes, HasStream
    <3>4. HasStream(h) /\ Delivery(h)
      BY <2>3, <3>3, GoesKeeps DEF Goes
    <3>5. Goes(h, a)
      BY <3>4, UserGoes
    <3> HIDE DEF a
    <3> QED BY <3>4, <3>5, GoesKeeps
  <2> HIDE DEF a
  <2> QED BY <2>1, <2>3, <2>4, <2>5, <2>6, GoesBecomes, DeliveryBecomes
<1>16. CASE QuicWrite
  <2> DEFINE w == Writing(x)
             y == Checks(w, "Write", x.sock.callbacks \cap {"connect", "write"} = {})
             h == [y EXCEPT !.strm.handle = @ \cup {"write"}, !.strm.unsent = TRUE]
             a == Awaits(h, "write")
  <2>1. Become(WriteDone(y, "error")) \/ Become(WriteDone(y, "ok")) \/ Become(a)
    BY <1>2, <1>3, <1>16 DEF QuicWrite
  <2>2. Goes(x, w)
    BY <1>4, UserGoes
  <2>3. HasStream(w) /\ Delivery(w)
    BY <1>3, <2>2, GoesKeeps DEF Goes
  <2> HIDE DEF w
  <2>4. Goes(w, y)
    BY <2>3, UserGoes
  <2>5. HasStream(y) /\ Delivery(y)
    BY <2>3, <2>4, GoesKeeps DEF Goes
  <2> HIDE DEF y
  <2>6. Goes(y, WriteDone(y, "error")) /\ Goes(y, WriteDone(y, "ok"))
    BY <1>1, <2>5, WriteGoes
  <2>7. Delivery(a)
    <3>1. /\ IsState(h) /\ h.tasks = y.tasks
          /\ h.strm = [y.strm EXCEPT !.handle = @ \cup {"write"}, !.unsent = TRUE]
      BY <2>5 DEF HasStream, IsState
    <3> HIDE DEF h
    <3>2. /\ IsQuicStream(h.strm) /\ h.strm.open = y.strm.open
          /\ h.strm.delivered = y.strm.delivered /\ h.strm.requested = y.strm.requested
          /\ h.strm.reply = y.strm.reply /\ h.strm.handle = y.strm.handle \cup {"write"}
      BY <2>5, <3>1 DEF HasStream, IsQuicStream
    <3>3. Goes(y, h)
      BY <2>5, <3>1, <3>2 DEF Goes, HasStream
    <3>4. HasStream(h) /\ Delivery(h)
      BY <2>5, <3>3, GoesKeeps DEF Goes
    <3>5. Goes(h, a)
      BY <3>4, UserGoes
    <3> HIDE DEF a
    <3> QED BY <3>4, <3>5, GoesKeeps
  <2> HIDE DEF a
  <2> QED BY <2>1, <2>5, <2>6, <2>7, GoesBecomes, DeliveryBecomes
<1> QED BY <1>6, <1>7, <1>8, <1>9, <1>10, <1>11, <1>12, <1>13, <1>14, <1>15, <1>16 DEF QuicNext

-----------------------------------------------------------------------------
\* The tunnel.

LEMMA InitInv == Init => Inv
<1> SUFFICES ASSUME Init PROVE Inv
  OBVIOUS
<1>1. kind \in {"spdy", "quic"} /\ sock = NewSocket /\ user = NewUser /\ tasks = <<>>
  BY KindsAssumption DEF Init
<1>2. IsSocket(sock) /\ IsUser(user) /\ IsState(Now)
  BY <1>1, EmptySeq DEF IsSocket, IsUser, IsState, NewSocket, NewUser, Now
<1>3. InOrder(<<>>, <<>>, 0)
  <2>1. Len(<<>>) = 0
    OBVIOUS
  <2> QED BY <2>1 DEF InOrder
<1>4. CASE kind = "spdy"
  <2>1. strm = NewSpdyStream
    BY <1>4 DEF Init
  <2>2. SpdyTypes(sock, strm, tasks, user)
    BY <1>1, <1>2, <2>1, EmptySeq DEF SpdyTypes, IsSpdyStream, NewSpdyStream
  <2>3. SpdyBegins(sock, strm, tasks, user) /\ SpdyReplied(strm, user)
    BY <1>1, <2>1 DEF SpdyBegins, SpdyReplied, NewSocket, NewUser, NewSpdyStream
  <2>4. SpdyKept(sock, strm, tasks, user) /\ user.phase = "new"
    BY <1>1, <1>3, <2>1 DEF SpdyKept, NewSocket, NewUser, NewSpdyStream
  <2>5. SpdyInv(Now)
    BY <1>2, <2>2, <2>3, <2>4 DEF SpdyInv, SpdyGood, Now
  <2> QED BY <1>4, <2>5 DEF Inv
<1>5. CASE kind = "quic"
  <2>1. strm = NewQuicStream
    BY <1>5 DEF Init
  <2>2. QuicTypes(sock, strm, tasks, user)
    BY <1>1, <1>2, <2>1, EmptySeq DEF QuicTypes, IsQuicStream, NewQuicStream
  <2>3. QuicPhase(sock, strm, tasks, user)
    BY <1>1, <2>1 DEF QuicPhase, NewSocket, NewUser, NewQuicStream
  <2>4. QuicReplied(sock, strm, tasks, user)
    BY <1>1, <2>1 DEF QuicReplied, NoHeaders, NewSocket, NewUser, NewQuicStream
  <2>5. QuicKept(sock, strm, user)
    BY <1>1, <1>3, <2>1 DEF QuicKept, NewSocket, NewUser, NewQuicStream
  <2>6. QuicInv(Now)
    BY <1>2, <2>2, <2>3, <2>4, <2>5 DEF QuicInv, QuicGood, Now
  <2>7. Delivery(Now)
    BY <1>1, <2>1 DEF Delivery, Told, NewQuicStream, Now
  <2> QED BY <1>5, <2>6, <2>7 DEF Inv
<1> QED BY <1>1, <1>4, <1>5

LEMMA NextInv == Inv /\ [Next]_vars => Inv'
<1> SUFFICES ASSUME Inv, [Next]_vars PROVE Inv'
  OBVIOUS
<1>1. PICK x : x = Now
  OBVIOUS
<1>2. x.user = user /\ x.sock = sock
  BY <1>1 DEF Now
<1>3. \/ kind = "spdy" /\ SpdyInv(x)
      \/ kind = "quic" /\ QuicInv(x) /\ Delivery(x) /\ HasStream(x)
  BY <1>1, QuicHas DEF Inv, HasStream
<1>4. CASE SpdyNext
  BY <1>4, SpdyNextKeeps
<1>5. CASE QuicNext
  BY <1>5, QuicNextKeeps, QuicNextDelivers DEF Inv
<1>6. CASE RestartWithAuth
  <2>1. Become(SetState(x, "DISCONNECTED")) /\ x.user.phase = "challenged"
    BY <1>1, <1>2, <1>6 DEF RestartWithAuth
  <2>2. CASE kind = "spdy"
    BY <1>3, <2>1, <2>2, SpdyRestarts, SpdyBecomes
  <2>3. CASE kind = "quic"
    <3>1. kind' = "quic" /\ QuicInv(Now')
      BY <1>3, <2>1, <2>3, QuicRestarts, QuicBecomes
    <3>2. Delivery(Now')
      BY <1>3, <2>1, <2>3, UserGoes, GoesBecomes
    <3> QED BY <3>1, <3>2 DEF Inv
  <2> QED BY <1>3, <2>2, <2>3
<1>7. CASE UserDisconnects
  <2>1. Become(Disconnected(x)) /\ x.user.phase = "connected"
    BY <1>1, <1>2, <1>7 DEF UserDisconnects
  <2>2. CASE kind = "spdy"
    <3>1. SpdyInv(Disconnected(x))
      BY <1>3, <2>2, SpdyHas, SpdyGone
    <3> QED BY <2>1, <2>2, <3>1, SpdyBecomes
  <2>3. CASE kind = "quic"
    <3>1. /\ x.user.stray = {}
          /\ "read_headers" \in x.strm.handle =>
               x.sock.use_fastopen /\ x.sock.read_headers_pending
      BY <1>3, <2>1, <2>3, QuicHas DEF QuicKept, QuicPhase
    <3>2. QuicInv(Disconnected(x))
      BY <1>3, <2>3, <3>1, QuicHas, QuicGone
    <3>3. kind' = "quic" /\ QuicInv(Now')
      BY <2>1, <2>3, <3>2, QuicBecomes
    <3>4. Delivery(Now')
      BY <1>3, <2>1, <2>3, GoneGoes, GoesBecomes
    <3> QED BY <3>3, <3>4 DEF Inv
  <2> QED BY <1>3, <2>2, <2>3
<1>8. CASE UserDestroys
  <2>1. Become(Destroyed(x))
    BY <1>1, <1>8 DEF UserDestroys
  <2>2. CASE kind = "spdy"
    <3>1. SpdyInv(Destroyed(x))
      BY <1>3, <2>2, SpdyHas, SpdyGone
    <3> QED BY <2>1, <2>2, <3>1, SpdyBecomes
  <2>3. CASE kind = "quic"
    <3>1. x.user.stray = {}
      BY <1>3, <2>3, QuicHas DEF QuicKept
    <3>2. QuicInv(Destroyed(x))
      BY <1>3, <2>3, <3>1, QuicHas, QuicGone
    <3>3. kind' = "quic" /\ QuicInv(Now')
      BY <2>1, <2>3, <3>2, QuicBecomes
    <3>4. Delivery(Now')
      BY <1>3, <2>1, <2>3, GoneGoes, GoesBecomes
    <3> QED BY <3>3, <3>4 DEF Inv
  <2> QED BY <1>3, <2>2, <2>3
<1>9. CASE UNCHANGED vars
  BY <1>9 DEF vars, Inv, Delivery, Now
<1> QED BY <1>4, <1>5, <1>6, <1>7, <1>8, <1>9 DEF Next, Terminated

(***************************************************************************)
(* The invariant holds in every state of a tunnel.                         *)
(***************************************************************************)
THEOREM Invariance == Spec => []Inv
BY InitInv, NextInv, PTL DEF Spec

-----------------------------------------------------------------------------
\* What the properties of ProxyTunnel say.

LEMMA SpdyImplies ==
  ASSUME kind = "spdy", SpdyInv(Now)
  PROVE  OneAnswerEach /\ DchecksHold /\ RefusalIsSilent /\ NothingLost
<1>1. PICK x : x = Now
  OBVIOUS
<1>2. SpdyInv(x) /\ x.sock = sock /\ x.strm = strm /\ x.tasks = tasks /\ x.user = user
  BY <1>1 DEF Now
<1>3. OneAnswerEach
  BY <1>2, SpdyHas DEF OneAnswerEach, Kept, SpdyKept, SpdyTypes, IsUser
<1>4. DchecksHold
  BY <1>2, SpdyHas DEF DchecksHold, SpdyTypes, IsSocket
<1>5. RefusalIsSilent
  BY <1>2, SpdyHas DEF RefusalIsSilent, SpdyReplied
<1>6. NothingLost
  <2>1. ASSUME user.phase = "connected"
        PROVE  /\ user.got \in Seq(Nat) /\ strm.buffered \in Seq(Nat) /\ strm.received \in Nat
               /\ InOrder(user.got, strm.buffered, strm.received)
    BY <1>2, <2>1, SpdyHas DEF SpdyTypes, IsUser, IsSpdyStream, SpdyKept
  <2> QED BY <2>1, InOrderIsAll DEF NothingLost
<1> QED BY <1>3, <1>4, <1>5, <1>6

LEMMA QuicImplies ==
  ASSUME kind = "quic", QuicInv(Now)
  PROVE  OneAnswerEach /\ DchecksHold /\ RefusalIsSilent /\ NothingLost
<1>1. PICK x : x = Now
  OBVIOUS
<1>2. QuicInv(x) /\ x.sock = sock /\ x.strm = strm /\ x.tasks = tasks /\ x.user = user
  BY <1>1 DEF Now
<1>3. OneAnswerEach
  BY <1>2, QuicHas DEF OneAnswerEach, Kept, QuicKept
<1>4. DchecksHold
  BY <1>2, QuicHas DEF DchecksHold, IsSocket
<1>5. RefusalIsSilent
  BY <1>2, QuicHas DEF RefusalIsSilent, QuicReplied
<1>6. NothingLost
  <2>1. ASSUME user.phase = "connected"
        PROVE  /\ user.got \in Seq(Nat) /\ strm.buffered \in Seq(Nat) /\ strm.received \in Nat
               /\ InOrder(user.got, strm.buffered, strm.received)
    BY <1>2, <2>1, QuicHas DEF IsUser, IsQuicStream, QuicKept
  <2> QED BY <2>1, InOrderIsAll DEF NothingLost
<1> QED BY <1>3, <1>4, <1>5, <1>6

LEMMA InvImplies == Inv => OneAnswerEach /\ DchecksHold /\ RefusalIsSilent /\ NothingLost
BY SpdyImplies, QuicImplies DEF Inv

(***************************************************************************)
(* The two client sockets answer every Connect, Read and Write of their    *)
(* user once and forget none.                                              *)
(***************************************************************************)
THEOREM AlwaysOneAnswerEach == Spec => []OneAnswerEach
BY Invariance, InvImplies, PTL

(***************************************************************************)
(* No DCHECK of the two client sockets fails, in any order of events.      *)
(***************************************************************************)
THEOREM DchecksAlwaysHold == Spec => []DchecksHold
BY Invariance, InvImplies, PTL

(***************************************************************************)
(* What a proxy sends with a refusal never reaches the user as data, but   *)
(* with Fast Open over QUIC.                                               *)
(***************************************************************************)
THEOREM RefusalAlwaysSilent == Spec => []RefusalIsSilent
BY Invariance, InvImplies, PTL

(***************************************************************************)
(* Whatever arrives for a tunnel in use was read or is kept to be read, in *)
(* order and nothing twice.                                                *)
(***************************************************************************)
THEOREM NothingEverLost == Spec => []NothingLost
BY Invariance, InvImplies, PTL
=============================================================================
