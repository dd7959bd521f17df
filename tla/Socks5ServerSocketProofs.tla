---------------------- MODULE Socks5ServerSocketProofs ----------------------
(***************************************************************************)
(* Proofs that the SOCKS5 handshake understands its client however the     *)
(* transport cuts the messages, for any client that follows the framing of *)
(* the protocol.                                                           *)
(***************************************************************************)
EXTENDS Socks5ServerSocket, SequenceTheorems, TLAPS

\* The number of methods a client offers is what the code takes it for: where
\* char is signed, it is below 128.
MethodsFit == \A c \in Clients : Char(Len(c.methods)) = Len(c.methods)

GreetSize == 2 + Len(client.methods)
RequestLength(c) ==
  6 + Len(c.address) + (IF c.address_type = kEndPointDomain THEN 1 ELSE 0)
HandshakeSize == GreetSize + RequestLength(client)

-----------------------------------------------------------------------------
(***************************************************************************)
(* The invariant: one of the phases of a connection.                       *)
(***************************************************************************)
\* Connect has not returned.
Connecting(start, complete) ==
  /\ next_state \in {start, complete} /\ result = ERR_IO_PENDING
  /\ completed_handshake = FALSE /\ delivered = <<>>
  /\ looping = TRUE => io = "none"

\* A message of size bytes, after the first ones of the stream, is being read.
Reading(first, size, start) ==
  /\ bytes_received \in 0..(size - 1)
  /\ buffer = SubSeq(Stream, first + 1, first + bytes_received)
  /\ \/ /\ looping = TRUE /\ next_state = start /\ rv = OK
        /\ taken = first + bytes_received
     \/ /\ looping = TRUE /\ next_state # start /\ rv \in 1..(size - bytes_received)
        /\ taken = first + bytes_received + rv
     \/ /\ looping = TRUE /\ next_state # start
        /\ rv \in {0, ERR_CONNECTION_RESET} /\ (rv = 0 => closed = TRUE)
     \/ /\ looping = FALSE /\ next_state # start /\ io = "read"
        /\ taken = first + bytes_received

\* The answer is being written, after what was written before.
Writing(before, answer, start) ==
  \/ /\ looping = TRUE /\ next_state = start /\ rv = OK
     /\ buffer = <<>> /\ written = before
  \/ /\ buffer = answer /\ bytes_sent \in 0..(Len(answer) - 1)
     /\ \/ /\ looping = TRUE /\ next_state = start /\ rv = OK
           /\ written = before \o SubSeq(answer, 1, bytes_sent)
        \/ /\ looping = TRUE /\ next_state # start /\ rv \in 0..(Len(answer) - bytes_sent)
           /\ written = before \o SubSeq(answer, 1, bytes_sent + rv)
        \/ /\ looping = TRUE /\ next_state # start /\ rv = ERR_CONNECTION_RESET
        \/ /\ looping = FALSE /\ next_state # start /\ io = "write"
           /\ written = before \o SubSeq(answer, 1, bytes_sent)

Fresh ==
  /\ next_state = "NONE" /\ looping = FALSE /\ io = "none" /\ result = NotConnected
  /\ completed_handshake = FALSE /\ delivered = <<>>
  /\ bytes_received = 0 /\ taken = 0 /\ written = <<>>
  /\ greet_read_header_size = kGreetReadHeaderSize /\ read_header_size = kReadHeaderSize

GreetReading ==
  /\ Connecting("GREET_READ", "GREET_READ_COMPLETE")
  /\ Reading(0, greet_read_header_size, "GREET_READ")
  /\ greet_read_header_size = IF bytes_received < 2 THEN 2 ELSE GreetSize
  /\ bytes_received >= 2 => GreetingIsValid(client)
  /\ read_header_size = kReadHeaderSize /\ written = <<>>

GreetWriting ==
  /\ Connecting("GREET_WRITE", "GREET_WRITE_COMPLETE")
  /\ Writing(<<>>, <<kSOCKS5Version, learnt.auth_method>>, "GREET_WRITE")
  /\ GreetingIsValid(client) /\ learnt.auth_method = AuthMethod(client.methods)
  /\ read_header_size = kReadHeaderSize /\ taken = GreetSize

\* The client was offered no authentication.
Greeted ==
  GreetingIsValid(client) /\ AuthMethod(client.methods) = kAuthMethodNone

HandshakeReading ==
  /\ Connecting("HANDSHAKE_READ", "HANDSHAKE_READ_COMPLETE")
  /\ Reading(GreetSize, read_header_size, "HANDSHAKE_READ")
  /\ read_header_size = IF bytes_received < 5 THEN 5 ELSE RequestLength(client)
  /\ bytes_received >= 5 =>
       /\ RequestIsValid(client) /\ learnt.reply = ReplyTo(client.command)
       /\ learnt.address_type = client.address_type
       /\ learnt.address_size = Len(client.address)
  /\ Greeted /\ written = <<kSOCKS5Version, kAuthMethodNone>>

Understood ==
  /\ Greeted /\ RequestIsValid(client) /\ learnt.reply = ReplyTo(client.command)
  /\ learnt.request_endpoint =
       [is_domain |-> client.address_type = kEndPointDomain,
        address |-> client.address, port |-> client.port]

HandshakeWriting ==
  /\ Connecting("HANDSHAKE_WRITE", "HANDSHAKE_WRITE_COMPLETE")
  /\ Writing(<<kSOCKS5Version, kAuthMethodNone>>, ReplyBytes(learnt.reply),
             "HANDSHAKE_WRITE")
  /\ Understood /\ taken = HandshakeSize

Connected ==
  /\ next_state = "NONE" /\ looping = FALSE /\ io = "none" /\ result = OK
  /\ completed_handshake = TRUE
  /\ Understood /\ learnt.reply = kReplySuccess
  /\ written = ExpectedReplies(client)
  /\ taken = HandshakeSize + Len(delivered) /\ delivered \in Seq(Byte)
  /\ taken <= Len(Stream)
  /\ delivered = SubSeq(Stream, HandshakeSize + 1, taken)

Failed ==
  /\ next_state = "NONE" /\ looping = FALSE /\ io = "none"
  /\ result = ERR_SOCKS_CONNECTION_FAILED /\ completed_handshake = FALSE
  /\ closed = FALSE =>
       /\ written = ExpectedReplies(client)
       /\ ~(Greeted /\ RequestIsValid(client) /\ client.command = kCommandConnect)

Over ==
  /\ next_state = "NONE" /\ looping = FALSE /\ io = "none"
  /\ result \in {ERR_CONNECTION_RESET, Disconnected} /\ completed_handshake = FALSE

Inv ==
  /\ client \in Clients /\ closed \in BOOLEAN
  /\ DOMAIN learnt = {"auth_method", "reply", "address_type", "address_size",
                      "request_endpoint"}
  /\ \/ Fresh \/ GreetReading \/ GreetWriting \/ HandshakeReading
     \/ HandshakeWriting \/ Connected \/ Failed \/ Over

-----------------------------------------------------------------------------
\* Sequences of bytes.

IsJoin(st, s, t, S) ==
  /\ st \in Seq(S) /\ Len(st) = Len(s) + Len(t)
  /\ Len(s) \in Nat /\ Len(t) \in Nat
  /\ \A i \in 1..Len(s) : st[i] = s[i]
  /\ \A i \in 1..Len(t) : st[Len(s) + i] = t[i]

\* The bytes of a concatenation.
LEMMA Joined ==
  ASSUME NEW S, NEW s \in Seq(S), NEW t \in Seq(S)
  PROVE  IsJoin(s \o t, s, t, S)
<1> DEFINE st == s \o t
<1>1. /\ st \in Seq(S) /\ Len(st) = Len(s) + Len(t)
      /\ \A i \in 1..(Len(s) + Len(t)) :
           st[i] = IF i <= Len(s) THEN s[i] ELSE t[i - Len(s)]
  BY ConcatProperties
<1>2. Len(s) \in Nat /\ Len(t) \in Nat
  BY LenProperties
<1> HIDE DEF st
<1>3. \A i \in 1..Len(s) : st[i] = s[i]
  BY <1>1, <1>2
<1>4. ASSUME NEW i \in 1..Len(t) PROVE st[Len(s) + i] = t[i]
  <2>1. Len(s) + i \in 1..(Len(s) + Len(t)) /\ ~(Len(s) + i <= Len(s)) /\ (Len(s) + i) - Len(s) = i
    BY <1>2
  <2> QED BY <1>1, <2>1
<1>5. IsJoin(st, s, t, S)
  BY <1>1, <1>2, <1>3, <1>4 DEF IsJoin
<1> QED BY <1>5 DEF st

\* The bytes of a piece of a sequence.
LEMMA Piece ==
  ASSUME NEW S, NEW s \in Seq(S), NEW m \in Nat, NEW n \in Nat, m <= n, n <= Len(s)
  PROVE  /\ SubSeq(s, m + 1, n) \in Seq(S) /\ Len(SubSeq(s, m + 1, n)) = n - m
         /\ \A i \in 1..(n - m) : SubSeq(s, m + 1, n)[i] = s[m + i]
<1>1. Len(s) \in Nat /\ m + 1 \in Int
  BY LenProperties
<1>2. \A i \in (m + 1)..n : s[i] \in S
  BY <1>1, ElementOfSeq
<1> DEFINE p == SubSeq(s, m + 1, n)
<1>3. /\ p \in Seq(S) /\ Len(p) = IF m + 1 <= n THEN n - (m + 1) + 1 ELSE 0
      /\ \A i \in 1..(n - (m + 1) + 1) : p[i] = s[(m + 1) + i - 1]
  BY <1>1, <1>2, SubSeqProperties
<1> HIDE DEF p
<1>4. \A i \in 1..(n - m) : p[i] = s[m + i]
  <2> SUFFICES ASSUME NEW i \in 1..(n - m) PROVE p[i] = s[m + i]
    OBVIOUS
  <2>1. (m + 1) + i - 1 = m + i /\ i \in 1..(n - (m + 1) + 1)
    OBVIOUS
  <2> QED BY <1>3, <2>1
<1>5. Len(p) = n - m
  BY <1>3
<1> QED BY <1>3, <1>4, <1>5 DEF p

\* p is the piece of s after its first m bytes, up to the n-th.
IsPiece(p, s, m, n, S) ==
  p \in Seq(S) /\ Len(p) = n - m /\ \A i \in 1..(n - m) : p[i] = s[m + i]

\* The same, as one fact.
LEMMA PieceIsPiece ==
  ASSUME NEW S, NEW s \in Seq(S), NEW m \in Nat, NEW n \in Nat, m <= n, n <= Len(s)
  PROVE  IsPiece(SubSeq(s, m + 1, n), s, m, n, S)
<1> DEFINE p == SubSeq(s, m + 1, n)
<1>1. p \in Seq(S) /\ Len(p) = n - m /\ \A i \in 1..(n - m) : p[i] = s[m + i]
  BY Piece
<1> HIDE DEF p
<1>2. IsPiece(p, s, m, n, S)
  BY <1>1 DEF IsPiece
<1> QED BY <1>2 DEF p

\* The bytes of the first piece of a sequence.
LEMMA FirstPiece ==
  ASSUME NEW S, NEW s \in Seq(S), NEW n \in Nat, n <= Len(s)
  PROVE  /\ SubSeq(s, 1, n) \in Seq(S) /\ Len(SubSeq(s, 1, n)) = n
         /\ \A i \in 1..n : SubSeq(s, 1, n)[i] = s[i]
<1> DEFINE p == SubSeq(s, 0 + 1, n)
<1>1. p \in Seq(S) /\ Len(p) = n - 0 /\ \A i \in 1..(n - 0) : p[i] = s[0 + i]
  BY Piece
<1>2. SubSeq(s, 1, n) = p
  OBVIOUS
<1> HIDE DEF p
<1>3. Len(p) = n /\ \A i \in 1..n : p[i] = s[i]
  BY <1>1
<1> QED BY <1>1, <1>2, <1>3

\* A piece is what its bytes are.
LEMMA PieceIs ==
  ASSUME NEW S, NEW s \in Seq(S), NEW t \in Seq(S), NEW m \in Nat,
         m + Len(t) <= Len(s), \A i \in 1..Len(t) : s[m + i] = t[i]
  PROVE  SubSeq(s, m + 1, m + Len(t)) = t
<1> DEFINE n == m + Len(t)  p == SubSeq(s, m + 1, n)
<1>1. Len(t) \in Nat /\ Len(s) \in Nat
  BY LenProperties
<1>2. n \in Nat /\ m <= n /\ n <= Len(s) /\ n - m = Len(t)
  BY <1>1
<1> HIDE DEF n
<1>3. p \in Seq(S) /\ Len(p) = n - m /\ \A i \in 1..(n - m) : p[i] = s[m + i]
  BY <1>2, Piece
<1> HIDE DEF p
<1>4. p = t
  BY <1>2, <1>3, SeqEqual
<1> QED BY <1>4 DEF p, n

\* Adjacent pieces make one piece: what Reads bring in parts is the whole.
LEMMA PiecesJoin ==
  ASSUME NEW S, NEW s \in Seq(S), NEW k \in Nat, NEW m \in Nat, NEW n \in Nat,
         k <= m, m <= n, n <= Len(s)
  PROVE  SubSeq(s, k + 1, m) \o SubSeq(s, m + 1, n) = SubSeq(s, k + 1, n)
<1>1. Len(s) \in Nat
  BY LenProperties
<1>2. k + 1 \in 1..(Len(s) + 1) /\ m \in ((k + 1) - 1)..Len(s) /\ n \in m..Len(s)
  BY <1>1
<1> QED BY <1>2, ConcatAdjacentSubSeq

\* A piece that ends before it starts is empty.
LEMMA NoPiece == ASSUME NEW s, NEW m \in Nat PROVE SubSeq(s, m + 1, m) = <<>>
BY SubSeqEmpty

\* The fields of a client's messages are bytes and byte strings.
LEMMA Bytes ==
  ASSUME NEW c \in Clients
  PROVE  /\ c.greet_version \in Byte /\ c.version \in Byte /\ c.command \in Byte
         /\ c.reserved \in Byte /\ c.address_type \in Byte /\ c.port \in Port
         /\ c.methods \in Seq(Byte) /\ c.address \in Seq(Byte) /\ c.payload \in Seq(Byte)
         /\ Len(c.methods) \in Byte /\ Len(c.address) \in Byte
<1>1. c \in ClientType /\ Len(c.methods) \in Byte /\ Len(c.address) \in Byte
  BY ClientsAssumption
<1> QED BY <1>1 DEF ClientType

\* A request has its six fixed bytes and its address.
LEMMA RequestLengthIs ==
  ASSUME NEW c, Len(c.address) \in Nat
  PROVE  RequestLength(c) \in Nat /\ RequestLength(c) >= 6 + Len(c.address)
<1> DEFINE n == RequestLength(c)  l == Len(c.address)
<1>1. n = 6 + l + (IF c.address_type = kEndPointDomain THEN 1 ELSE 0)
  BY Zenon DEF RequestLength
<1> HIDE DEF n, l
<1>2. n = 6 + l + 0 \/ n = 6 + l + 1
  BY <1>1
<1> QED BY <1>2 DEF n, l

\* The bytes of the greeting.
LEMMA GreetingBytes ==
  ASSUME NEW c \in Clients
  PROVE  /\ Greeting(c) \in Seq(Byte) /\ Len(Greeting(c)) = 2 + Len(c.methods)
         /\ Greeting(c)[1] = c.greet_version /\ Greeting(c)[2] = Len(c.methods)
         /\ \A i \in 1..Len(c.methods) : Greeting(c)[2 + i] = c.methods[i]
<1> DEFINE a == <<c.greet_version, Len(c.methods)>>  b == c.methods
<1>1. a \in Seq(Byte) /\ Len(a) = 2 /\ a[1] = c.greet_version /\ a[2] = Len(c.methods)
  BY Bytes
<1>2. b \in Seq(Byte) /\ b = c.methods
  BY Bytes
<1> HIDE DEF a, b
<1> DEFINE g == a \o b
<1>3. IsJoin(g, a, b, Byte)
  BY <1>1, <1>2, Joined
<1>4. Greeting(c) = g
  BY DEF Greeting, a, b
<1> HIDE DEF g
<1>5. 1 \in 1..Len(a) /\ 2 \in 1..Len(a)
  BY <1>1
<1> QED BY <1>1, <1>2, <1>3, <1>4, <1>5 DEF IsJoin

\* The bytes of the request.
LEMMA RequestBytes ==
  ASSUME NEW c \in Clients, NEW n, n = RequestLength(c)
  PROVE  /\ Request(c) \in Seq(Byte) /\ Len(Request(c)) = n
         /\ Request(c)[1] = c.version /\ Request(c)[2] = c.command
         /\ Request(c)[3] = c.reserved /\ Request(c)[4] = c.address_type
         /\ c.address_type = kEndPointDomain => Request(c)[5] = Len(c.address)
         /\ \A i \in 1..Len(c.address) :
              Request(c)[(n - 2 - Len(c.address)) + i] = c.address[i]
         /\ 256 * Request(c)[n - 1] + Request(c)[n] = c.port
<1> DEFINE a == <<c.version, c.command, c.reserved, c.address_type>>
           b == IF c.address_type = kEndPointDomain THEN <<Len(c.address)>> ELSE <<>>
           d == c.address
           e == <<c.port \div 256, c.port % 256>>
           l == Len(c.address)
<1>1. /\ a \in Seq(Byte) /\ Len(a) = 4
      /\ a[1] = c.version /\ a[2] = c.command /\ a[3] = c.reserved /\ a[4] = c.address_type
  BY Bytes
<1>2. /\ b \in Seq(Byte) /\ (Len(b) = IF c.address_type = kEndPointDomain THEN 1 ELSE 0)
      /\ c.address_type = kEndPointDomain => b[1] = Len(c.address)
  BY Bytes
<1>3. d \in Seq(Byte) /\ Len(d) = l /\ l \in Nat
  BY Bytes DEF Byte
<1>4. /\ e \in Seq(Byte) /\ Len(e) = 2 /\ 256 * e[1] + e[2] = c.port
  <2>1. PICK p \in Nat : p = c.port /\ p < 65536
    BY Bytes DEF Port
  <2>2. /\ p \div 256 \in Nat /\ p % 256 \in Nat /\ p % 256 < 256
        /\ p = 256 * (p \div 256) + (p % 256)
    OBVIOUS
  <2>3. \A q, z \in Nat : p = 256 * q + z => q < 256
    BY <2>1
  <2>4. p \div 256 \in Byte /\ p % 256 \in Byte
    BY <2>2, <2>3 DEF Byte
  <2> QED BY <2>1, <2>2, <2>4
<1>5. Request(c) = ((a \o b) \o d) \o e
  BY DEF Request
<1>6. n = 6 + l + Len(b) /\ Len(b) \in Nat
  BY <1>2 DEF RequestLength
<1>d. c.address = d
  OBVIOUS
<1> HIDE DEF a, b, d, e, l
<1> DEFINE ab == a \o b
<1>70. IsJoin(ab, a, b, Byte)
  BY <1>1, <1>2, Joined
<1> HIDE DEF ab
<1>7. /\ ab \in Seq(Byte) /\ Len(ab) = 4 + Len(b)
      /\ \A i \in 1..Len(a) : ab[i] = a[i]
      /\ \A i \in 1..Len(b) : ab[Len(a) + i] = b[i]
  BY <1>1, <1>70 DEF IsJoin
<1> DEFINE abd == ab \o d
<1>80. IsJoin(abd, ab, d, Byte)
  BY <1>3, <1>7, Joined
<1> HIDE DEF abd
<1>8. /\ abd \in Seq(Byte) /\ Len(abd) = 4 + Len(b) + l
      /\ \A i \in 1..Len(ab) : abd[i] = ab[i]
      /\ \A i \in 1..Len(d) : abd[Len(ab) + i] = d[i]
  BY <1>3, <1>7, <1>80 DEF IsJoin
<1> DEFINE r == abd \o e
<1>90. IsJoin(r, abd, e, Byte)
  BY <1>4, <1>8, Joined
<1> HIDE DEF r
<1>9. /\ r \in Seq(Byte) /\ Len(r) = 4 + Len(b) + l + 2
      /\ \A i \in 1..Len(abd) : r[i] = abd[i]
      /\ \A i \in 1..Len(e) : r[Len(abd) + i] = e[i]
  BY <1>4, <1>8, <1>90 DEF IsJoin
<1>10. Request(c) = r
  BY <1>5 DEF r, abd, ab
<1>11. \A i \in 1..4 : r[i] = a[i]
  <2> SUFFICES ASSUME NEW i \in 1..4 PROVE r[i] = a[i]
    OBVIOUS
  <2>1. i \in 1..Len(a) /\ i \in 1..Len(ab) /\ i \in 1..Len(abd)
    BY <1>1, <1>3, <1>6, <1>7, <1>8
  <2> QED BY <1>7, <1>8, <1>9, <2>1
<1>12. c.address_type = kEndPointDomain => r[5] = l
  <2> SUFFICES ASSUME c.address_type = kEndPointDomain PROVE r[5] = l
    OBVIOUS
  <2>1. Len(b) = 1 /\ b[1] = l
    BY <1>2 DEF l
  <2>2. 1 \in 1..Len(b) /\ 5 \in 1..Len(ab) /\ 5 \in 1..Len(abd) /\ Len(a) + 1 = 5
    BY <1>1, <1>3, <1>7, <1>8, <2>1
  <2> QED BY <1>7, <1>8, <1>9, <2>1, <2>2
<1>13. ASSUME NEW i \in 1..l PROVE r[(n - 2 - l) + i] = d[i]
  <2>1. (n - 2 - l) + i = Len(ab) + i /\ Len(ab) + i \in 1..Len(abd) /\ i \in 1..Len(d)
    BY <1>3, <1>6, <1>7, <1>8, SMTT(30)
  <2> QED BY <1>8, <1>9, <2>1
<1>14. 256 * r[n - 1] + r[n] = c.port
  <2>1. n - 1 = Len(abd) + 1 /\ n = Len(abd) + 2 /\ 1 \in 1..Len(e) /\ 2 \in 1..Len(e)
    BY <1>3, <1>4, <1>6, <1>8
  <2>2. r[n - 1] = e[1] /\ r[n] = e[2]
    BY <1>9, <2>1
  <2> QED BY <1>4, <2>2
<1>15. Len(r) = n
  BY <1>3, <1>6, <1>9
<1>16. r[1] = c.version /\ r[2] = c.command /\ r[3] = c.reserved /\ r[4] = c.address_type
  BY <1>1, <1>11
<1> QED BY <1>9, <1>10, <1>12, <1>13, <1>14, <1>15, <1>16, <1>d DEF l

\* Where in the stream the parts of the two messages are.
StreamIs ==
  /\ Stream \in Seq(Byte) /\ Len(Stream) \in Nat
  /\ Len(client.methods) \in Nat /\ Len(client.address) \in Nat
  /\ HandshakeSize <= Len(Stream) /\ Len(Handshake(client)) = HandshakeSize
  /\ Stream[1] = client.greet_version /\ Stream[2] = Len(client.methods)
  /\ \A i \in 1..Len(client.methods) : Stream[2 + i] = client.methods[i]
  /\ Stream[GreetSize + 1] = client.version /\ Stream[GreetSize + 2] = client.command
  /\ Stream[GreetSize + 3] = client.reserved /\ Stream[GreetSize + 4] = client.address_type
  /\ client.address_type = kEndPointDomain => Stream[GreetSize + 5] = Len(client.address)
  /\ \A i \in 1..Len(client.address) :
       Stream[(HandshakeSize - 2 - Len(client.address)) + i] = client.address[i]
  /\ 256 * Stream[HandshakeSize - 1] + Stream[HandshakeSize] = client.port

\* The client's messages follow each other in the stream.
LEMMA StreamBytes == ASSUME client \in Clients PROVE StreamIs
<1> DEFINE c == client
           g == Greeting(c)  r == Request(c)  h == g \o r
           n == RequestLength(c)  l == Len(c.address)  m == Len(c.methods)
           G == GreetSize
<1>1. /\ g \in Seq(Byte) /\ Len(g) = 2 + m
      /\ g[1] = c.greet_version /\ g[2] = m
      /\ \A i \in 1..m : g[2 + i] = c.methods[i]
  BY GreetingBytes
<1>2. /\ r \in Seq(Byte) /\ Len(r) = n
      /\ r[1] = c.version /\ r[2] = c.command /\ r[3] = c.reserved /\ r[4] = c.address_type
      /\ c.address_type = kEndPointDomain => r[5] = l
      /\ \A i \in 1..l : r[(n - 2 - l) + i] = c.address[i]
      /\ 256 * r[n - 1] + r[n] = c.port
  BY RequestBytes
<1>3. /\ m \in Nat /\ l \in Nat /\ c.payload \in Seq(Byte)
      /\ c.methods \in Seq(Byte) /\ c.address \in Seq(Byte)
  BY Bytes DEF Byte
<1>4. G = 2 + m /\ HandshakeSize = G + n /\ n \in Nat /\ n >= 6 + l
  <2>1. G = 2 + m /\ HandshakeSize = G + n
    BY DEF GreetSize, HandshakeSize
  <2>2. n \in Nat /\ n >= 6 + l
    BY <1>3, RequestLengthIs
  <2> QED BY <2>1, <2>2
<1>5. Stream = h \o c.payload /\ Handshake(c) = h
  BY DEF Stream, Handshake
<1>6. IsJoin(h, g, r, Byte)
  BY <1>1, <1>2, Joined
<1> HIDE DEF c, g, r, h, n, l, m, G
<1>7. IsJoin(Stream, h, c.payload, Byte)
  <2>1. h \in Seq(Byte)
    BY <1>6 DEF IsJoin
  <2> QED BY <1>3, <1>5, <2>1, Joined
<1> DEFINE S == Stream
<1>8. S \in Seq(Byte) /\ Len(S) \in Nat /\ Len(h) = G + n /\ G + n <= Len(S)
  BY <1>1, <1>2, <1>4, <1>6, <1>7, SMTT(30) DEF IsJoin
<1>9. \A i \in 1..(G + n) : S[i] = h[i]
  BY <1>7, <1>8 DEF IsJoin
<1>10. \A i \in 1..G : S[i] = g[i]
  BY <1>1, <1>4, <1>6, <1>9, SMTT(30) DEF IsJoin
<1>11. \A i \in 1..n : S[G + i] = r[i]
  <2> SUFFICES ASSUME NEW i \in 1..n PROVE S[G + i] = r[i]
    OBVIOUS
  <2>1. G + i \in 1..(G + n) /\ Len(g) + i = G + i /\ i \in 1..Len(r)
    BY <1>1, <1>2, <1>3, <1>4
  <2>2. h[Len(g) + i] = r[i]
    BY <1>6, <2>1 DEF IsJoin
  <2> QED BY <1>9, <2>1, <2>2
<1> HIDE DEF S
<1>12. S[1] = c.greet_version /\ S[2] = m
  <2>1. 1 \in 1..G /\ 2 \in 1..G
    BY <1>3, <1>4
  <2> QED BY <1>1, <1>10, <2>1
<1>13. \A i \in 1..m : S[2 + i] = c.methods[i]
  BY <1>1, <1>3, <1>4, <1>10
<1>14. /\ S[G + 1] = c.version /\ S[G + 2] = c.command
       /\ S[G + 3] = c.reserved /\ S[G + 4] = c.address_type
       /\ c.address_type = kEndPointDomain => S[G + 5] = l
  <2>1. \A i \in 1..5 : i \in 1..n
    BY <1>3, <1>4
  <2>2. \A i \in 1..5 : S[G + i] = r[i]
    BY <1>11, <2>1
  <2> QED BY <1>2, <2>2
<1>15. ASSUME NEW i \in 1..l PROVE S[(HandshakeSize - 2 - l) + i] = c.address[i]
  <2>1. (n - 2 - l) + i \in 1..n /\ G + ((n - 2 - l) + i) = (HandshakeSize - 2 - l) + i
    BY <1>1, <1>3, <1>4
  <2>2. S[G + ((n - 2 - l) + i)] = r[(n - 2 - l) + i]
    BY <1>11, <2>1
  <2> QED BY <1>2, <2>1, <2>2
<1>16. 256 * S[HandshakeSize - 1] + S[HandshakeSize] = c.port
  <2>1. /\ n - 1 \in 1..n /\ n \in 1..n
        /\ HandshakeSize - 1 = G + (n - 1) /\ HandshakeSize = G + n
    BY <1>3, <1>4
  <2>2. S[G + (n - 1)] = r[n - 1] /\ S[G + n] = r[n]
    BY <1>11, <2>1
  <2> QED BY <1>2, <2>1, <2>2
<1>17. HandshakeSize <= Len(S) /\ Len(Handshake(c)) = HandshakeSize
  BY <1>4, <1>5, <1>8
<1> QED BY <1>3, <1>8, <1>12, <1>13, <1>14, <1>15, <1>16, <1>17 DEF StreamIs, S, c, l, m, G

-----------------------------------------------------------------------------
\* The steps.

\* A new socket is in the first phase.
LEMMA InitInv == Init => Inv
<1> SUFFICES ASSUME Init PROVE Inv
  OBVIOUS
<1>1. Fresh
  BY DEF Init, Fresh
<1>2. DOMAIN learnt = {"auth_method", "reply", "address_type", "address_size", "request_endpoint"}
  BY DEF Init
<1> QED BY <1>1, <1>2 DEF Init, Inv

\* Which phase a state of DoLoop belongs to.
Phases ==
  /\ next_state \in {"GREET_READ", "GREET_READ_COMPLETE"} => GreetReading
  /\ next_state \in {"GREET_WRITE", "GREET_WRITE_COMPLETE"} => GreetWriting
  /\ next_state \in {"HANDSHAKE_READ", "HANDSHAKE_READ_COMPLETE"} => HandshakeReading
  /\ next_state \in {"HANDSHAKE_WRITE", "HANDSHAKE_WRITE_COMPLETE"} => HandshakeWriting
  /\ result = NotConnected => Fresh
  /\ result = OK => Connected
  /\ completed_handshake => Connected
  /\ result = ERR_SOCKS_CONNECTION_FAILED => Failed

\* What DoLoop is at tells the phase.
LEMMA InvPhases == Inv => Phases
BY DEF Inv, Phases, Fresh, GreetReading, GreetWriting, HandshakeReading, HandshakeWriting,
       Connected, Failed, Over, Connecting,
       OK, ERR_IO_PENDING, ERR_CONNECTION_RESET, ERR_SOCKS_CONNECTION_FAILED,
       NotConnected, Disconnected

\* A Read that completes brought bytes, found the end of the stream or failed.
LEMMA Outcome ==
  ASSUME NEW n \in Nat, taken \in Nat, closed \in BOOLEAN, Len(Stream) \in Nat, ReadCompletes(n)
  PROVE  /\ closed' \in BOOLEAN
         /\ \/ rv' \in 1..n /\ taken' = taken + rv' /\ taken' <= Len(Stream)
            \/ /\ rv' \in {0, ERR_CONNECTION_RESET} /\ (rv' = 0 => closed' = TRUE)
               /\ taken' = taken
<1>1. CASE \E k \in 1..n : k <= Unread /\ rv' = k /\ taken' = taken + k /\ closed' = closed
  BY <1>1 DEF Unread
<1>2. CASE rv' = 0 /\ closed' = TRUE /\ taken' = taken
  BY <1>2
<1>3. CASE rv' = ERR_CONNECTION_RESET /\ taken' = taken /\ closed' = closed
  BY <1>3 DEF ERR_CONNECTION_RESET
<1> QED BY <1>1, <1>2, <1>3 DEF ReadCompletes

\* The client says what it says.
LEMMA SameClient ==
  ASSUME client' = client
  PROVE  /\ Stream' = Stream /\ GreetSize' = GreetSize /\ HandshakeSize' = HandshakeSize
         /\ GreetingIsValid(client)' = GreetingIsValid(client)
         /\ RequestIsValid(client)' = RequestIsValid(client)
         /\ RequestLength(client)' = RequestLength(client)
         /\ Greeted' = Greeted
BY DEF Stream, GreetSize, HandshakeSize, GreetingIsValid, RequestIsValid, RequestLength,
       Greeted

\* Connect starts the reading of the greeting.
LEMMA ConnectKeeps == Inv /\ Connect => Inv'
<1> SUFFICES ASSUME Inv, Connect PROVE Inv'
  OBVIOUS
<1>1. Fresh
  BY InvPhases DEF Connect, Phases
<1>2. GreetReading'
  <2>1. SubSeq(Stream', 0 + 1, 0 + 0) = <<>>
    BY NoPiece
  <2>2. Reading(0, greet_read_header_size, "GREET_READ")'
    <3>1. bytes_received' = 0 /\ greet_read_header_size' = 2 /\ bytes_received' \in 0..(2 - 1)
      BY <1>1 DEF Connect, Fresh, readVars, kGreetReadHeaderSize
    <3>2. buffer' = SubSeq(Stream', 0 + 1, 0 + bytes_received')
      BY <2>1, <3>1 DEF Connect
    <3> QED BY <1>1, <3>1, <3>2 DEF Connect, Fresh, Reading, transportVars, OK
  <2> QED BY <1>1, <2>2 DEF Connect, Fresh, GreetReading, Connecting, readVars, transportVars,
                 userVars, kGreetReadHeaderSize, ERR_IO_PENDING
<1> QED BY <1>2 DEF Inv, Connect, transportVars

\* A Read of what is missing of the message completes, or is pending.
LEMMA ReadStarts ==
  ASSUME NEW first \in Nat, NEW size \in Nat, NEW start, NEW next, next # start,
         closed \in BOOLEAN, Len(Stream) \in Nat,
         Reading(first, size, start), At(start), TransportRead(size - bytes_received),
         next_state' = next, io = "none"
  PROVE  /\ Reading(first, size, start)' /\ closed' \in BOOLEAN
         /\ looping' = TRUE => io' = "none"
<1> DEFINE n == size - bytes_received
<1>1. /\ bytes_received \in Nat /\ n \in Nat /\ taken = first + bytes_received /\ taken \in Nat
      /\ looping = TRUE
  BY DEF Reading, At
<1>2. Stream' = Stream /\ UNCHANGED <<buffer, bytes_received>>
  BY SameClient DEF TransportRead, readVars
<1>3. CASE ReadCompletes(n) /\ UNCHANGED <<looping, io>>
  <2> HIDE DEF n
  <2>1. /\ closed' \in BOOLEAN
        /\ \/ rv' \in 1..n /\ taken' = taken + rv'
           \/ rv' \in {0, ERR_CONNECTION_RESET} /\ (rv' = 0 => closed' = TRUE)
    BY <1>1, <1>3, Outcome
  <2> USE DEF n
  <2> QED BY <1>1, <1>2, <1>3, <2>1 DEF Reading
<1>4. CASE looping' = FALSE /\ io' = "read" /\ UNCHANGED <<rv, taken, closed>>
  BY <1>1, <1>2, <1>4 DEF Reading
<1> QED BY <1>3, <1>4 DEF TransportRead

\* And it completes later.
LEMMA ReadEnds ==
  ASSUME NEW first \in Nat, NEW size \in Nat, NEW start, next_state # start,
         closed \in BOOLEAN, Len(Stream) \in Nat,
         Reading(first, size, start), looping = FALSE, ReadCompletes(size - bytes_received),
         looping' = TRUE, next_state' = next_state, client' = client,
         UNCHANGED <<buffer, bytes_received>>
  PROVE  Reading(first, size, start)' /\ closed' \in BOOLEAN
<1> DEFINE n == size - bytes_received
<1>1. bytes_received \in Nat /\ n \in Nat /\ taken = first + bytes_received /\ taken \in Nat
  BY DEF Reading
<1>2. Stream' = Stream
  BY SameClient
<1> HIDE DEF n
<1>3. /\ closed' \in BOOLEAN
      /\ \/ rv' \in 1..n /\ taken' = taken + rv'
         \/ rv' \in {0, ERR_CONNECTION_RESET} /\ (rv' = 0 => closed' = TRUE)
  BY <1>1, Outcome DEF n
<1> USE DEF n
<1> QED BY <1>1, <1>2, <1>3 DEF Reading

\* DoGreetRead asks for the rest of the greeting.
LEMMA DoGreetReadKeeps == Inv /\ DoGreetRead => Inv'
<1> SUFFICES ASSUME Inv, DoGreetRead PROVE Inv'
  OBVIOUS
<1>1. GreetReading /\ At("GREET_READ") /\ StreamIs /\ closed \in BOOLEAN
  BY InvPhases, StreamBytes DEF DoGreetRead, Phases, At, Inv
<1>2. PICK size : size = greet_read_header_size
  OBVIOUS
<1>3. size \in Nat
  BY <1>1, <1>2 DEF GreetReading, GreetSize, StreamIs
<1>4. UNCHANGED <<client, result, userVars, readVars, learnt, written>>
  BY DEF DoGreetRead, TransportRead
<1>5. Reading(0, size, "GREET_READ")' /\ closed' \in BOOLEAN /\ (looping' = TRUE => io' = "none")
  <2>1. Reading(0, size, "GREET_READ") /\ io = "none" /\ Len(Stream) \in Nat
    BY <1>1, <1>2 DEF GreetReading, Connecting, At, StreamIs
  <2>2. TransportRead(size - bytes_received) /\ next_state' = "GREET_READ_COMPLETE"
    BY <1>2 DEF DoGreetRead, GreetReadLength
  <2> HIDE DEF Inv, DoGreetRead
  <2> QED BY <1>1, <1>3, <2>1, <2>2, ReadStarts
<1>6. Reading(0, greet_read_header_size, "GREET_READ")'
  BY <1>2, <1>4, <1>5 DEF Reading, readVars
<1>7. GreetReading'
  BY <1>1, <1>4, <1>5, <1>6, SameClient
     DEF GreetReading, Connecting, DoGreetRead, readVars, userVars
<1> QED BY <1>4, <1>5, <1>7 DEF Inv

\* DoHandshakeRead asks for the rest of the request.
LEMMA DoHandshakeReadKeeps == Inv /\ DoHandshakeRead => Inv'
<1> SUFFICES ASSUME Inv, DoHandshakeRead PROVE Inv'
  OBVIOUS
<1>1. HandshakeReading /\ At("HANDSHAKE_READ") /\ StreamIs /\ closed \in BOOLEAN
  BY InvPhases, StreamBytes DEF DoHandshakeRead, Phases, At, Inv
<1>2. PICK size, first : size = read_header_size /\ first = GreetSize
  OBVIOUS
<1>3. size \in Nat /\ first \in Nat
  <2>1. RequestLength(client) \in Nat
    BY <1>1, RequestLengthIs DEF StreamIs
  <2> QED BY <1>1, <1>2, <2>1 DEF HandshakeReading, GreetSize, StreamIs
<1>4. UNCHANGED <<client, result, userVars, readVars, learnt, written>>
  BY DEF DoHandshakeRead, TransportRead
<1>5. /\ Reading(first, size, "HANDSHAKE_READ")' /\ closed' \in BOOLEAN
      /\ looping' = TRUE => io' = "none"
  <2>1. Reading(first, size, "HANDSHAKE_READ") /\ io = "none" /\ Len(Stream) \in Nat
    BY <1>1, <1>2 DEF HandshakeReading, Connecting, At, StreamIs
  <2>2. TransportRead(size - bytes_received) /\ next_state' = "HANDSHAKE_READ_COMPLETE"
    BY <1>2 DEF DoHandshakeRead, HandshakeReadLength
  <2> HIDE DEF Inv, DoHandshakeRead
  <2> QED BY <1>1, <1>3, <2>1, <2>2, ReadStarts
<1>6. Reading(GreetSize, read_header_size, "HANDSHAKE_READ")'
  BY <1>2, <1>4, <1>5, SameClient DEF Reading, readVars
<1>7. HandshakeReading'
  BY <1>1, <1>4, <1>5, <1>6, SameClient
     DEF HandshakeReading, Connecting, DoHandshakeRead, readVars, userVars
<1> QED BY <1>4, <1>5, <1>7 DEF Inv

HasReceived(received, all, first, size) ==
  /\ received \in 1..size /\ taken = first + received /\ bytes_received < received
  /\ bytes_received \in Nat
  /\ all = SubSeq(Stream, first + 1, first + received)
  /\ all \in Seq(Byte) /\ Len(all) = received
  /\ \A i \in 1..received : all[i] = Stream[first + i]

\* What was received so far is the stream from the first byte of the message.
LEMMA Received ==
  ASSUME StreamIs, NEW first \in Nat, NEW size \in Nat, NEW start, next_state # start,
         first + size <= Len(Stream), Reading(first, size, start), looping = TRUE, rv > 0,
         NEW received, received = bytes_received + rv,
         NEW all, all = buffer \o LastRead
  PROVE  HasReceived(received, all, first, size)
<1>1. /\ bytes_received \in Nat /\ rv \in 1..(size - bytes_received)
      /\ taken = first + bytes_received + rv
      /\ buffer = SubSeq(Stream, first + 1, first + bytes_received)
  BY DEF Reading, ERR_CONNECTION_RESET
<1> DEFINE m == first + bytes_received
<1>2. /\ received \in 1..size /\ taken = first + received /\ bytes_received < received
      /\ taken - rv + 1 = m + 1 /\ m \in Nat /\ taken \in Nat /\ m <= taken /\ first <= m
      /\ taken <= Len(Stream)
  BY <1>1 DEF StreamIs
<1>3. LastRead = SubSeq(Stream, m + 1, taken)
  BY <1>2 DEF LastRead
<1> HIDE DEF m
<1>0. Stream \in Seq(Byte)
  BY DEF StreamIs
<1>4. all = SubSeq(Stream, first + 1, taken)
  <2>1. all = SubSeq(Stream, first + 1, m) \o SubSeq(Stream, m + 1, taken)
    BY <1>1, <1>3 DEF m
  <2>2. SubSeq(Stream, first + 1, m) \o SubSeq(Stream, m + 1, taken)
          = SubSeq(Stream, first + 1, taken)
    <3>1. m \in Nat /\ taken \in Nat /\ first <= m /\ m <= taken /\ taken <= Len(Stream)
      BY <1>2
    <3> QED BY <1>0, <3>1, PiecesJoin, ZenonT(60)
  <2> QED BY <2>1, <2>2
<1>5. /\ all \in Seq(Byte) /\ Len(all) = taken - first
      /\ \A i \in 1..(taken - first) : all[i] = Stream[first + i]
  <2>1. first <= taken
    BY <1>2
  <2> DEFINE p == SubSeq(Stream, first + 1, taken)
  <2>2. /\ p \in Seq(Byte) /\ Len(p) = taken - first
        /\ \A i \in 1..(taken - first) : p[i] = Stream[first + i]
    BY <1>0, <1>2, <2>1, Piece, SMTT(30)
  <2> HIDE DEF p
  <2>3. all = p
    BY <1>4 DEF p
  <2> QED BY <2>2, <2>3
<1>6. taken - first = received
  BY <1>2
<1> QED BY <1>1, <1>2, <1>4, <1>5, <1>6 DEF HasReceived

\* A Read that failed, or found the end of the stream, ends the handshake.
LEMMA ReadFailedKeeps ==
  ASSUME Inv, NEW first, NEW size, NEW start, Reading(first, size, start),
         looping = TRUE, io = "none", completed_handshake = FALSE, next_state # start,
         ReadFailed, UNCHANGED <<client, userVars, transportVars>>
  PROVE  Inv'
<1>1. rv = ERR_CONNECTION_RESET \/ (rv = 0 /\ closed = TRUE)
  BY DEF Reading, ReadFailed
<1>2. Failed' \/ Over'
  BY <1>1 DEF Failed, Over, ReadFailed, LoopReturns, transportVars, userVars,
              ERR_CONNECTION_RESET, ERR_SOCKS_CONNECTION_FAILED
<1> QED BY <1>2 DEF Inv, ReadFailed, transportVars

\* A refusal ends the handshake with what the client is to be told written.
LEMMA FailedExactly ==
  ASSUME Inv, LoopReturns(ERR_SOCKS_CONNECTION_FAILED), looping = TRUE, io = "none",
         completed_handshake = FALSE,
         UNCHANGED <<client, userVars, transportVars>>, learnt' = learnt,
         written = ExpectedReplies(client),
         ~(Greeted /\ RequestIsValid(client) /\ client.command = kCommandConnect)
  PROVE  Inv'
<1>1. Failed'
  BY SameClient DEF Failed, LoopReturns, transportVars, userVars, ExpectedReplies
<1> QED BY <1>1 DEF Inv, transportVars

\* DoGreetReadComplete refuses the greeting, reads on or starts its answer.
LEMMA DoGreetReadCompleteKeeps ==
  ASSUME MethodsFit PROVE Inv /\ DoGreetReadComplete => Inv'
<1> SUFFICES ASSUME Inv, DoGreetReadComplete PROVE Inv'
  OBVIOUS
<1>1. /\ GreetReading /\ StreamIs /\ closed \in BOOLEAN /\ client \in Clients
      /\ looping = TRUE /\ next_state = "GREET_READ_COMPLETE" /\ io = "none"
      /\ completed_handshake = FALSE /\ delivered = <<>> /\ result = ERR_IO_PENDING
      /\ written = <<>> /\ read_header_size = kReadHeaderSize
  BY InvPhases, StreamBytes
     DEF DoGreetReadComplete, Phases, At, Inv, GreetReading, Connecting
<1>2. UNCHANGED <<client, bytes_sent, userVars, transportVars>>
  BY DEF DoGreetReadComplete
<1>3. CASE ReadFailed
  BY <1>1, <1>2, <1>3, ReadFailedKeeps DEF GreetReading
<1>4. CASE rv > 0 /\ GreetReceived(bytes_received + rv, buffer \o LastRead)
  <2>1. PICK size, received, all :
          /\ size = greet_read_header_size
          /\ received = bytes_received + rv /\ all = buffer \o LastRead
    OBVIOUS
  <2> DEFINE m == Len(client.methods)
  <2>2. /\ m \in Nat /\ GreetSize = 2 + m /\ GreetSize <= Len(Stream) /\ 2 <= Len(Stream)
        /\ client.methods \in Seq(Byte)
    <3>1. RequestLength(client) \in Nat
      BY <1>1, RequestLengthIs DEF StreamIs
    <3>2. m \in Nat /\ Len(Stream) \in Nat /\ HandshakeSize <= Len(Stream)
      BY <1>1 DEF StreamIs
    <3>3. GreetSize = 2 + m /\ HandshakeSize = GreetSize + RequestLength(client)
      BY DEF GreetSize, HandshakeSize
    <3>4. client.methods \in Seq(Byte)
      BY <1>1, Bytes
    <3> HIDE DEF m
    <3> QED BY <3>1, <3>2, <3>3, <3>4
  <2>3. size = IF bytes_received < 2 THEN 2 ELSE GreetSize
    BY <1>1, <2>1 DEF GreetReading
  <2>4. size \in Nat /\ 0 + size <= Len(Stream)
    BY <2>2, <2>3 DEF GreetSize
  <2>5. /\ received \in 1..size /\ taken = 0 + received /\ bytes_received < received
        /\ bytes_received \in Nat
        /\ all = SubSeq(Stream, 0 + 1, 0 + received)
        /\ all \in Seq(Byte) /\ Len(all) = received
        /\ \A i \in 1..received : all[i] = Stream[0 + i]
    <3>1. Reading(0, size, "GREET_READ") /\ next_state # "GREET_READ"
      BY <1>1, <2>1 DEF GreetReading
    <3> HIDE DEF Inv, DoGreetReadComplete
    <3>2. HasReceived(received, all, 0, size)
      BY <1>1, <1>4, <2>1, <2>4, <3>1, Received
    <3> QED BY <3>2 DEF HasReceived
  <2>6. GreetReceived(received, all)
    BY <1>4, <2>1
  <2>7. client.methods = <<>> <=> m = 0
    BY <2>2, EmptySeq
  <2>8. ASSUME bytes_received' = received, buffer' = all, LoopContinues("GREET_READ"),
               received < greet_read_header_size', received >= 2,
               greet_read_header_size' = GreetSize, GreetingIsValid(client),
               UNCHANGED <<learnt, read_header_size>>
        PROVE  Inv'
    <3>1. Reading(0, greet_read_header_size, "GREET_READ")'
      <4>1. bytes_received' \in 0..(greet_read_header_size' - 1)
        BY <2>2, <2>5, <2>8
      <4> QED BY <1>1, <1>2, <2>5, <2>8, <4>1, SameClient
              DEF Reading, LoopContinues, transportVars
    <3>2. GreetReading'
      BY <1>1, <1>2, <2>5, <2>8, <3>1, SameClient
         DEF GreetReading, Connecting, LoopContinues, transportVars, userVars
    <3> QED BY <1>1, <1>2, <2>8, <3>2 DEF Inv, transportVars
  <2>9. CASE received = kGreetReadHeaderSize
    <3>1. received = 2 /\ all[1] = client.greet_version /\ all[2] = m /\ size = 2
      <4>1. received = 2 /\ 1 \in 1..received /\ 2 \in 1..received /\ bytes_received < 2
        BY <2>5, <2>9 DEF kGreetReadHeaderSize
      <4>2. all[1] = Stream[0 + 1] /\ all[2] = Stream[0 + 2]
        BY <2>5, <4>1
      <4> QED BY <1>1, <2>3, <4>1, <4>2 DEF StreamIs
    <3>2. /\ bytes_received' = received /\ buffer' = all
          /\ UNCHANGED <<learnt, read_header_size>>
          /\ \/ /\ all[1] # kSOCKS5Version \/ all[2] = 0
                /\ LoopReturns(ERR_SOCKS_CONNECTION_FAILED)
             \/ /\ all[1] = kSOCKS5Version /\ all[2] # 0
                /\ LoopContinues("GREET_READ")
                /\ greet_read_header_size' = greet_read_header_size + Char(all[2])
      BY <2>6, <2>9, <3>1 DEF GreetReceived, kGreetReadHeaderSize
    <3>3. CASE /\ all[1] # kSOCKS5Version \/ all[2] = 0
               /\ LoopReturns(ERR_SOCKS_CONNECTION_FAILED)
      <4>1. ~GreetingIsValid(client)
        BY <2>7, <3>1, <3>3 DEF GreetingIsValid
      <4>2. written = ExpectedReplies(client) /\ ~Greeted
        BY <1>1, <4>1 DEF ExpectedReplies, Greeted
      <4> QED BY <1>1, <1>2, <3>2, <3>3, <4>2, FailedExactly
    <3>4. CASE /\ all[1] = kSOCKS5Version /\ all[2] # 0
               /\ LoopContinues("GREET_READ")
               /\ greet_read_header_size' = greet_read_header_size + Char(all[2])
      <4>1. GreetingIsValid(client) /\ m # 0
        BY <2>7, <3>1, <3>4 DEF GreetingIsValid
      <4>2. Char(m) = m
        BY <1>1 DEF MethodsFit
      <4>3. greet_read_header_size' = GreetSize
        BY <2>1, <2>2, <3>1, <3>4, <4>2
      <4>4. received < greet_read_header_size' /\ received >= 2
        BY <2>2, <3>1, <4>1, <4>3
      <4> QED BY <2>8, <3>2, <3>4, <4>1, <4>3, <4>4
    <3> QED BY <3>2, <3>3, <3>4
  <2>10. CASE received # kGreetReadHeaderSize /\ received = greet_read_header_size
    <3>1. /\ received = GreetSize /\ bytes_received >= 2
      BY <2>1, <2>3, <2>5, <2>10 DEF kGreetReadHeaderSize
    <3>2. SubSeq(all, kGreetReadHeaderSize + 1, Len(all)) = client.methods
      <4>1. \A i \in 1..m : all[2 + i] = client.methods[i]
        BY <1>1, <2>2, <2>5, <3>1, SMTT(30) DEF StreamIs
      <4>2. 2 + m = Len(all)
        BY <2>2, <2>5, <3>1
      <4>3. SubSeq(all, 2 + 1, 2 + Len(client.methods)) = client.methods
        BY <2>2, <2>5, <4>1, <4>2, PieceIs
      <4> QED BY <4>2, <4>3 DEF kGreetReadHeaderSize
    <3>3. /\ bytes_received' = received /\ buffer' = <<>> /\ LoopContinues("GREET_WRITE")
          /\ learnt' = [learnt EXCEPT !.auth_method = AuthMethod(client.methods)]
          /\ UNCHANGED read_header_size
      BY <2>6, <2>10, <3>2 DEF GreetReceived
    <3>4. /\ learnt'.auth_method = AuthMethod(client.methods)
          /\ DOMAIN learnt' = DOMAIN learnt
      BY <3>3 DEF Inv
    <3>5. GreetWriting'
      <4>1. GreetingIsValid(client)
        BY <1>1, <3>1 DEF GreetReading
      <4>2. Writing(<<>>, <<kSOCKS5Version, learnt.auth_method>>, "GREET_WRITE")'
        BY <1>1, <1>2, <3>3 DEF Writing, LoopContinues, transportVars
      <4>3. taken' = GreetSize'
        BY <1>2, <2>5, <2>2, <3>1, SameClient DEF transportVars
      <4>4. learnt'.auth_method = AuthMethod(client.methods)'
        BY <1>2, <3>4 DEF AuthMethod
      <4> QED BY <1>1, <1>2, <3>3, <4>1, <4>2, <4>3, <4>4, SameClient
              DEF GreetWriting, Connecting, LoopContinues, userVars
    <3> QED BY <1>1, <1>2, <3>4, <3>5 DEF Inv, transportVars
  <2>11. CASE received \notin {kGreetReadHeaderSize, greet_read_header_size}
    <3>1. /\ bytes_received' = received /\ buffer' = all /\ LoopContinues("GREET_READ")
          /\ UNCHANGED <<greet_read_header_size, learnt, read_header_size>>
      BY <2>6, <2>11 DEF GreetReceived
    <3>2. received < size /\ received # 2
      BY <2>1, <2>4, <2>5, <2>11 DEF kGreetReadHeaderSize
    <3>3. CASE received >= 2
      <4>1. bytes_received >= 2
        BY <2>3, <2>5, <3>2, <3>3
      <4>2. size = GreetSize /\ GreetingIsValid(client)
        BY <1>1, <2>3, <2>5, <4>1 DEF GreetReading
      <4> QED BY <2>1, <2>8, <3>1, <3>2, <3>3, <4>2
    <3>4. CASE received < 2
      <4>1. bytes_received < 2 /\ size = 2
        BY <2>3, <2>5, <3>4
      <4>2. Reading(0, greet_read_header_size, "GREET_READ")'
        <5>1. bytes_received' \in 0..(greet_read_header_size' - 1)
          BY <2>1, <2>5, <3>1, <3>2, <4>1
        <5> QED BY <1>1, <1>2, <2>5, <3>1, <5>1, SameClient
                DEF Reading, LoopContinues, transportVars
      <4>3. GreetReading'
        BY <1>1, <1>2, <2>1, <2>5, <3>1, <3>4, <4>1, <4>2, SameClient
           DEF GreetReading, Connecting, LoopContinues, transportVars, userVars
      <4> QED BY <1>1, <1>2, <3>1, <4>3 DEF Inv, transportVars
    <3> QED BY <2>5, <3>3, <3>4
  <2> QED BY <2>6, <2>9, <2>10, <2>11 DEF GreetReceived
<1> QED BY <1>3, <1>4 DEF DoGreetReadComplete

\* What was written before and the parts of an answer follow each other.
LEMMA Onto ==
  ASSUME NEW s \in Seq(Nat), NEW t \in Seq(Nat), NEW u \in Seq(Nat)
  PROVE  (s \o t) \o u = s \o (t \o u)
BY ConcatAssociative, SMTT(30)

\* The first bytes of the rest of an answer are the next ones of the answer.
LEMMA PieceOfRest ==
  ASSUME NEW answer \in Seq(Nat), NEW b \in Nat, NEW k \in Nat, NEW n \in Nat,
         n = b + k, n <= Len(answer),
         NEW rest \in Seq(Nat), Len(rest) = Len(answer) - b,
         \A i \in 1..(Len(answer) - b) : rest[i] = answer[b + i]
  PROVE  SubSeq(rest, 1, k) = SubSeq(answer, b + 1, n)
<1> DEFINE p == SubSeq(rest, 1, k)  q == SubSeq(answer, b + 1, n)
<1>1. PICK A \in Nat : A = Len(answer)
  BY LenProperties
<1>2. k <= Len(rest) /\ b <= n /\ n - b = k /\ k <= A - b
  BY <1>1
<1>3. p \in Seq(Nat) /\ Len(p) = k /\ \A i \in 1..k : p[i] = rest[i]
  BY <1>2, FirstPiece
<1>4. q \in Seq(Nat) /\ Len(q) = n - b /\ \A i \in 1..(n - b) : q[i] = answer[b + i]
  <2>1. IsPiece(q, answer, b, n, Nat)
    BY <1>2, PieceIsPiece
  <2> HIDE DEF q
  <2> QED BY <2>1, Zenon DEF IsPiece
<1> HIDE DEF p, q
<1>5. Len(p) = Len(q)
  BY <1>2, <1>3, <1>4
<1>6. ASSUME NEW i \in 1..Len(p) PROVE p[i] = q[i]
  <2>1. i \in 1..k /\ i \in 1..(n - b) /\ i \in 1..(A - b)
    BY <1>2, <1>3
  <2> QED BY <1>1, <1>3, <1>4, <2>1
<1>7. p = q
  BY <1>3, <1>4, <1>5, <1>6, SeqEqual
<1> QED BY <1>7 DEF p, q

\* A part of an answer and the next one, after what was written before.
LEMMA AnswerGoesOn ==
  ASSUME NEW before \in Seq(Nat), NEW answer \in Seq(Nat), NEW b \in Nat, NEW n \in Nat,
         b <= n, n <= Len(answer)
  PROVE  (before \o SubSeq(answer, 1, b)) \o SubSeq(answer, b + 1, n)
           = before \o SubSeq(answer, 1, n)
<1> DEFINE a == SubSeq(answer, 1, b)  q == SubSeq(answer, b + 1, n)
<1>0. PICK A \in Nat : A = Len(answer)
  BY LenProperties
<1>1. b <= Len(answer)
  BY <1>0
<1>2. a \in Seq(Nat)
  BY <1>1, FirstPiece
<1>3. q \in Seq(Nat)
  BY Piece
<1>4. a \o q = SubSeq(answer, 1, n)
  <2>1. SubSeq(answer, 0 + 1, b) \o SubSeq(answer, b + 1, n) = SubSeq(answer, 0 + 1, n)
    <3>1. 0 \in Nat /\ 0 <= b
      OBVIOUS
    <3> QED BY <3>1, PiecesJoin
  <2>2. 0 + 1 = 1
    OBVIOUS
  <2> QED BY <2>1, <2>2
<1> HIDE DEF a, q
<1>5. (before \o a) \o q = before \o (a \o q)
  BY <1>2, <1>3, Onto, ZenonT(60)
<1>6. (before \o a) \o q = before \o SubSeq(answer, 1, n)
  BY <1>4, <1>5, Zenon
<1> QED BY <1>6, Zenon DEF a, q

\* A Write of the rest of an answer goes on where the last one stopped.
LEMMA WriteMoves ==
  ASSUME NEW before \in Seq(Nat), NEW answer \in Seq(Nat), NEW b \in 0..(Len(answer) - 1),
         written = before \o SubSeq(answer, 1, b),
         WriteCompletes(SubSeq(answer, b + 1, Len(answer)))
  PROVE  \/ /\ rv' \in 0..(Len(answer) - b)
            /\ written' = before \o SubSeq(answer, 1, b + rv')
         \/ rv' = ERR_CONNECTION_RESET
<1> DEFINE rest == SubSeq(answer, b + 1, Len(answer))
<1>1. PICK A \in Nat : A = Len(answer) /\ b \in Nat /\ b <= A
  BY LenProperties
<1>2. /\ rest \in Seq(Nat) /\ Len(rest) = A - b
      /\ \A i \in 1..(A - b) : rest[i] = answer[b + i]
  <2>1. A \in Nat /\ A <= Len(answer)
    BY <1>1
  <2>2. rest = SubSeq(answer, b + 1, A)
    BY <1>1
  <2>3. IsPiece(SubSeq(answer, b + 1, A), answer, b, A, Nat)
    BY <1>1, <2>1, PieceIsPiece
  <2>4. IsPiece(rest, answer, b, A, Nat)
    BY <2>2, <2>3, Zenon
  <2> HIDE DEF rest
  <2> QED BY <2>4, Zenon DEF IsPiece
<1>3. PICK k \in 0..Len(rest) \cup {ERR_CONNECTION_RESET} :
        rv' = k /\ written' = written \o SubSeq(rest, 1, k)
  BY DEF WriteCompletes
<1> HIDE DEF rest
<1>4. CASE k \in 0..Len(rest)
  <2>0. k \in 0..(A - b)
    BY <1>2, <1>4
  <2>1. PICK n \in Nat : n = b + k /\ k \in Nat /\ n <= A /\ b <= n
    BY <1>1, <2>0
  <2>2. SubSeq(rest, 1, k) = SubSeq(answer, b + 1, n)
    BY <1>1, <1>2, <2>1, PieceOfRest
  <2>3. (before \o SubSeq(answer, 1, b)) \o SubSeq(answer, b + 1, n)
          = before \o SubSeq(answer, 1, n)
    <3>1. b \in Nat /\ b <= n /\ n <= Len(answer)
      BY <1>1, <2>1
    <3> QED BY <3>1, AnswerGoesOn, ZenonT(30)
  <2>4. written' = before \o SubSeq(answer, 1, n)
    BY <1>3, <2>2, <2>3, Zenon
  <2> QED BY <1>1, <1>3, <2>0, <2>1, <2>4, Zenon
<1>5. CASE k = ERR_CONNECTION_RESET
  BY <1>3, <1>5
<1> QED BY <1>3, <1>4, <1>5

\* A Write of the rest of the answer completes, or is pending.
LEMMA WriteStarts ==
  ASSUME NEW before \in Seq(Nat), NEW answer \in Seq(Nat), Len(answer) > 0,
         NEW start, NEW next, next # start,
         Writing(before, answer, start), looping = TRUE, next_state = start, io = "none",
         FillBuffer(answer), next_state' = next,
         TransportWrite(SubSeq(buffer', bytes_sent' + 1, Len(buffer')))
  PROVE  Writing(before, answer, start)' /\ (looping' = TRUE => io' = "none")
<1>1. answer # <<>> /\ Len(answer) \in Nat
  BY EmptySeq, LenProperties
<1>2. PICK b \in 0..(Len(answer) - 1) :
        /\ buffer' = answer /\ bytes_sent' = b
        /\ written = before \o SubSeq(answer, 1, b)
  <2>1. CASE buffer = <<>>
    <3>1. SubSeq(answer, 0 + 1, 0) = <<>>
      BY NoPiece
    <3>2. before \o <<>> = before
      BY ConcatEmptySeq
    <3>3. buffer' = answer /\ bytes_sent' = 0 /\ written = before
      BY <1>1, <2>1 DEF FillBuffer, Writing
    <3> QED BY <1>1, <3>1, <3>2, <3>3
  <2>2. CASE buffer # <<>>
    BY <1>1, <2>2 DEF FillBuffer, Writing
  <2> QED BY <2>1, <2>2
<1>3. CASE /\ WriteCompletes(SubSeq(buffer', bytes_sent' + 1, Len(buffer')))
           /\ UNCHANGED <<looping, io>>
  <2>1. WriteCompletes(SubSeq(answer, b + 1, Len(answer)))
    BY <1>2, <1>3
  <2>2. \/ /\ rv' \in 0..(Len(answer) - b)
           /\ written' = before \o SubSeq(answer, 1, b + rv')
        \/ rv' = ERR_CONNECTION_RESET
    BY <1>2, <2>1, WriteMoves
  <2> QED BY <1>2, <1>3, <2>2 DEF Writing
<1>4. CASE looping' = FALSE /\ io' = "write" /\ UNCHANGED <<rv, written>>
  BY <1>2, <1>4 DEF Writing
<1> QED BY <1>3, <1>4 DEF TransportWrite

\* And it completes later.
LEMMA WriteEnds ==
  ASSUME NEW before \in Seq(Nat), NEW answer \in Seq(Nat), NEW start, next_state # start,
         Writing(before, answer, start), looping = FALSE, looping' = TRUE,
         next_state' = next_state, UNCHANGED <<buffer, bytes_sent>>,
         WriteCompletes(SubSeq(buffer, bytes_sent + 1, Len(buffer)))
  PROVE  Writing(before, answer, start)'
<1>1. PICK b \in 0..(Len(answer) - 1) :
        /\ buffer = answer /\ bytes_sent = b
        /\ written = before \o SubSeq(answer, 1, b)
  BY DEF Writing
<1>2. WriteCompletes(SubSeq(answer, b + 1, Len(answer)))
  BY <1>1
<1>3. \/ /\ rv' \in 0..(Len(answer) - b)
         /\ written' = before \o SubSeq(answer, 1, b + rv')
      \/ rv' = ERR_CONNECTION_RESET
  BY <1>1, <1>2, WriteMoves
<1> QED BY <1>1, <1>3 DEF Writing

\* The two answers.
LEMMA AnswerBytes ==
  ASSUME NEW code \in Nat
  PROVE  /\ ReplyBytes(code) \in Seq(Nat) /\ Len(ReplyBytes(code)) = 10
         /\ ReplyBytes(code)[2] = code
         /\ <<kSOCKS5Version, code>> \in Seq(Nat) /\ Len(<<kSOCKS5Version, code>>) = 2
         /\ <<kSOCKS5Version, kAuthMethodNone>> \in Seq(Nat)
         /\ Len(<<kSOCKS5Version, kAuthMethodNone>>) = 2 /\ <<>> \in Seq(Nat)
BY DEF ReplyBytes, kSOCKS5Version, kSOCKS5Reserved, kEndPointResolvedIPv4, kAuthMethodNone

\* The codes in the answers are numbers.
LEMMA Codes ==
  /\ \A methods : AuthMethod(methods) \in Nat
  /\ \A command : ReplyTo(command) \in Nat
BY DEF AuthMethod, ReplyTo, kAuthMethodNone, kAuthMethodNoAcceptable, kReplySuccess,
       kReplyCommandNotSupported

\* DoGreetWrite fills the buffer once and writes the rest of it.
LEMMA DoGreetWriteKeeps == Inv /\ DoGreetWrite => Inv'
<1> SUFFICES ASSUME Inv, DoGreetWrite PROVE Inv'
  OBVIOUS
<1>1. /\ GreetWriting /\ looping = TRUE /\ next_state = "GREET_WRITE" /\ io = "none"
      /\ client \in Clients /\ closed \in BOOLEAN
  BY InvPhases DEF DoGreetWrite, Phases, At, Inv, GreetWriting, Connecting
<1>2. PICK code, answer : code = learnt.auth_method /\ answer = <<kSOCKS5Version, code>>
  OBVIOUS
<1>3. code \in Nat /\ answer \in Seq(Nat) /\ Len(answer) > 0 /\ <<>> \in Seq(Nat)
  <2>1. code \in Nat
    BY <1>1, <1>2, Codes DEF GreetWriting
  <2> QED BY <1>2, <2>1, AnswerBytes
<1>4. UNCHANGED <<client, result, readVars, learnt, userVars, taken, closed>>
  BY DEF DoGreetWrite, TransportWrite
<1>5. Writing(<<>>, answer, "GREET_WRITE")' /\ (looping' = TRUE => io' = "none")
  <2>1. Writing(<<>>, answer, "GREET_WRITE")
    BY <1>1, <1>2 DEF GreetWriting
  <2>2. /\ FillBuffer(answer) /\ next_state' = "GREET_WRITE_COMPLETE"
        /\ TransportWrite(SubSeq(buffer', bytes_sent' + 1, Len(buffer')))
    BY <1>2 DEF DoGreetWrite
  <2> HIDE DEF Inv, DoGreetWrite
  <2> QED BY <1>1, <1>3, <2>1, <2>2, WriteStarts
<1>6. Writing(<<>>, <<kSOCKS5Version, learnt.auth_method>>, "GREET_WRITE")'
  BY <1>2, <1>4, <1>5 DEF Writing
<1>7. GreetWriting'
  BY <1>1, <1>4, <1>5, <1>6, SameClient
     DEF GreetWriting, Connecting, DoGreetWrite, readVars, userVars, AuthMethod
<1> QED BY <1>1, <1>4, <1>7 DEF Inv

\* DoHandshakeWrite fills the buffer once and writes the rest of it.
LEMMA DoHandshakeWriteKeeps == Inv /\ DoHandshakeWrite => Inv'
<1> SUFFICES ASSUME Inv, DoHandshakeWrite PROVE Inv'
  OBVIOUS
<1>1. /\ HandshakeWriting /\ looping = TRUE /\ next_state = "HANDSHAKE_WRITE" /\ io = "none"
      /\ client \in Clients /\ closed \in BOOLEAN
  BY InvPhases DEF DoHandshakeWrite, Phases, At, Inv, HandshakeWriting, Connecting
<1>2. PICK code, answer, before :
        /\ code = learnt.reply /\ answer = ReplyBytes(code)
        /\ before = <<kSOCKS5Version, kAuthMethodNone>>
  OBVIOUS
<1>3. code \in Nat /\ answer \in Seq(Nat) /\ Len(answer) > 0 /\ before \in Seq(Nat)
  <2>1. code \in Nat
    BY <1>1, <1>2, Codes DEF HandshakeWriting, Understood
  <2>2. /\ ReplyBytes(code) \in Seq(Nat) /\ Len(ReplyBytes(code)) = 10
        /\ <<kSOCKS5Version, kAuthMethodNone>> \in Seq(Nat)
    BY <2>1, AnswerBytes
  <2> QED BY <1>2, <2>1, <2>2
<1>4. UNCHANGED <<client, result, readVars, learnt, userVars, taken, closed>>
  BY DEF DoHandshakeWrite, TransportWrite
<1>5. Writing(before, answer, "HANDSHAKE_WRITE")' /\ (looping' = TRUE => io' = "none")
  <2>1. Writing(before, answer, "HANDSHAKE_WRITE")
    BY <1>1, <1>2 DEF HandshakeWriting
  <2>2. /\ FillBuffer(answer) /\ next_state' = "HANDSHAKE_WRITE_COMPLETE"
        /\ TransportWrite(SubSeq(buffer', bytes_sent' + 1, Len(buffer')))
    BY <1>2 DEF DoHandshakeWrite
  <2> HIDE DEF Inv, DoHandshakeWrite
  <2> QED BY <1>1, <1>3, <2>1, <2>2, WriteStarts
<1>6. answer = ReplyBytes(learnt.reply)'
  BY <1>2, <1>4 DEF ReplyBytes
<1>7. Writing(<<kSOCKS5Version, kAuthMethodNone>>, ReplyBytes(learnt.reply), "HANDSHAKE_WRITE")'
  BY <1>2, <1>5, <1>6 DEF Writing
<1>8. Understood'
  BY <1>1, <1>4, SameClient DEF HandshakeWriting, Understood, ReplyTo
<1>9. HandshakeWriting'
  BY <1>1, <1>4, <1>5, <1>7, <1>8, SameClient
     DEF HandshakeWriting, Connecting, DoHandshakeWrite, readVars, userVars
<1> QED BY <1>1, <1>4, <1>9 DEF Inv

\* What the client is told, by how far it got.
LEMMA Replies ==
  ASSUME NEW c
  PROVE  /\ ~GreetingIsValid(c) => ExpectedReplies(c) = <<>>
         /\ GreetingIsValid(c) /\ AuthMethod(c.methods) # kAuthMethodNone =>
              ExpectedReplies(c) = <<kSOCKS5Version, kAuthMethodNoAcceptable>>
         /\ GreetingIsValid(c) /\ AuthMethod(c.methods) = kAuthMethodNone /\ ~RequestIsValid(c) =>
              ExpectedReplies(c) = <<kSOCKS5Version, kAuthMethodNone>>
         /\ GreetingIsValid(c) /\ AuthMethod(c.methods) = kAuthMethodNone /\ RequestIsValid(c) =>
              ExpectedReplies(c)
                = <<kSOCKS5Version, kAuthMethodNone>> \o ReplyBytes(ReplyTo(c.command))
<1>1. AuthMethod(c.methods) = kAuthMethodNone <=> Contains(c.methods, kAuthMethodNone)
  BY DEF AuthMethod, kAuthMethodNone, kAuthMethodNoAcceptable
<1>2. <<kSOCKS5Version, kAuthMethodNone>> \o <<>> = <<kSOCKS5Version, kAuthMethodNone>>
  <2>1. <<kSOCKS5Version, kAuthMethodNone>> \in Seq(Nat)
    BY AnswerBytes DEF kAuthMethodNone
  <2> QED BY <2>1, ConcatEmptySeq
<1>3. ReplyBytes(ReplyTo(c.command))
        = IF c.command = kCommandConnect THEN ReplyBytes(kReplySuccess)
          ELSE ReplyBytes(kReplyCommandNotSupported)
  BY DEF ReplyTo
<1> QED BY <1>1, <1>2, <1>3, Zenon DEF ExpectedReplies

\* A Write that did not fail, in the middle of an answer or at its end.
LEMMA Written ==
  ASSUME NEW before \in Seq(Nat), NEW answer \in Seq(Nat), NEW start, next_state # start,
         Writing(before, answer, start), looping = TRUE, rv >= 0
  PROVE  /\ buffer = answer /\ bytes_sent + rv \in 0..Len(answer) /\ rv \in Nat
         /\ written = before \o SubSeq(answer, 1, bytes_sent + rv)
         /\ bytes_sent + rv = Len(buffer) => written = before \o answer
<1>1. /\ buffer = answer /\ bytes_sent \in 0..(Len(answer) - 1)
      /\ rv \in 0..(Len(answer) - bytes_sent)
      /\ written = before \o SubSeq(answer, 1, bytes_sent + rv)
  <2>1. /\ buffer = answer /\ bytes_sent \in 0..(Len(answer) - 1)
        /\ \/ /\ rv \in 0..(Len(answer) - bytes_sent)
              /\ written = before \o SubSeq(answer, 1, bytes_sent + rv)
           \/ rv = ERR_CONNECTION_RESET
    BY Zenon DEF Writing
  <2>2. rv # ERR_CONNECTION_RESET
    BY DEF ERR_CONNECTION_RESET
  <2> QED BY <2>1, <2>2, Zenon
<1>2. Len(answer) \in Nat
  BY LenProperties
<1>3. bytes_sent + rv \in 0..Len(answer) /\ rv \in Nat
  BY <1>1, <1>2
<1>4. SubSeq(answer, 1, Len(answer)) = answer
  BY SubSeqFull
<1> QED BY <1>1, <1>3, <1>4

\* A Write that failed ends the handshake.
LEMMA WriteFailedKeeps ==
  ASSUME Inv, NEW before, NEW answer, NEW start, Writing(before, answer, start),
         looping = TRUE, io = "none", completed_handshake = FALSE, next_state # start,
         rv < 0, LoopReturns(rv), completed_handshake' = FALSE,
         UNCHANGED <<client, learnt, closed>>
  PROVE  Inv'
<1>1. rv = ERR_CONNECTION_RESET
  BY DEF Writing
<1>2. Over'
  BY <1>1 DEF Over, LoopReturns
<1> QED BY <1>2 DEF Inv

\* DoGreetWriteComplete writes on, goes on to the request or ends.
LEMMA DoGreetWriteCompleteKeeps == Inv /\ DoGreetWriteComplete => Inv'
<1> SUFFICES ASSUME Inv, DoGreetWriteComplete PROVE Inv'
  OBVIOUS
<1>1. /\ GreetWriting /\ looping = TRUE /\ next_state = "GREET_WRITE_COMPLETE" /\ io = "none"
      /\ client \in Clients /\ closed \in BOOLEAN /\ StreamIs
      /\ completed_handshake = FALSE /\ delivered = <<>> /\ result = ERR_IO_PENDING
  BY InvPhases, StreamBytes
     DEF DoGreetWriteComplete, Phases, At, Inv, GreetWriting, Connecting
<1>2. PICK code, answer : code = learnt.auth_method /\ answer = <<kSOCKS5Version, code>>
  OBVIOUS
<1>3. code \in Nat /\ answer \in Seq(Nat) /\ Len(answer) = 2 /\ <<>> \in Seq(Nat)
  <2>1. code \in Nat
    BY <1>1, <1>2, Codes DEF GreetWriting
  <2> QED BY <1>2, <2>1, AnswerBytes
<1>4. UNCHANGED <<client, greet_read_header_size, read_header_size, learnt, userVars,
                  transportVars>>
  BY DEF DoGreetWriteComplete
<1>5. Writing(<<>>, answer, "GREET_WRITE")
  BY <1>1, <1>2 DEF GreetWriting
<1>6. CASE rv < 0 /\ LoopReturns(rv)
  BY <1>1, <1>4, <1>5, <1>6, WriteFailedKeeps DEF transportVars, userVars
<1>7. CASE rv >= 0
  <2>1. /\ buffer = answer /\ bytes_sent + rv \in 0..Len(answer) /\ rv \in Nat
        /\ written = <<>> \o SubSeq(answer, 1, bytes_sent + rv)
        /\ bytes_sent + rv = Len(buffer) => written = <<>> \o answer
    <3> HIDE DEF Inv, DoGreetWriteComplete
    <3> QED BY <1>1, <1>3, <1>5, <1>7, Written
  <2>2. bytes_sent' = bytes_sent + rv
    BY <1>7, <2>1 DEF DoGreetWriteComplete
  <2>3. CASE bytes_sent' # Len(buffer)
    <3>1. LoopContinues("GREET_WRITE") /\ UNCHANGED buffer
      BY <1>7, <2>1, <2>3 DEF DoGreetWriteComplete
    <3>2. bytes_sent' \in 0..(Len(answer) - 1)
      BY <1>3, <2>1, <2>2, <2>3
    <3>3. Writing(<<>>, answer, "GREET_WRITE")'
      BY <1>1, <1>4, <2>1, <2>2, <3>1, <3>2 DEF Writing, LoopContinues, transportVars
    <3>4. Writing(<<>>, <<kSOCKS5Version, learnt.auth_method>>, "GREET_WRITE")'
      BY <1>2, <1>4, <3>3 DEF Writing
    <3>5. GreetWriting'
      BY <1>1, <1>4, <3>1, <3>4, SameClient
         DEF GreetWriting, Connecting, LoopContinues, userVars, transportVars, AuthMethod
    <3> QED BY <1>1, <1>4, <3>5 DEF Inv, transportVars
  <2>4. CASE bytes_sent' = Len(buffer)
    <3>1. written = answer
      BY <1>3, <2>1, <2>2, <2>4, ConcatEmptySeq
    <3>2. /\ buffer' = <<>> /\ bytes_received' = 0
          /\ \/ code # kAuthMethodNoAcceptable /\ LoopContinues("HANDSHAKE_READ")
             \/ code = kAuthMethodNoAcceptable /\ LoopReturns(ERR_SOCKS_CONNECTION_FAILED)
      <4>1. ~(rv < 0)
        BY <1>7, <2>1
      <4> QED BY <1>2, <2>4, <4>1, Zenon DEF DoGreetWriteComplete, GreetingDone
    <3>3. CASE code = kAuthMethodNoAcceptable /\ LoopReturns(ERR_SOCKS_CONNECTION_FAILED)
      <4>1. /\ GreetingIsValid(client) /\ AuthMethod(client.methods) = kAuthMethodNoAcceptable
            /\ kAuthMethodNoAcceptable # kAuthMethodNone
        BY <1>1, <1>2, <3>3 DEF GreetWriting, kAuthMethodNoAcceptable, kAuthMethodNone
      <4>2. ExpectedReplies(client) = <<kSOCKS5Version, kAuthMethodNoAcceptable>>
        BY <4>1, Replies
      <4>3. written = ExpectedReplies(client) /\ ~Greeted
        BY <1>2, <3>1, <3>3, <4>1, <4>2 DEF Greeted
      <4> QED BY <1>1, <1>4, <3>3, <4>3, FailedExactly
    <3>4. CASE code # kAuthMethodNoAcceptable /\ LoopContinues("HANDSHAKE_READ")
      <4>1. code = kAuthMethodNone /\ Greeted
        BY <1>1, <1>2, <3>4 DEF GreetWriting, Greeted, AuthMethod
      <4>0. PICK G : G = GreetSize
        OBVIOUS
      <4>2. /\ taken' = G /\ GreetSize' = G /\ read_header_size' = 5 /\ bytes_received' = 0
            /\ G \in Nat
        <5>1. G \in Nat
          BY <1>1, <4>0 DEF GreetSize, StreamIs
        <5>2. taken' = G /\ GreetSize' = G /\ read_header_size' = 5
          BY <1>1, <1>4, <4>0, SameClient DEF GreetWriting, transportVars, kReadHeaderSize
        <5> QED BY <3>2, <5>1, <5>2
      <4>3. SubSeq(Stream', G + 1, G + 0) = <<>>
        <5>1. SubSeq(Stream', G + 1, G) = <<>> /\ G + 0 = G
          BY <4>2, NoPiece
        <5> QED BY <5>1
      <4>4. Reading(GreetSize, read_header_size, "HANDSHAKE_READ")'
        <5>1. bytes_received' \in 0..(read_header_size' - 1)
          BY <4>2
        <5>2. buffer' = SubSeq(Stream', GreetSize' + 1, GreetSize' + bytes_received')
          BY <3>2, <4>2, <4>3, Zenon
        <5>3. taken' = GreetSize' + bytes_received'
          BY <4>2
        <5>4. looping' = TRUE /\ next_state' = "HANDSHAKE_READ" /\ rv' = OK
          BY <1>1, <3>4 DEF LoopContinues
        <5> QED BY <5>1, <5>2, <5>3, <5>4 DEF Reading
      <4>5. HandshakeReading'
        <5>1. written' = <<kSOCKS5Version, kAuthMethodNone>> /\ Greeted'
          BY <1>2, <1>4, <3>1, <4>1, SameClient DEF transportVars
        <5> QED BY <1>1, <1>4, <3>4, <4>2, <4>4, <5>1
                DEF HandshakeReading, Connecting, LoopContinues, userVars
      <4> QED BY <1>1, <1>4, <4>5 DEF Inv, transportVars
    <3> QED BY <3>2, <3>3, <3>4
  <2> QED BY <2>3, <2>4
<1> QED BY <1>6, <1>7 DEF DoGreetWriteComplete


\* The header says what the client's request is.
HeaderSays(header) ==
  /\ HeaderIsValid(header) <=> RequestIsValid(client)
  /\ HeaderIsValid(header) =>
       AddressSize(header) = Len(client.address) /\ RequestSize(header) = RequestLength(client)
  /\ header[2] = client.command /\ header[4] = client.address_type

\* The first five bytes of the request tell its length and whether it is valid.
LEMMA HeaderBytes ==
  ASSUME client \in Clients, StreamIs, read_header_size = 5,
         NEW all, \A i \in 1..5 : all[i] = Stream[GreetSize + i]
  PROVE  HeaderSays(all)
<1> DEFINE l == Len(client.address)  t == client.address_type
<1>1. \A i \in {1, 2, 3, 4, 5} : all[i] = Stream[GreetSize + i]
  OBVIOUS
<1>2. /\ all[1] = client.version /\ all[2] = client.command /\ all[3] = client.reserved
      /\ all[4] = t /\ (t = kEndPointDomain => all[5] = l) /\ l \in Nat
  BY <1>1 DEF StreamIs
<1>3. (t = kEndPointResolvedIPv4 => l = 4) /\ (t = kEndPointResolvedIPv6 => l = 16)
  BY ClientsAssumption
<1>4. client.address = <<>> <=> l = 0
  BY Bytes, EmptySeq
<1> HIDE DEF l, t
<1>5. t \in AddressTypes => AddressSize(all) = l
  BY <1>2, <1>3 DEF AddressSize, AddressTypes
<1>6. HeaderIsValid(all) <=> RequestIsValid(client)
  BY <1>2, <1>4, <1>5 DEF HeaderIsValid, RequestIsValid, t
<1>7. HeaderIsValid(all) => AddressSize(all) = l
  BY <1>2, <1>5 DEF HeaderIsValid
<1>8. HeaderIsValid(all) => RequestSize(all) = RequestLength(client)
  <2> SUFFICES ASSUME HeaderIsValid(all) PROVE RequestSize(all) = RequestLength(client)
    OBVIOUS
  <2> DEFINE x == IF t = kEndPointDomain THEN 0 ELSE 1
             y == IF t = kEndPointDomain THEN 1 ELSE 0
  <2>1. RequestSize(all) = read_header_size - x + AddressSize(all) + 2
    BY <1>2, Zenon DEF RequestSize
  <2>2. RequestLength(client) = 6 + l + y
    BY Zenon DEF RequestLength, l, t
  <2>3. (x = 0 /\ y = 1) \/ (x = 1 /\ y = 0)
    OBVIOUS
  <2> HIDE DEF x, y
  <2> QED BY <1>2, <1>7, <2>1, <2>2, <2>3
<1> QED BY <1>2, <1>6, <1>7, <1>8 DEF HeaderSays, l, t

\* The same byte, counted from the request and from the stream.
LEMMA Shift ==
  ASSUME NEW g \in Int, NEW k \in Int, NEW l \in Int, NEW i \in Int
  PROVE  g + ((k - 2 - l) + i) = ((g + k) - 2 - l) + i
OBVIOUS

\* The endpoint is the client's.
LEMMA EndpointBytes ==
  ASSUME client \in Clients, StreamIs, NEW all, NEW n \in Nat, n = RequestLength(client),
         HasReceived(n, all, GreetSize, n), read_header_size = n,
         learnt.address_type = client.address_type,
         learnt.address_size = Len(client.address)
  PROVE  Endpoint(all) = [is_domain |-> client.address_type = kEndPointDomain,
                          address |-> client.address, port |-> client.port]
<1> DEFINE l == Len(client.address)  G == GreetSize  a == client.address
<1>1. /\ a \in Seq(Byte) /\ l \in Nat /\ n >= 6 + l /\ HandshakeSize = G + n /\ G \in Nat
  BY Bytes, RequestLengthIs DEF StreamIs, HandshakeSize, GreetSize
<1>2. all \in Seq(Byte) /\ Len(all) = n /\ \A i \in 1..n : all[i] = Stream[G + i]
  BY DEF HasReceived
<1>3. /\ \A i \in 1..l : Stream[(HandshakeSize - 2 - l) + i] = a[i]
      /\ 256 * Stream[HandshakeSize - 1] + Stream[HandshakeSize] = client.port
  BY DEF StreamIs
<1>0. l = Len(a)
  OBVIOUS
<1> HIDE DEF l, G, a
<1> DEFINE m == n - 2 - l
<1>4. m \in Nat /\ m + l <= n /\ m + l = n - 2
  BY <1>1
<1>5. ASSUME NEW i \in 1..l PROVE all[m + i] = a[i]
  <2>1. m + i \in 1..n
    BY <1>1
  <2>2. G + (m + i) = (HandshakeSize - 2 - l) + i
    <3>1. G \in Int /\ n \in Int /\ l \in Int /\ i \in Int
      BY <1>1
    <3>2. HandshakeSize = G + n
      BY <1>1
    <3>3. G + ((n - 2 - l) + i) = ((G + n) - 2 - l) + i
      BY <3>1, Shift
    <3> QED BY <3>2, <3>3, Zenon DEF m
  <2> QED BY <1>2, <1>3, <2>1, <2>2
<1>6. SubSeq(all, m + 1, m + l) = a
  <2> HIDE DEF m
  <2> QED BY <1>0, <1>1, <1>2, <1>4, <1>5, PieceIs
<1>7. 256 * all[(n - 2) + 1] + all[(n - 2) + 2] = client.port
  <2>1. /\ (n - 2) + 1 \in 1..n /\ (n - 2) + 2 \in 1..n
        /\ G + ((n - 2) + 1) = HandshakeSize - 1 /\ G + ((n - 2) + 2) = HandshakeSize
    BY <1>1, SMTT(30)
  <2>2. all[(n - 2) + 1] = Stream[HandshakeSize - 1] /\ all[(n - 2) + 2] = Stream[HandshakeSize]
    BY <1>2, <2>1
  <2> QED BY <1>3, <2>2
<1>8. SubSeq(all, (n - 2) - l + 1, n - 2) = a
  <2>1. (n - 2) - l + 1 = m + 1 /\ n - 2 = m + l
    BY <1>1
  <2> QED BY <1>6, <2>1
<1> QED BY <1>7, <1>8 DEF Endpoint, l, a

\* More of the request is to be read.
LEMMA RequestGoesOn ==
  ASSUME Inv, HandshakeReading, StreamIs, NEW G, G = GreetSize, NEW size, NEW received, NEW all,
         HasReceived(received, all, G, size), NEW n, n \in Nat, received < n,
         n = IF received < 5 THEN 5 ELSE RequestLength(client),
         looping = TRUE, io = "none", LoopContinues("HANDSHAKE_READ"),
         bytes_received' = received, buffer' = all, read_header_size' = n,
         UNCHANGED <<client, userVars, transportVars>>,
         DOMAIN learnt' = DOMAIN learnt,
         received >= 5 =>
           /\ RequestIsValid(client) /\ learnt'.reply = ReplyTo(client.command)
           /\ learnt'.address_type = client.address_type
           /\ learnt'.address_size = Len(client.address)
  PROVE  Inv'
<1>1. /\ received \in Nat /\ taken = G + received
      /\ all = SubSeq(Stream, G + 1, G + received)
  BY DEF HasReceived
<1>2. /\ Stream' = Stream /\ GreetSize' = G /\ Greeted' = Greeted
      /\ RequestIsValid(client)' = RequestIsValid(client)
      /\ RequestLength(client)' = RequestLength(client)
      /\ taken' = taken /\ closed' = closed /\ written' = written
  BY SameClient DEF transportVars
<1>3. Reading(GreetSize, read_header_size, "HANDSHAKE_READ")'
  <2>1. bytes_received' \in 0..(read_header_size' - 1)
    BY <1>1
  <2>2. buffer' = SubSeq(Stream', GreetSize' + 1, GreetSize' + bytes_received')
    BY <1>1, <1>2, Zenon
  <2>3. taken' = GreetSize' + bytes_received'
    BY <1>1, <1>2, Zenon
  <2>4. looping' = TRUE /\ next_state' = "HANDSHAKE_READ" /\ rv' = OK
    BY DEF LoopContinues
  <2> HIDE DEF Inv
  <2> QED BY <2>1, <2>2, <2>3, <2>4, Zenon DEF Reading
<1>4. Connecting("HANDSHAKE_READ", "HANDSHAKE_READ_COMPLETE")'
  BY DEF HandshakeReading, Connecting, LoopContinues, userVars
<1>5. read_header_size' = IF bytes_received' < 5 THEN 5 ELSE RequestLength(client)'
  BY <1>2
<1>6. bytes_received' >= 5 =>
        /\ RequestIsValid(client)' /\ learnt'.reply = ReplyTo(client.command)'
        /\ learnt'.address_type = client'.address_type
        /\ learnt'.address_size = Len(client'.address)
  BY <1>2 DEF ReplyTo
<1>7. HandshakeReading'
  <2>1. Greeted' /\ written' = <<kSOCKS5Version, kAuthMethodNone>>
    BY <1>2 DEF HandshakeReading
  <2> QED BY <1>3, <1>4, <1>5, <1>6, <2>1, Zenon DEF HandshakeReading
<1> QED BY <1>2, <1>7 DEF Inv

\* DoHandshakeReadComplete refuses the header, reads on or starts the reply.
LEMMA DoHandshakeReadCompleteKeeps == Inv /\ DoHandshakeReadComplete => Inv'
<1> SUFFICES ASSUME Inv, DoHandshakeReadComplete PROVE Inv'
  OBVIOUS
<1>1. /\ HandshakeReading /\ StreamIs /\ client \in Clients
      /\ looping = TRUE /\ next_state = "HANDSHAKE_READ_COMPLETE" /\ io = "none"
      /\ completed_handshake = FALSE /\ delivered = <<>> /\ result = ERR_IO_PENDING
      /\ written = <<kSOCKS5Version, kAuthMethodNone>> /\ Greeted
      /\ DOMAIN learnt = {"auth_method", "reply", "address_type", "address_size",
                          "request_endpoint"}
  BY InvPhases, StreamBytes
     DEF DoHandshakeReadComplete, Phases, At, Inv, HandshakeReading, Connecting
<1>2. UNCHANGED <<client, bytes_sent, userVars, transportVars>>
  BY DEF DoHandshakeReadComplete
<1>3. CASE ReadFailed
  BY <1>1, <1>2, <1>3, ReadFailedKeeps DEF HandshakeReading
<1>4. CASE rv > 0 /\ HandshakeReceived(bytes_received + rv, buffer \o LastRead)
  <2>1. PICK size, received, all, G, n :
          /\ size = read_header_size /\ G = GreetSize /\ n = RequestLength(client)
          /\ received = bytes_received + rv /\ all = buffer \o LastRead
    OBVIOUS
  <2>2. /\ n \in Nat /\ n >= 6 /\ G \in Nat /\ G + n <= Len(Stream) /\ Len(Stream) \in Nat
        /\ HandshakeSize = G + n
    <3>1. Len(client.address) \in Nat /\ Len(client.methods) \in Nat /\ Len(Stream) \in Nat
          /\ HandshakeSize <= Len(Stream)
      BY <1>1 DEF StreamIs
    <3>2. n \in Nat /\ n >= 6 + Len(client.address)
      BY <2>1, <3>1, RequestLengthIs
    <3>3. G = 2 + Len(client.methods) /\ HandshakeSize = G + n
      BY <2>1 DEF GreetSize, HandshakeSize
    <3> QED BY <3>1, <3>2, <3>3
  <2>3. size = IF bytes_received < 5 THEN 5 ELSE n
    BY <1>1, <2>1 DEF HandshakeReading
  <2>4. size \in Nat /\ G + size <= Len(Stream)
    BY <2>2, <2>3
  <2>5. HasReceived(received, all, G, size)
    <3>1. Reading(G, size, "HANDSHAKE_READ") /\ next_state # "HANDSHAKE_READ"
      BY <1>1, <2>1 DEF HandshakeReading
    <3> HIDE DEF Inv, DoHandshakeReadComplete
    <3> QED BY <1>1, <1>4, <2>1, <2>2, <2>4, <3>1, Received
  <2>6. /\ received \in 1..size /\ taken = G + received /\ bytes_received < received
        /\ bytes_received \in Nat
        /\ \A i \in 1..received : all[i] = Stream[G + i]
    BY <2>5 DEF HasReceived
  <2>7. HandshakeReceived(received, all)
    BY <1>4, <2>1
  <2>8. CASE received = kReadHeaderSize
    <3>1. received = 5 /\ bytes_received < 5 /\ size = 5
      BY <2>3, <2>6, <2>8 DEF kReadHeaderSize
    <3>2. HeaderSays(all)
      <4>1. \A i \in 1..5 : all[i] = Stream[GreetSize + i]
        BY <2>1, <2>6, <3>1
      <4>2. read_header_size = 5
        BY <2>1, <3>1
      <4> QED BY <1>1, <4>1, <4>2, HeaderBytes
    <3>3. CASE ~HeaderIsValid(all)
      <4>1. ~RequestIsValid(client)
        BY <3>2, <3>3 DEF HeaderSays
      <4>2. written = ExpectedReplies(client)
        BY <1>1, <4>1, Replies DEF Greeted
      <4>3. LoopReturns(ERR_SOCKS_CONNECTION_FAILED) /\ learnt' = learnt
        BY <2>7, <2>8, <3>3, Zenon DEF HandshakeReceived
      <4> QED BY <1>1, <1>2, <4>1, <4>2, <4>3, FailedExactly
    <3>4. CASE HeaderIsValid(all)
      <4>1. /\ bytes_received' = received /\ buffer' = all
            /\ read_header_size' = RequestSize(all) /\ LoopContinues("HANDSHAKE_READ")
            /\ learnt' = [learnt EXCEPT !.reply = ReplyTo(all[2]), !.address_type = all[4],
                                        !.address_size = AddressSize(all)]
        BY <2>7, <2>8, <3>4, Zenon DEF HandshakeReceived
      <4>2. /\ RequestIsValid(client) /\ AddressSize(all) = Len(client.address)
            /\ RequestSize(all) = n /\ all[2] = client.command /\ all[4] = client.address_type
        BY <2>1, <3>2, <3>4 DEF HeaderSays
      <4>3. /\ learnt'.reply = ReplyTo(client.command)
            /\ learnt'.address_type = client.address_type
            /\ learnt'.address_size = Len(client.address)
            /\ DOMAIN learnt' = DOMAIN learnt
        BY <1>1, <4>1, <4>2
      <4>4. received < n /\ n = IF received < 5 THEN 5 ELSE RequestLength(client)
        BY <2>1, <2>2, <3>1
      <4>5. read_header_size' = n
        BY <4>1, <4>2
      <4> HIDE DEF Inv, DoHandshakeReadComplete
      <4> QED BY <1>1, <1>2, <2>1, <2>2, <2>5, <4>1, <4>2, <4>3, <4>4, <4>5, RequestGoesOn
    <3> QED BY <3>3, <3>4
  <2>9. CASE received # kReadHeaderSize /\ received = read_header_size
    <3>1. received = n /\ size = n /\ bytes_received >= 5
      BY <2>1, <2>3, <2>6, <2>9 DEF kReadHeaderSize
    <3>2. /\ RequestIsValid(client) /\ learnt.reply = ReplyTo(client.command)
          /\ learnt.address_type = client.address_type
          /\ learnt.address_size = Len(client.address)
      BY <1>1, <3>1 DEF HandshakeReading
    <3>3. Endpoint(all) = [is_domain |-> client.address_type = kEndPointDomain,
                           address |-> client.address, port |-> client.port]
      <4>1. HasReceived(n, all, GreetSize, n) /\ read_header_size = n
        BY <2>1, <2>5, <3>1
      <4> HIDE DEF Inv, DoHandshakeReadComplete
      <4> QED BY <1>1, <2>1, <2>2, <3>2, <4>1, EndpointBytes
    <3>4. /\ buffer' = <<>> /\ LoopContinues("HANDSHAKE_WRITE")
          /\ learnt' = [learnt EXCEPT !.request_endpoint = Endpoint(all)]
      BY <2>7, <2>9, Zenon DEF HandshakeReceived
    <3>5. /\ learnt'.request_endpoint = Endpoint(all) /\ learnt'.reply = learnt.reply
          /\ DOMAIN learnt' = DOMAIN learnt
      BY <1>1, <3>4
    <3>6. Understood'
      <4>1. Greeted' /\ RequestIsValid(client)' /\ client' = client
        BY <1>1, <1>2, <3>2, SameClient
      <4> QED BY <3>2, <3>3, <3>5, <4>1 DEF Understood, ReplyTo
    <3>7. Writing(<<kSOCKS5Version, kAuthMethodNone>>, ReplyBytes(learnt.reply),
                  "HANDSHAKE_WRITE")'
      BY <1>1, <1>2, <3>4 DEF Writing, LoopContinues, transportVars
    <3>8. taken' = HandshakeSize'
      BY <1>2, <2>2, <2>6, <3>1, SameClient DEF transportVars
    <3>9. Connecting("HANDSHAKE_WRITE", "HANDSHAKE_WRITE_COMPLETE")'
      BY <1>1, <1>2, <3>4 DEF Connecting, LoopContinues, userVars
    <3>10. HandshakeWriting'
      BY <3>6, <3>7, <3>8, <3>9, Zenon DEF HandshakeWriting
    <3> QED BY <1>2, <3>5, <3>10 DEF Inv, transportVars
  <2>10. CASE received \notin {kReadHeaderSize, read_header_size}
    <3>1. /\ bytes_received' = received /\ buffer' = all /\ LoopContinues("HANDSHAKE_READ")
          /\ UNCHANGED <<read_header_size, learnt>>
      BY <2>7, <2>10, Zenon DEF HandshakeReceived
    <3>2. received < size /\ received # 5
      BY <2>1, <2>4, <2>6, <2>10 DEF kReadHeaderSize
    <3>3. size = IF received < 5 THEN 5 ELSE RequestLength(client)
      BY <2>1, <2>3, <2>6, <3>2
    <3>4. received >= 5 => bytes_received >= 5
      BY <2>3, <2>6, <3>2
    <3>5. received >= 5 =>
            /\ RequestIsValid(client) /\ learnt'.reply = ReplyTo(client.command)
            /\ learnt'.address_type = client.address_type
            /\ learnt'.address_size = Len(client.address)
      BY <1>1, <3>1, <3>4 DEF HandshakeReading
    <3>6. read_header_size' = size /\ DOMAIN learnt' = DOMAIN learnt
      BY <2>1, <3>1
    <3> HIDE DEF Inv, DoHandshakeReadComplete
    <3> QED BY <1>1, <1>2, <2>1, <2>4, <2>5, <3>1, <3>2, <3>3, <3>5, <3>6, RequestGoesOn
  <2> QED BY <2>8, <2>9, <2>10
<1> QED BY <1>3, <1>4 DEF DoHandshakeReadComplete

\* DoHandshakeWriteComplete writes on, or ends Connect by the reply it wrote.
LEMMA DoHandshakeWriteCompleteKeeps == Inv /\ DoHandshakeWriteComplete => Inv'
<1> SUFFICES ASSUME Inv, DoHandshakeWriteComplete PROVE Inv'
  OBVIOUS
<1>1. /\ HandshakeWriting /\ looping = TRUE /\ next_state = "HANDSHAKE_WRITE_COMPLETE"
      /\ io = "none" /\ client \in Clients /\ closed \in BOOLEAN /\ StreamIs
      /\ completed_handshake = FALSE /\ delivered = <<>> /\ result = ERR_IO_PENDING
      /\ Understood /\ taken = HandshakeSize
  BY InvPhases, StreamBytes
     DEF DoHandshakeWriteComplete, Phases, At, Inv, HandshakeWriting, Connecting
<1>2. PICK code, answer, before :
        /\ code = learnt.reply /\ answer = ReplyBytes(code)
        /\ before = <<kSOCKS5Version, kAuthMethodNone>>
  OBVIOUS
<1>3. code \in Nat /\ answer \in Seq(Nat) /\ Len(answer) = 10 /\ before \in Seq(Nat)
  <2>1. code \in Nat
    BY <1>1, <1>2, Codes DEF Understood
  <2>2. /\ ReplyBytes(code) \in Seq(Nat) /\ Len(ReplyBytes(code)) = 10
        /\ <<kSOCKS5Version, kAuthMethodNone>> \in Seq(Nat)
    BY <2>1, AnswerBytes
  <2> QED BY <1>2, <2>1, <2>2
<1>4. UNCHANGED <<client, readVars, learnt, delivered, transportVars>>
  BY DEF DoHandshakeWriteComplete
<1>5. Writing(before, answer, "HANDSHAKE_WRITE")
  BY <1>1, <1>2 DEF HandshakeWriting
<1>6. CASE rv < 0 /\ LoopReturns(rv) /\ UNCHANGED completed_handshake
  BY <1>1, <1>4, <1>5, <1>6, WriteFailedKeeps DEF transportVars
<1>u. Understood' /\ HandshakeSize' = HandshakeSize /\ Stream' = Stream
  BY <1>1, <1>4, SameClient DEF Understood, ReplyTo
<1>7. CASE rv >= 0
  <2>1. /\ buffer = answer /\ bytes_sent + rv \in 0..Len(answer) /\ rv \in Nat
        /\ written = before \o SubSeq(answer, 1, bytes_sent + rv)
        /\ bytes_sent + rv = Len(buffer) => written = before \o answer
    <3> HIDE DEF Inv, DoHandshakeWriteComplete
    <3> QED BY <1>1, <1>3, <1>5, <1>7, Written
  <2>0. ~(rv < 0)
    BY <1>7, <2>1
  <2>2. bytes_sent' = bytes_sent + rv
    BY <2>0, Zenon DEF DoHandshakeWriteComplete
  <2>3. CASE bytes_sent' # Len(buffer)
    <3>1. LoopContinues("HANDSHAKE_WRITE") /\ UNCHANGED <<buffer, completed_handshake>>
      BY <2>0, <2>3, Zenon DEF DoHandshakeWriteComplete
    <3>2. bytes_sent' \in 0..(Len(answer) - 1)
      <4>1. PICK b \in 0..10 : b = bytes_sent' /\ b # 10
        BY <1>3, <2>1, <2>2, <2>3
      <4>2. b \in 0..(10 - 1)
        BY <4>1
      <4> QED BY <1>3, <4>1, <4>2
    <3>3. Writing(before, answer, "HANDSHAKE_WRITE")'
      BY <1>1, <1>4, <2>1, <2>2, <3>1, <3>2 DEF Writing, LoopContinues, transportVars
    <3>4. answer = ReplyBytes(learnt.reply)'
      BY <1>2, <1>4 DEF ReplyBytes
    <3>5. Writing(<<kSOCKS5Version, kAuthMethodNone>>, ReplyBytes(learnt.reply),
                  "HANDSHAKE_WRITE")'
      BY <1>2, <3>3, <3>4 DEF Writing
    <3>6. Connecting("HANDSHAKE_WRITE", "HANDSHAKE_WRITE_COMPLETE")'
      BY <1>1, <1>4, <3>1 DEF Connecting, LoopContinues
    <3>7. taken' = HandshakeSize'
      BY <1>1, <1>4, <1>u DEF transportVars
    <3>8. HandshakeWriting'
      BY <1>u, <3>5, <3>6, <3>7, Zenon DEF HandshakeWriting
    <3> QED BY <1>1, <1>4, <3>8 DEF Inv, transportVars
  <2>4. CASE bytes_sent' = Len(buffer)
    <3>1. RequestDone
      BY <2>0, <2>4, Zenon DEF DoHandshakeWriteComplete
    <3>2. written = ExpectedReplies(client) /\ written' = ExpectedReplies(client)'
      <4>1. written = <<kSOCKS5Version, kAuthMethodNone>> \o ReplyBytes(ReplyTo(client.command))
        BY <1>1, <1>2, <2>1, <2>2, <2>4 DEF Understood
      <4>2. ExpectedReplies(client)
              = <<kSOCKS5Version, kAuthMethodNone>> \o ReplyBytes(ReplyTo(client.command))
        BY <1>1, Replies DEF Understood, Greeted
      <4>3. client' = client /\ written' = written
        BY <1>4 DEF transportVars
      <4>4. ExpectedReplies(client)' = ExpectedReplies(client)
        BY <4>3 DEF ExpectedReplies, GreetingIsValid, RequestIsValid, ReplyBytes
      <4> QED BY <4>1, <4>2, <4>3, <4>4
    <3>3. CASE code = kReplySuccess
      <4>1. /\ completed_handshake' = TRUE /\ LoopReturns(OK)
        BY <1>2, <3>1, <3>3 DEF RequestDone
      <4>2. Len(Stream) \in Nat /\ HandshakeSize <= Len(Stream)
        BY <1>1 DEF StreamIs
      <4>3. HandshakeSize \in Nat
        <5>1. RequestLength(client) \in Nat /\ Len(client.methods) \in Nat
          BY <1>1, RequestLengthIs DEF StreamIs
        <5> QED BY <5>1 DEF HandshakeSize, GreetSize
      <4>4. delivered' = <<>> /\ taken' = HandshakeSize /\ learnt'.reply = kReplySuccess
        BY <1>1, <1>2, <1>4, <3>3 DEF transportVars
      <4>5. delivered' = SubSeq(Stream', HandshakeSize' + 1, taken')
        <5>1. SubSeq(Stream', HandshakeSize + 1, HandshakeSize) = <<>>
          BY <4>3, NoPiece
        <5> QED BY <1>u, <4>4, <5>1, Zenon
      <4>6. taken' = HandshakeSize' + Len(delivered') /\ delivered' \in Seq(Byte)
        BY <1>u, <4>3, <4>4
      <4>7. taken' <= Len(Stream)'
        BY <1>u, <4>2, <4>4
      <4>8. Connected'
        BY <1>1, <1>u, <3>2, <4>1, <4>4, <4>5, <4>6, <4>7 DEF Connected, LoopReturns
      <4> QED BY <1>1, <1>4, <4>8 DEF Inv, transportVars
    <3>4. CASE code # kReplySuccess
      <4>1. /\ completed_handshake' = FALSE /\ LoopReturns(ERR_SOCKS_CONNECTION_FAILED)
        BY <1>2, <3>1, <3>4 DEF RequestDone
      <4>2. client.command # kCommandConnect
        BY <1>1, <1>2, <3>4 DEF Understood, ReplyTo
      <4>3. Failed'
        BY <1>1, <1>4, <3>2, <4>1, <4>2 DEF Failed, LoopReturns
      <4> QED BY <1>1, <1>4, <4>3 DEF Inv, transportVars
    <3> QED BY <3>3, <3>4
  <2> QED BY <2>3, <2>4
<1> QED BY <1>6, <1>7, Zenon DEF DoHandshakeWriteComplete

\* The phases in which an operation of the transport may be outstanding.
LEMMA Outstanding ==
  ASSUME Inv, io # "none"
  PROVE  /\ looping = FALSE
         /\ \/ GreetReading /\ next_state = "GREET_READ_COMPLETE" /\ io = "read"
            \/ GreetWriting /\ next_state = "GREET_WRITE_COMPLETE" /\ io = "write"
            \/ HandshakeReading /\ next_state = "HANDSHAKE_READ_COMPLETE" /\ io = "read"
            \/ HandshakeWriting /\ next_state = "HANDSHAKE_WRITE_COMPLETE" /\ io = "write"
<1>1. CASE GreetReading
  BY <1>1, Zenon DEF GreetReading, Connecting, Reading
<1>2. CASE GreetWriting
  BY <1>2, Zenon DEF GreetWriting, Connecting, Writing
<1>3. CASE HandshakeReading
  BY <1>3, Zenon DEF HandshakeReading, Connecting, Reading
<1>4. CASE HandshakeWriting
  BY <1>4, Zenon DEF HandshakeWriting, Connecting, Writing
<1> QED BY <1>1, <1>2, <1>3, <1>4 DEF Inv, Fresh, Connected, Failed, Over

\* OnIOComplete goes on where the pending operation was started.
LEMMA OnIOCompleteKeeps == Inv /\ OnIOComplete => Inv'
<1> SUFFICES ASSUME Inv, OnIOComplete PROVE Inv'
  OBVIOUS
<1>1. /\ looping' = TRUE /\ io' = "none"
      /\ UNCHANGED <<client, next_state, result, buffer, bytes_sent, readVars, learnt, userVars>>
  BY DEF OnIOComplete
<1>2. io # "none" /\ closed \in BOOLEAN /\ StreamIs /\ Len(Stream) \in Nat
  BY StreamBytes DEF OnIOComplete, Inv, StreamIs
<1>3. looping = FALSE
  BY <1>2, Outstanding
<1>4. UNCHANGED <<bytes_received, greet_read_header_size, read_header_size>>
  BY <1>1 DEF readVars
<1>5. CASE GreetReading /\ next_state = "GREET_READ_COMPLETE" /\ io = "read"
  <2>1. PICK size : size = greet_read_header_size
    OBVIOUS
  <2>2. ReadCompletes(size - bytes_received) /\ written' = written
    BY <1>5, <2>1, Zenon DEF OnIOComplete, GreetReadLength
  <2>3. Reading(0, size, "GREET_READ")' /\ closed' \in BOOLEAN
    <3>1. size \in Nat
      BY <1>2, <1>5, <2>1 DEF GreetReading, GreetSize, StreamIs
    <3>2. Reading(0, size, "GREET_READ") /\ next_state # "GREET_READ"
      BY <1>5, <2>1 DEF GreetReading
    <3> HIDE DEF Inv, OnIOComplete
    <3> QED BY <1>1, <1>2, <1>3, <1>4, <2>2, <3>1, <3>2, ReadEnds
  <2>4. Reading(0, greet_read_header_size, "GREET_READ")'
    BY <1>4, <2>1, <2>3 DEF Reading
  <2>5. GreetReading'
    BY <1>1, <1>4, <1>5, <2>2, <2>4, SameClient DEF GreetReading, Connecting, userVars
  <2> QED BY <1>1, <2>3, <2>5 DEF Inv
<1>6. CASE HandshakeReading /\ next_state = "HANDSHAKE_READ_COMPLETE" /\ io = "read"
  <2>1. PICK size, first : size = read_header_size /\ first = GreetSize
    OBVIOUS
  <2>2. ReadCompletes(size - bytes_received) /\ written' = written
    <3>1. next_state # "GREET_READ_COMPLETE"
      BY <1>6
    <3> QED BY <1>6, <2>1, <3>1, Zenon DEF OnIOComplete, HandshakeReadLength
  <2>3. Reading(first, size, "HANDSHAKE_READ")' /\ closed' \in BOOLEAN
    <3>1. size \in Nat /\ first \in Nat
      <4>1. RequestLength(client) \in Nat
        BY <1>2, RequestLengthIs DEF StreamIs
      <4> QED BY <1>2, <1>6, <2>1, <4>1 DEF HandshakeReading, GreetSize, StreamIs
    <3>2. Reading(first, size, "HANDSHAKE_READ") /\ next_state # "HANDSHAKE_READ"
      BY <1>6, <2>1 DEF HandshakeReading
    <3> HIDE DEF Inv, OnIOComplete
    <3> QED BY <1>1, <1>2, <1>3, <1>4, <2>2, <3>1, <3>2, ReadEnds
  <2>4. Reading(GreetSize, read_header_size, "HANDSHAKE_READ")'
    BY <1>1, <1>4, <2>1, <2>3, SameClient DEF Reading
  <2>5. HandshakeReading'
    BY <1>1, <1>4, <1>6, <2>2, <2>4, SameClient DEF HandshakeReading, Connecting, userVars
  <2> QED BY <1>1, <2>3, <2>5 DEF Inv
<1>7. ASSUME io = "write"
      PROVE  /\ WriteCompletes(SubSeq(buffer, bytes_sent + 1, Len(buffer)))
             /\ UNCHANGED <<taken, closed>>
  BY <1>7 DEF OnIOComplete
<1>8. CASE GreetWriting /\ next_state = "GREET_WRITE_COMPLETE" /\ io = "write"
  <2>1. PICK code, answer : code = learnt.auth_method /\ answer = <<kSOCKS5Version, code>>
    OBVIOUS
  <2>2. answer \in Seq(Nat) /\ <<>> \in Seq(Nat)
    <3>1. code \in Nat
      BY <1>8, <2>1, Codes DEF GreetWriting
    <3> QED BY <2>1, <3>1, AnswerBytes
  <2>3. Writing(<<>>, answer, "GREET_WRITE")'
    <3>1. Writing(<<>>, answer, "GREET_WRITE") /\ next_state # "GREET_WRITE"
      BY <1>8, <2>1 DEF GreetWriting
    <3> HIDE DEF Inv, OnIOComplete
    <3> QED BY <1>1, <1>3, <1>7, <1>8, <2>2, <3>1, WriteEnds
  <2>4. Writing(<<>>, <<kSOCKS5Version, learnt.auth_method>>, "GREET_WRITE")'
    BY <1>1, <2>1, <2>3 DEF Writing
  <2>5. GreetWriting'
    BY <1>1, <1>4, <1>7, <1>8, <2>4, SameClient DEF GreetWriting, Connecting, userVars, AuthMethod
  <2> QED BY <1>1, <1>2, <1>7, <1>8, <2>5 DEF Inv
<1>9. CASE HandshakeWriting /\ next_state = "HANDSHAKE_WRITE_COMPLETE" /\ io = "write"
  <2>1. PICK code, answer, before :
          /\ code = learnt.reply /\ answer = ReplyBytes(code)
          /\ before = <<kSOCKS5Version, kAuthMethodNone>>
    OBVIOUS
  <2>2. answer \in Seq(Nat) /\ before \in Seq(Nat)
    <3>1. code \in Nat
      BY <1>9, <2>1, Codes DEF HandshakeWriting, Understood
    <3>2. ReplyBytes(code) \in Seq(Nat) /\ <<kSOCKS5Version, kAuthMethodNone>> \in Seq(Nat)
      BY <3>1, AnswerBytes
    <3> QED BY <2>1, <3>2
  <2>3. Writing(before, answer, "HANDSHAKE_WRITE")'
    <3>1. Writing(before, answer, "HANDSHAKE_WRITE") /\ next_state # "HANDSHAKE_WRITE"
      BY <1>9, <2>1 DEF HandshakeWriting
    <3> HIDE DEF Inv, OnIOComplete
    <3> QED BY <1>1, <1>3, <1>7, <1>9, <2>2, <3>1, WriteEnds
  <2>4. answer = ReplyBytes(learnt.reply)'
    BY <1>1, <2>1 DEF ReplyBytes
  <2>5. Writing(<<kSOCKS5Version, kAuthMethodNone>>, ReplyBytes(learnt.reply), "HANDSHAKE_WRITE")'
    BY <2>1, <2>3, <2>4 DEF Writing
  <2>6. Understood'
    BY <1>1, <1>9, SameClient DEF HandshakeWriting, Understood, ReplyTo
  <2>7. HandshakeWriting'
    BY <1>1, <1>7, <1>9, <2>5, <2>6, SameClient DEF HandshakeWriting, Connecting, userVars
  <2> QED BY <1>1, <1>2, <1>7, <1>9, <2>7 DEF Inv
<1> QED BY <1>2, <1>5, <1>6, <1>8, <1>9, Outstanding

\* Read delivers the next bytes after the handshake.
LEMMA ReadKeeps == Inv /\ Read => Inv'
<1> SUFFICES ASSUME Inv, Read PROVE Inv'
  OBVIOUS
<1>1. Connected /\ StreamIs /\ closed \in BOOLEAN
  BY InvPhases, StreamBytes DEF Read, Phases, Inv
<1>2. PICK S, H, t, u, d :
        S = Stream /\ H = HandshakeSize /\ t = taken /\ u = taken' /\ d = delivered
  OBVIOUS
<1>3. /\ S \in Seq(Byte) /\ Len(S) \in Nat /\ H \in Nat /\ d \in Seq(Byte) /\ Len(d) \in Nat
      /\ t = H + Len(d) /\ t <= Len(S) /\ t \in Nat /\ H <= t /\ d = SubSeq(S, H + 1, t)
  <2>1. S \in Seq(Byte) /\ Len(S) \in Nat /\ d \in Seq(Byte) /\ t = H + Len(d) /\ t <= Len(S)
        /\ d = SubSeq(S, H + 1, t)
    BY <1>1, <1>2 DEF StreamIs, Connected
  <2>2. H \in Nat
    <3>1. RequestLength(client) \in Nat /\ Len(client.methods) \in Nat
      BY <1>1, RequestLengthIs DEF StreamIs
    <3> QED BY <1>2, <3>1 DEF HandshakeSize, GreetSize
  <2>3. Len(d) \in Nat
    BY <2>1, LenProperties
  <2> QED BY <2>1, <2>2, <2>3
<1>4. closed' \in BOOLEAN /\ u \in Nat /\ t <= u /\ u <= Len(S)
  <2>1. /\ ReadCompletes(ReadBufferSize) /\ ReadBufferSize \in Nat
        /\ Len(Stream) \in Nat /\ taken \in Nat
    BY <1>2, <1>3, BuildAssumption DEF Read
  <2>2. /\ closed' \in BOOLEAN
        /\ \/ rv' \in 1..ReadBufferSize /\ taken' = taken + rv' /\ taken' <= Len(Stream)
           \/ taken' = taken
    <3> HIDE DEF Inv, Read
    <3> QED BY <1>1, <2>1, Outcome
  <2> QED BY <1>2, <1>3, <2>1, <2>2
<1>5. /\ delivered' = d \o SubSeq(S, t + 1, u)
      /\ UNCHANGED <<client, callVars, learnt, completed_handshake, written>>
  BY <1>2 DEF Read
<1>6. delivered' = SubSeq(S, H + 1, u) /\ delivered' \in Seq(Byte) /\ Len(delivered') = u - H
  <2>1. SubSeq(S, H + 1, t) \o SubSeq(S, t + 1, u) = SubSeq(S, H + 1, u)
    <3>1. S \in Seq(Byte) /\ H \in Nat /\ t \in Nat /\ H <= t
      BY <1>3
    <3>2. u \in Nat /\ t <= u /\ u <= Len(S)
      BY <1>4
    <3> HIDE DEF Inv, Read
    <3> QED BY <3>1, <3>2, PiecesJoin
  <2>2. H <= u
    BY <1>3, <1>4
  <2>3. SubSeq(S, H + 1, u) \in Seq(Byte) /\ Len(SubSeq(S, H + 1, u)) = u - H
    BY <1>3, <1>4, <2>2, Piece
  <2>4. delivered' = SubSeq(S, H + 1, u)
    BY <1>3, <1>5, <2>1, Zenon
  <2> QED BY <2>3, <2>4, Zenon
<1>7. /\ Stream' = S /\ HandshakeSize' = H /\ Understood'
      /\ ExpectedReplies(client)' = ExpectedReplies(client)
  <2>1. Stream' = S /\ HandshakeSize' = H
    BY <1>2, <1>5, SameClient
  <2>2. Understood'
    BY <1>1, <1>5, SameClient DEF Connected, Understood, ReplyTo
  <2>3. ExpectedReplies(client)' = ExpectedReplies(client)
    BY <1>5 DEF ExpectedReplies, GreetingIsValid, RequestIsValid, ReplyBytes
  <2> QED BY <2>1, <2>2, <2>3
<1>8. taken' = HandshakeSize' + Len(delivered') /\ taken' <= Len(Stream')
  <2>1. u = H + (u - H)
    BY <1>3, <1>4
  <2> QED BY <1>2, <1>4, <1>6, <1>7, <2>1
<1>9. Connected'
  BY <1>1, <1>2, <1>5, <1>6, <1>7, <1>8 DEF Connected, callVars
<1> QED BY <1>4, <1>5, <1>9 DEF Inv

\* Disconnect ends the connection in every phase.
LEMMA DisconnectKeeps == Inv /\ Disconnect => Inv'
<1> SUFFICES ASSUME Inv, Disconnect PROVE Inv'
  OBVIOUS
<1>1. looping = FALSE
  BY Zenon DEF Disconnect, Inv, Fresh, GreetReading, GreetWriting, HandshakeReading,
               HandshakeWriting, Connected, Failed, Over, Reading, Writing
<1>2. Over'
  BY <1>1 DEF Disconnect, Over
<1> QED BY <1>2 DEF Disconnect, Inv, transportVars

\* Every step stays in a phase or goes on to another.
LEMMA NextKeeps == ASSUME MethodsFit PROVE Inv /\ [Next]_vars => Inv'
<1> SUFFICES ASSUME Inv, [Next]_vars PROVE Inv'
  OBVIOUS
<1>1. CASE Next
  BY <1>1, ConnectKeeps, OnIOCompleteKeeps, DoGreetReadKeeps, DoGreetReadCompleteKeeps,
     DoGreetWriteKeeps, DoGreetWriteCompleteKeeps, DoHandshakeReadKeeps,
     DoHandshakeReadCompleteKeeps, DoHandshakeWriteKeeps, DoHandshakeWriteCompleteKeeps,
     ReadKeeps, DisconnectKeeps, Zenon DEF Next
<1>2. CASE UNCHANGED vars
  <2>1. UNCHANGED <<client, next_state, looping, io, result, rv, buffer, bytes_sent,
                    bytes_received, greet_read_header_size, read_header_size, learnt,
                    completed_handshake, delivered, taken, closed, written>>
    BY <1>2 DEF vars, callVars, readVars, userVars, transportVars
  <2>2. /\ Stream' = Stream /\ GreetSize' = GreetSize /\ HandshakeSize' = HandshakeSize
        /\ GreetingIsValid(client)' = GreetingIsValid(client)
        /\ RequestIsValid(client)' = RequestIsValid(client)
        /\ RequestLength(client)' = RequestLength(client)
        /\ Greeted' = Greeted
    BY <2>1, SameClient
  <2>3. /\ ReplyTo(client.command)' = ReplyTo(client.command)
        /\ AuthMethod(client.methods)' = AuthMethod(client.methods)
        /\ ReplyBytes(learnt.reply)' = ReplyBytes(learnt.reply)
        /\ ExpectedReplies(client)' = ExpectedReplies(client)
    BY <2>1 DEF ReplyTo, AuthMethod, ReplyBytes, ExpectedReplies, GreetingIsValid, RequestIsValid
  <2>4. CASE Fresh
    BY <2>1, <2>4 DEF Fresh, Inv
  <2>5. CASE GreetReading
    BY <2>1, <2>2, <2>5, Zenon DEF GreetReading, Connecting, Reading, Inv
  <2>6. CASE GreetWriting
    BY <2>1, <2>2, <2>3, <2>6, Zenon DEF GreetWriting, Connecting, Writing, Inv
  <2>7. CASE HandshakeReading
    BY <2>1, <2>2, <2>3, <2>7, Zenon DEF HandshakeReading, Connecting, Reading, Inv
  <2>8. CASE HandshakeWriting
    BY <2>1, <2>2, <2>3, <2>8, Zenon DEF HandshakeWriting, Connecting, Writing, Understood, Inv
  <2>9. CASE Connected
    BY <2>1, <2>2, <2>3, <2>9, Zenon DEF Connected, Understood, Inv
  <2>10. CASE Failed
    BY <2>1, <2>2, <2>3, <2>10, Zenon DEF Failed, Inv
  <2>11. CASE Over
    BY <2>1, <2>11 DEF Over, Inv
  <2> QED BY <2>4, <2>5, <2>6, <2>7, <2>8, <2>9, <2>10, <2>11 DEF Inv
<1> QED BY <1>1, <1>2

-----------------------------------------------------------------------------
\* The bytes of a reversed sequence.
LEMMA Reversed ==
  ASSUME NEW s \in Seq(Nat)
  PROVE  /\ Reverse(s) \in Seq(Nat) /\ Len(Reverse(s)) = Len(s) /\ Len(s) \in Nat
         /\ \A i \in 1..Len(s) : Reverse(s)[i] = s[(Len(s) - i) + 1]
<1>1. PICK k \in Nat : k = Len(s)
  BY LenProperties
<1>2. \A i \in 1..k : s[(k - i) + 1] \in Nat
  <2> SUFFICES ASSUME NEW i \in 1..k PROVE s[(k - i) + 1] \in Nat
    OBVIOUS
  <2>1. (k - i) + 1 \in 1..k
    OBVIOUS
  <2> QED BY <1>1, <2>1, ElementOfSeq
<1> DEFINE r == [i \in 1..k |-> s[(k - i) + 1]]
<1>3. r \in [1..k -> Nat] /\ \A i \in 1..k : r[i] = s[(k - i) + 1]
  BY <1>2
<1>4. Reverse(s) = r
  BY <1>1 DEF Reverse
<1> HIDE DEF r
<1>5. r \in Seq(Nat) /\ Len(r) = k
  BY <1>3
<1> QED BY <1>1, <1>3, <1>4, <1>5

\* A join ends with its second part and with nothing else of that length.
LEMMA SuffixIs ==
  ASSUME NEW s \in Seq(Nat), NEW t \in Seq(Nat), NEW u \in Seq(Nat), Len(s) = Len(u)
  PROVE  IsSuffix(s, t \o u) <=> s = u
<1> DEFINE w == t \o u
<1>1. IsJoin(w, t, u, Nat)
  BY Joined
<1> HIDE DEF w
<1>2. PICK k \in Nat, m \in Nat, n \in Nat : k = Len(s) /\ m = Len(t) /\ n = m + k
  BY LenProperties
<1>3. w \in Seq(Nat) /\ Len(w) = n /\ \A i \in 1..k : w[m + i] = u[i]
  BY <1>1, <1>2 DEF IsJoin
<1> DEFINE rs == Reverse(s)  rw == Reverse(w)
<1>4. rs \in Seq(Nat) /\ Len(rs) = k /\ \A i \in 1..k : rs[i] = s[(k - i) + 1]
  BY <1>2, Reversed
<1>5. rw \in Seq(Nat) /\ Len(rw) = n /\ \A i \in 1..n : rw[i] = w[(n - i) + 1]
  BY <1>3, Reversed
<1>6. IsSuffix(s, w) <=> Len(rs) <= Len(rw) /\ SubSeq(rs, 1, Len(rs)) = SubSeq(rw, 1, Len(rs))
  BY Zenon DEF IsSuffix, IsPrefix
<1> HIDE DEF rs, rw
<1>7. SubSeq(rs, 1, Len(rs)) = rs
  BY <1>4, SubSeqFull
<1> DEFINE p == SubSeq(rw, 0 + 1, k)
<1>8. p \in Seq(Nat) /\ Len(p) = k - 0 /\ \A i \in 1..(k - 0) : p[i] = rw[0 + i]
  <2>1. 0 <= k /\ k <= Len(rw) /\ 0 \in Nat
    BY <1>2, <1>5
  <2> QED BY <1>5, <2>1, Piece
<1>9. p = SubSeq(rw, 1, Len(rs))
  BY <1>4
<1> HIDE DEF p
<1>10. ASSUME NEW i \in 1..k PROVE p[i] = u[(k - i) + 1]
  <2>1. /\ i \in 1..n /\ (n - i) + 1 = m + ((k - i) + 1) /\ (k - i) + 1 \in 1..k
        /\ 0 + i = i /\ k - 0 = k
    BY <1>2
  <2>2. p[i] = rw[i]
    BY <1>8, <2>1
  <2>3. rw[i] = w[(n - i) + 1]
    BY <1>5, <2>1
  <2> QED BY <1>3, <2>1, <2>2, <2>3
<1>11. IsSuffix(s, w) <=> rs = p
  <2>1. Len(rs) <= Len(rw)
    BY <1>2, <1>4, <1>5
  <2> QED BY <1>6, <1>7, <1>9, <2>1, Zenon
<1>12. ASSUME rs = p PROVE s = u
  <2>1. ASSUME NEW j \in 1..Len(s) PROVE s[j] = u[j]
    <3>0. j \in 1..k
      BY <1>2
    <3>1. PICK i \in 1..k : i = (k - j) + 1
      <4>1. (k - j) + 1 \in 1..k
        BY <3>0
      <4> QED BY <4>1
    <3>2. (k - i) + 1 = j
      BY <3>0, <3>1
    <3> QED BY <1>4, <1>10, <1>12, <3>2
  <2> QED BY <2>1, SeqEqual
<1>13. ASSUME s = u PROVE rs = p
  <2>1. Len(rs) = Len(p)
    BY <1>4, <1>8
  <2>2. ASSUME NEW i \in 1..Len(rs) PROVE rs[i] = p[i]
    BY <1>4, <1>10, <1>13
  <2> QED BY <1>4, <1>8, <2>1, <2>2, SeqEqual
<1> QED BY <1>11, <1>12, <1>13 DEF w

\* What the client is told ends with the success reply exactly when it is one.
LEMMA ReplyIsSuffix ==
  ASSUME NEW code \in Nat
  PROVE  IsSuffix(ReplyBytes(kReplySuccess),
                  <<kSOCKS5Version, kAuthMethodNone>> \o ReplyBytes(code))
           <=> code = kReplySuccess
<1> DEFINE a == <<kSOCKS5Version, kAuthMethodNone>>
           b == ReplyBytes(code)
           r == ReplyBytes(kReplySuccess)
<1>1. a \in Seq(Nat) /\ b \in Seq(Nat) /\ Len(b) = 10 /\ b[2] = code
  BY AnswerBytes
<1>2. r \in Seq(Nat) /\ Len(r) = 10 /\ r[2] = kReplySuccess
  BY AnswerBytes DEF kReplySuccess
<1>3. code = kReplySuccess => b = r
  OBVIOUS
<1>4. b = r => code = kReplySuccess
  <2> HIDE DEF b, r
  <2> QED BY <1>1, <1>2
<1>5. IsSuffix(r, a \o b) <=> r = b
  <2> HIDE DEF a, b, r
  <2> QED BY <1>1, <1>2, SuffixIs
<1> HIDE DEF a, b, r
<1>6. IsSuffix(r, a \o b) <=> code = kReplySuccess
  BY <1>3, <1>4, <1>5, Zenon
<1> QED BY <1>6, Zenon DEF a, b, r

\* What is shorter than a reply does not end with one.
LEMMA ShortIsNoReply ==
  ASSUME NEW w \in Seq(Nat), Len(w) < 10
  PROVE  ~IsSuffix(ReplyBytes(kReplySuccess), w)
<1> DEFINE r == ReplyBytes(kReplySuccess)
<1>1. r \in Seq(Nat) /\ Len(r) = 10
  BY AnswerBytes DEF kReplySuccess
<1> HIDE DEF r
<1>2. Len(Reverse(r)) = 10 /\ Len(Reverse(w)) = Len(w) /\ Len(w) \in Nat
  BY <1>1, Reversed
<1>3. ~(Len(Reverse(r)) <= Len(Reverse(w)))
  BY <1>2
<1>4. ~IsSuffix(r, w)
  BY <1>3, Zenon DEF IsSuffix, IsPrefix
<1> QED BY <1>4 DEF r

-----------------------------------------------------------------------------
\* The results.

\* The hypothesis of what follows asks nothing of a build whose char is
\* unsigned, and fewer than 128 methods of a client where it is signed.
LEMMA WhenMethodsFit ==
  MethodsFit <=> (CharIsSigned = FALSE \/ \A c \in Clients : Len(c.methods) < 128)
<1>1. ASSUME NEW c \in Clients
      PROVE  Char(Len(c.methods)) = Len(c.methods)
               <=> CharIsSigned = FALSE \/ Len(c.methods) < 128
  <2>1. PICK n \in Nat : n = Len(c.methods)
    BY Bytes DEF Byte
  <2>2. n - 256 # n
    OBVIOUS
  <2> QED BY <2>1, <2>2, BuildAssumption DEF Char
<1> QED BY <1>1, BuildAssumption DEF MethodsFit

(***************************************************************************)
(* Every state of a connection is in one of the phases, whatever the       *)
(* transport does with its Reads and Writes.                               *)
(***************************************************************************)
THEOREM Invariance == ASSUME MethodsFit PROVE Spec => []Inv
<1>1. Init => Inv
  BY InitInv
<1>2. Inv /\ [Next]_vars => Inv'
  BY NextKeeps
<1> QED BY <1>1, <1>2, PTL DEF Spec

\* In every phase the DCHECKs hold.
LEMMA InvDchecks == Inv => DchecksHold
<1> SUFFICES ASSUME Inv PROVE DchecksHold
  OBVIOUS
<1>1. Phases /\ StreamIs
  BY InvPhases, StreamBytes DEF Inv
<1>2. PICK n \in Nat, G \in Nat, L \in Nat :
        /\ n = RequestLength(client) /\ n >= 6 /\ G = GreetSize /\ G >= 2
        /\ L = Len(Stream) /\ G + n <= L
  <2>1. /\ Len(client.address) \in Nat /\ Len(client.methods) \in Nat /\ Len(Stream) \in Nat
        /\ HandshakeSize <= Len(Stream)
    BY <1>1 DEF StreamIs
  <2>2. RequestLength(client) \in Nat /\ RequestLength(client) >= 6 + Len(client.address)
    BY <2>1, RequestLengthIs
  <2>3. GreetSize = 2 + Len(client.methods) /\ HandshakeSize = GreetSize + RequestLength(client)
    BY DEF GreetSize, HandshakeSize
  <2> QED BY <2>1, <2>2, <2>3
<1>3. ASSUME NEW first \in Nat, NEW size \in Nat, NEW start, first + size <= L,
             Reading(first, size, start), next_state = start
      PROVE  /\ rv = OK /\ bytes_received \in Nat /\ bytes_received < size
             /\ buffer = <<>> => bytes_received = 0
  <2>1. /\ rv = OK /\ bytes_received \in 0..(size - 1)
        /\ buffer = SubSeq(Stream, first + 1, first + bytes_received)
    BY <1>3, Zenon DEF Reading
  <2>2. PICK b \in Nat : b = bytes_received /\ b < size
    BY <2>1
  <2> DEFINE q == first + b
  <2>3. q \in Nat /\ first <= q /\ q <= Len(Stream) /\ q - first = b
    BY <1>2, <1>3, <2>2
  <2> HIDE DEF q
  <2>4. Len(SubSeq(Stream, first + 1, q)) = q - first
    BY <1>1, <2>3, Piece DEF StreamIs
  <2>5. Len(buffer) = b
    BY <2>1, <2>2, <2>3, <2>4 DEF q
  <2>6. buffer = <<>> => b = 0
    BY <2>5
  <2> QED BY <2>1, <2>2, <2>6
<1>4. At("GREET_READ") =>
        /\ rv = OK /\ GreetReadLength > 0
        /\ buffer = <<>> => bytes_received = 0
                            /\ greet_read_header_size = kGreetReadHeaderSize
  <2> SUFFICES ASSUME At("GREET_READ")
               PROVE  /\ rv = OK /\ GreetReadLength > 0
                      /\ buffer = <<>> => bytes_received = 0
                                          /\ greet_read_header_size = kGreetReadHeaderSize
    OBVIOUS
  <2>1. GreetReading /\ next_state = "GREET_READ"
    BY <1>1 DEF At, Phases
  <2>2. PICK size : size = greet_read_header_size
    OBVIOUS
  <2>3. size = (IF bytes_received < 2 THEN 2 ELSE G) /\ Reading(0, size, "GREET_READ")
    BY <1>2, <2>1, <2>2 DEF GreetReading
  <2>4. size \in Nat /\ 0 + size <= L
    BY <1>2, <2>3
  <2>5. /\ rv = OK /\ bytes_received \in Nat /\ bytes_received < size
        /\ buffer = <<>> => bytes_received = 0
    BY <1>3, <2>1, <2>3, <2>4
  <2>6. GreetReadLength > 0
    BY <2>2, <2>4, <2>5 DEF GreetReadLength
  <2>7. bytes_received = 0 => size = 2
    BY <2>3
  <2> QED BY <2>2, <2>5, <2>6, <2>7 DEF kGreetReadHeaderSize
<1>5. At("HANDSHAKE_READ") =>
        /\ rv = OK /\ HandshakeReadLength > 0
        /\ buffer = <<>> => bytes_received = 0 /\ read_header_size = kReadHeaderSize
  <2> SUFFICES ASSUME At("HANDSHAKE_READ")
               PROVE  /\ rv = OK /\ HandshakeReadLength > 0
                      /\ buffer = <<>> => bytes_received = 0 /\ read_header_size = kReadHeaderSize
    OBVIOUS
  <2>1. HandshakeReading /\ next_state = "HANDSHAKE_READ"
    BY <1>1 DEF At, Phases
  <2>2. PICK size : size = read_header_size
    OBVIOUS
  <2>3. size = (IF bytes_received < 5 THEN 5 ELSE n) /\ Reading(G, size, "HANDSHAKE_READ")
    BY <1>2, <2>1, <2>2 DEF HandshakeReading
  <2>4. size \in Nat /\ G + size <= L
    BY <1>2, <2>3
  <2>5. /\ rv = OK /\ bytes_received \in Nat /\ bytes_received < size
        /\ buffer = <<>> => bytes_received = 0
    BY <1>3, <2>1, <2>3, <2>4
  <2>6. HandshakeReadLength > 0
    BY <2>2, <2>4, <2>5 DEF HandshakeReadLength
  <2>7. bytes_received = 0 => size = 5
    BY <2>3
  <2> QED BY <2>2, <2>5, <2>6, <2>7 DEF kReadHeaderSize
<1>6. ASSUME NEW before, NEW answer, NEW start, Writing(before, answer, start),
             next_state = start, Len(answer) \in Nat
      PROVE  rv = OK /\ (buffer # <<>> => bytes_sent < Len(buffer))
  <2>1. /\ rv = OK
        /\ \/ buffer = <<>>
           \/ buffer = answer /\ bytes_sent \in 0..(Len(answer) - 1)
    BY <1>6, Zenon DEF Writing
  <2> QED BY <1>6, <2>1
<1>7. At("GREET_WRITE") => rv = OK /\ (buffer # <<>> => bytes_sent < Len(buffer))
  <2> SUFFICES ASSUME At("GREET_WRITE")
               PROVE  rv = OK /\ (buffer # <<>> => bytes_sent < Len(buffer))
    OBVIOUS
  <2>1. GreetWriting /\ next_state = "GREET_WRITE"
    BY <1>1 DEF At, Phases
  <2>2. learnt.auth_method \in Nat
    BY <2>1, Codes DEF GreetWriting
  <2>3. Len(<<kSOCKS5Version, learnt.auth_method>>) \in Nat
    OBVIOUS
  <2> QED BY <1>6, <2>1, <2>3, Zenon DEF GreetWriting
<1>8. At("HANDSHAKE_WRITE") => rv = OK /\ (buffer # <<>> => bytes_sent < Len(buffer))
  <2> SUFFICES ASSUME At("HANDSHAKE_WRITE")
               PROVE  rv = OK /\ (buffer # <<>> => bytes_sent < Len(buffer))
    OBVIOUS
  <2>1. HandshakeWriting /\ next_state = "HANDSHAKE_WRITE"
    BY <1>1 DEF At, Phases
  <2>2. PICK code \in Nat : code = learnt.reply
    BY <2>1, Codes DEF HandshakeWriting, Understood
  <2>3. Len(ReplyBytes(code)) \in Nat
    <3>1. Len(ReplyBytes(code)) = 10
      BY AnswerBytes
    <3> QED BY <3>1
  <2>4. Writing(<<kSOCKS5Version, kAuthMethodNone>>, ReplyBytes(code), "HANDSHAKE_WRITE")
    BY <2>1, <2>2 DEF HandshakeWriting
  <2> QED BY <1>6, <2>1, <2>3, <2>4, Zenon
<1> QED BY <1>4, <1>5, <1>7, <1>8, Zenon DEF DchecksHold

(***************************************************************************)
(* The DCHECKs of DoLoop and of the four states that start a Read or a     *)
(* Write hold for every client that follows the framing of the protocol,   *)
(* however the transport cuts the messages: no Read or Write asks for zero *)
(* or fewer bytes and an empty buffer is one of which nothing was read.    *)
(***************************************************************************)
THEOREM DchecksAlwaysHold == ASSUME MethodsFit PROVE Spec => []DchecksHold
BY Invariance, InvDchecks, PTL

\* In every phase the handshake is exact.
LEMMA InvExact == Inv => HandshakeExact
<1> SUFFICES ASSUME Inv PROVE HandshakeExact
  OBVIOUS
<1>1. Phases /\ StreamIs /\ closed \in BOOLEAN
  BY InvPhases, StreamBytes DEF Inv
<1>2. PICK code \in Nat : code = ReplyTo(client.command)
  BY Codes
<1>3. ASSUME result = OK
      PROVE  /\ written = ExpectedReplies(client)
             /\ IsSuffix(ReplyBytes(kReplySuccess), written)
  <2>1. Connected
    BY <1>1, <1>3 DEF Phases
  <2>2. /\ Greeted /\ RequestIsValid(client)
        /\ written = ExpectedReplies(client) /\ code = kReplySuccess
    BY <1>2, <2>1 DEF Connected, Understood
  <2>3. written = <<kSOCKS5Version, kAuthMethodNone>> \o ReplyBytes(code)
    BY <1>2, <2>2, Replies DEF Greeted
  <2>4. IsSuffix(ReplyBytes(kReplySuccess), written)
    BY <2>2, <2>3, ReplyIsSuffix, Zenon
  <2> QED BY <2>2, <2>4
<1>4. ASSUME result = ERR_SOCKS_CONNECTION_FAILED, closed = FALSE
      PROVE  /\ written = ExpectedReplies(client)
             /\ ~IsSuffix(ReplyBytes(kReplySuccess), written)
  <2>1. /\ written = ExpectedReplies(client)
        /\ ~(Greeted /\ RequestIsValid(client) /\ client.command = kCommandConnect)
    BY <1>1, <1>4 DEF Phases, Failed
  <2>2. CASE ~Greeted \/ ~RequestIsValid(client)
    <3>1. written \in {<<>>, <<kSOCKS5Version, kAuthMethodNoAcceptable>>,
                       <<kSOCKS5Version, kAuthMethodNone>>}
      BY <2>1, <2>2, Replies DEF Greeted
    <3>2. written \in Seq(Nat) /\ Len(written) < 10
      <4>1. kAuthMethodNoAcceptable \in Nat
        BY DEF kAuthMethodNoAcceptable
      <4>2. /\ <<kSOCKS5Version, kAuthMethodNoAcceptable>> \in Seq(Nat)
            /\ Len(<<kSOCKS5Version, kAuthMethodNoAcceptable>>) = 2
            /\ <<kSOCKS5Version, kAuthMethodNone>> \in Seq(Nat)
            /\ Len(<<kSOCKS5Version, kAuthMethodNone>>) = 2
        BY <4>1, AnswerBytes
      <4>3. <<>> \in Seq(Nat) /\ Len(<<>>) = 0
        OBVIOUS
      <4> DEFINE x == <<kSOCKS5Version, kAuthMethodNoAcceptable>>
                 y == <<kSOCKS5Version, kAuthMethodNone>>
      <4>4. x \in Seq(Nat) /\ Len(x) = 2 /\ y \in Seq(Nat) /\ Len(y) = 2
        BY <4>2
      <4>5. written = <<>> \/ written = x \/ written = y
        BY <3>1
      <4> HIDE DEF x, y
      <4>6. 0 < 10 /\ 2 < 10
        OBVIOUS
      <4> QED BY <4>3, <4>4, <4>5, <4>6, Zenon
    <3> QED BY <2>1, <3>2, ShortIsNoReply
  <2>3. CASE Greeted /\ RequestIsValid(client)
    <3>1. code # kReplySuccess
      BY <1>2, <2>1, <2>3 DEF ReplyTo, kReplySuccess, kReplyCommandNotSupported
    <3>2. written = <<kSOCKS5Version, kAuthMethodNone>> \o ReplyBytes(code)
      BY <1>2, <2>1, <2>3, Replies DEF Greeted
    <3>3. ~IsSuffix(ReplyBytes(kReplySuccess), written)
      BY <3>1, <3>2, ReplyIsSuffix, Zenon
    <3> QED BY <2>1, <3>3
  <2> QED BY <2>2, <2>3
<1>5. OK # ERR_SOCKS_CONNECTION_FAILED
  BY DEF OK, ERR_SOCKS_CONNECTION_FAILED
<1>6. result \in {OK, ERR_SOCKS_CONNECTION_FAILED} /\ (result = OK \/ ~closed) =>
        /\ written = ExpectedReplies(client)
        /\ (result = OK) = IsSuffix(ReplyBytes(kReplySuccess), written)
  <2>0. IsSuffix(ReplyBytes(kReplySuccess), written) \in BOOLEAN
    BY Zenon DEF IsSuffix, IsPrefix
  <2>1. CASE result = OK
    BY <1>3, <2>0, <2>1
  <2>2. CASE result = ERR_SOCKS_CONNECTION_FAILED
    BY <1>1, <1>4, <1>5, <2>0, <2>2
  <2> QED BY <2>1, <2>2
<1>7. completed_handshake =>
        /\ learnt.request_endpoint =
             [is_domain |-> client.address_type = kEndPointDomain,
              address   |-> client.address, port |-> client.port]
        /\ delivered = SubSeq(Stream, Len(Handshake(client)) + 1, taken)
        /\ taken = Len(Handshake(client)) + Len(delivered)
  <2>1. completed_handshake => Connected /\ Len(Handshake(client)) = HandshakeSize
    BY <1>1 DEF Phases, StreamIs
  <2> QED BY <2>1, Zenon DEF Connected, Understood
<1> QED BY <1>6, <1>7, Zenon DEF HandshakeExact

(***************************************************************************)
(* Connect tells a client that did not close exactly what RFC 1928 asks    *)
(* for and succeeds exactly for a well-formed CONNECT; a completed         *)
(* handshake has the client's endpoint, and what the layer above reads is  *)
(* the payload from its first byte, whatever the transport did.            *)
(***************************************************************************)
THEOREM HandshakeAlwaysExact == ASSUME MethodsFit PROVE Spec => []HandshakeExact
BY Invariance, InvExact, PTL
=============================================================================
