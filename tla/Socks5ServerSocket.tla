------------------------- MODULE Socks5ServerSocket -------------------------
(***************************************************************************)
(* Socks5ServerSocket: the server's half of the SOCKS5 handshake on top of *)
(* a transport socket that may cut every Read and Write short, complete it *)
(* inside the call or later, fail, or end.  It reads the greeting, answers *)
(* with an authentication method, reads the request and answers it; after  *)
(* that Read and Write go through to the transport.                        *)
(*                                                                         *)
(* The sizes and byte values are the program's own.                        *)
(***************************************************************************)
EXTENDS Integers, Sequences, SequencesExt

CONSTANTS
  Clients,        \* what the client may send: see ClientType
  CharIsSigned,   \* char of the build: signed on x86, unsigned on ARM
  ReadBufferSize  \* buf_len of a Read by the layer above

kGreetReadHeaderSize == 2
kReadHeaderSize == 5
kSOCKS5Version == 5
kSOCKS5Reserved == 0
kAuthMethodNone == 0
kAuthMethodNoAcceptable == 255
kReplySuccess == 0
kReplyCommandNotSupported == 7
kEndPointDomain == 3
kEndPointResolvedIPv4 == 1
kEndPointResolvedIPv6 == 4
kCommandConnect == 1
kCommandBind == 2
kCommandUDPAssociate == 3

OK == 0
ERR_IO_PENDING == -1
ERR_CONNECTION_RESET == -101
ERR_SOCKS_CONNECTION_FAILED == -120
\* result before Connect, and after Disconnect.
NotConnected == 1
Disconnected == 2

Byte == {n \in Nat : n < 256}
Port == {n \in Nat : n < 65536}
ClientType ==
  [greet_version : Byte, methods : Seq(Byte),
   version : Byte, command : Byte, reserved : Byte,
   address_type : Byte, address : Seq(Byte), port : Port,
   payload : Seq(Byte)]

\* A client sends as many methods and address bytes as it says, and an IP
\* address has the length of its kind.
ASSUME ClientsAssumption ==
  \A c \in Clients :
    /\ c \in ClientType /\ Len(c.methods) \in Byte /\ Len(c.address) \in Byte
    /\ c.address_type = kEndPointResolvedIPv4 => Len(c.address) = 4
    /\ c.address_type = kEndPointResolvedIPv6 => Len(c.address) = 16
ASSUME BuildAssumption ==
  CharIsSigned \in BOOLEAN /\ ReadBufferSize \in Nat \ {0}

VARIABLES
  client,                  \* what this client sends
  next_state,              \* next_state_
  rv,                      \* DoLoop's rv
  looping,                 \* DoLoop is on the stack
  io,                      \* the transport operation outstanding
  result,                  \* what Connect returned, or its callback was told
  buffer,                  \* buffer_
  bytes_received, bytes_sent, greet_read_header_size, read_header_size,
  learnt,                  \* auth_method_, reply_, address_type_,
                           \* address_size_ and request_endpoint_
  completed_handshake,
  taken,                   \* number of bytes read from the transport
  closed,                  \* the client has closed its end
  written,                 \* bytes written to the transport
  delivered                \* bytes given to the layer above

callVars == <<next_state, looping, io, result>>
readVars == <<bytes_received, greet_read_header_size, read_header_size>>
transportVars == <<taken, closed, written>>
userVars == <<completed_handshake, delivered>>
vars == <<client, callVars, rv, buffer, bytes_sent, readVars, learnt, userVars,
          transportVars>>

-----------------------------------------------------------------------------
\* The client (external).

Greeting(c) == <<c.greet_version, Len(c.methods)>> \o c.methods
Request(c) ==
  <<c.version, c.command, c.reserved, c.address_type>>
    \o (IF c.address_type = kEndPointDomain THEN <<Len(c.address)>> ELSE <<>>)
    \o c.address \o <<c.port \div 256, c.port % 256>>
Handshake(c) == Greeting(c) \o Request(c)
Stream == Handshake(client) \o client.payload

Unread == Len(Stream) - taken

\* A Read of up to n bytes completes: with some of the bytes, with the end of
\* the stream (wherever the client stops), or with a failure.
ReadCompletes(n) ==
  \/ /\ ~closed
     /\ \E k \in 1..n : k <= Unread /\ rv' = k /\ taken' = taken + k
     /\ UNCHANGED closed
  \/ rv' = 0 /\ closed' = TRUE /\ UNCHANGED taken
  \/ rv' = ERR_CONNECTION_RESET /\ UNCHANGED <<taken, closed>>

\* The bytes of the Read that just completed (handshake_buf_).
LastRead == SubSeq(Stream, taken - rv + 1, taken)

\* A Write of some bytes completes; it may have written none of them.
WriteCompletes(bytes) ==
  \E k \in 0..Len(bytes) \cup {ERR_CONNECTION_RESET} :
    rv' = k /\ written' = written \o SubSeq(bytes, 1, k)

-----------------------------------------------------------------------------
Init ==
  /\ client \in Clients
  /\ next_state = "NONE" /\ rv = OK /\ looping = FALSE /\ io = "none"
  /\ result = NotConnected
  /\ buffer = <<>> /\ bytes_received = 0 /\ bytes_sent = 0
  /\ greet_read_header_size = kGreetReadHeaderSize
  /\ read_header_size = kReadHeaderSize
  /\ learnt = [auth_method |-> 0, reply |-> 0, address_type |-> 0,
               address_size |-> 0, request_endpoint |-> <<>>]
  /\ completed_handshake = FALSE
  /\ taken = 0 /\ closed = FALSE /\ written = <<>> /\ delivered = <<>>

\* NaiveConnection calls Connect once.
Connect ==
  /\ result = NotConnected
  /\ next_state' = "GREET_READ" /\ buffer' = <<>>
  /\ looping' = TRUE /\ rv' = OK /\ result' = ERR_IO_PENDING
  /\ UNCHANGED <<client, io, bytes_sent, readVars, learnt, userVars, transportVars>>

\* DoLoop: one of its states, going on to another, and returning to Connect
\* or OnIOComplete, which hand the result to the layer above.
At(state) == looping /\ next_state = state

LoopContinues(state) ==
  /\ next_state' = state /\ rv' = OK
  /\ UNCHANGED <<looping, io, result>>

LoopReturns(res) ==
  /\ next_state' = "NONE" /\ looping' = FALSE /\ result' = res
  /\ UNCHANGED <<rv, io>>

\* A call of the transport completes at once or is pending.
TransportRead(n) ==
  /\ \/ ReadCompletes(n) /\ UNCHANGED <<looping, io>>
     \/ looping' = FALSE /\ io' = "read" /\ UNCHANGED <<rv, taken, closed>>
  /\ UNCHANGED <<client, result, buffer, bytes_sent, readVars, learnt,
                 userVars, written>>

TransportWrite(bytes) ==
  /\ \/ WriteCompletes(bytes) /\ UNCHANGED <<looping, io>>
     \/ looping' = FALSE /\ io' = "write" /\ UNCHANGED <<rv, written>>
  /\ UNCHANGED <<client, result, readVars, learnt, userVars, taken, closed>>

GreetReadLength == greet_read_header_size - bytes_received
HandshakeReadLength == read_header_size - bytes_received

OnIOComplete ==
  /\ looping' = TRUE /\ io' = "none"
  /\ \/ /\ io = "read"
        /\ ReadCompletes(IF next_state = "GREET_READ_COMPLETE"
                         THEN GreetReadLength ELSE HandshakeReadLength)
        /\ UNCHANGED written
     \/ /\ io = "write"
        /\ WriteCompletes(SubSeq(buffer, bytes_sent + 1, Len(buffer)))
        /\ UNCHANGED <<taken, closed>>
  /\ UNCHANGED <<client, next_state, result, buffer, bytes_sent, readVars,
                 learnt, userVars>>

-----------------------------------------------------------------------------
\* The greeting.

\* IOBuffer does not take a negative size: the program ends there.
DoGreetRead ==
  /\ At("GREET_READ") /\ GreetReadLength >= 0
  /\ next_state' = "GREET_READ_COMPLETE"
  /\ TransportRead(GreetReadLength)

\* The Read of a message failed or found the end of the stream.
ReadFailed ==
  /\ rv <= 0
  /\ LoopReturns(IF rv < 0 THEN rv ELSE ERR_SOCKS_CONNECTION_FAILED)
  /\ UNCHANGED <<buffer, readVars, learnt>>

\* The value of a char.
Char(byte) == IF CharIsSigned /\ byte >= 128 THEN byte - 256 ELSE byte

\* The method chosen from those offered.
AuthMethod(methods) ==
  IF Contains(methods, kAuthMethodNone) THEN kAuthMethodNone
                                        ELSE kAuthMethodNoAcceptable

\* The first two bytes are there, all of them are, or more are needed.
GreetReceived(received, all) ==
  /\ bytes_received' = received
  /\ \/ /\ received = kGreetReadHeaderSize
        /\ buffer' = all
        /\ IF all[1] # kSOCKS5Version \/ all[2] = 0
           THEN /\ LoopReturns(ERR_SOCKS_CONNECTION_FAILED)
                /\ UNCHANGED greet_read_header_size
           ELSE /\ LoopContinues("GREET_READ")
                /\ greet_read_header_size' = greet_read_header_size + Char(all[2])
        /\ UNCHANGED learnt
     \/ /\ received # kGreetReadHeaderSize /\ received = greet_read_header_size
        /\ buffer' = <<>>
        /\ learnt' = [learnt EXCEPT !.auth_method =
                        AuthMethod(SubSeq(all, kGreetReadHeaderSize + 1, Len(all)))]
        /\ LoopContinues("GREET_WRITE")
        /\ UNCHANGED greet_read_header_size
     \/ /\ received \notin {kGreetReadHeaderSize, greet_read_header_size}
        /\ buffer' = all
        /\ LoopContinues("GREET_READ")
        /\ UNCHANGED <<greet_read_header_size, learnt>>
  /\ UNCHANGED read_header_size

DoGreetReadComplete ==
  /\ At("GREET_READ_COMPLETE")
  /\ \/ ReadFailed
     \/ rv > 0 /\ GreetReceived(bytes_received + rv, buffer \o LastRead)
  /\ UNCHANGED <<client, bytes_sent, userVars, transportVars>>

\* DoGreetWrite and DoHandshakeWrite fill an empty buffer.
FillBuffer(data) ==
  IF buffer = <<>> THEN buffer' = data /\ bytes_sent' = 0
                   ELSE UNCHANGED <<buffer, bytes_sent>>

DoGreetWrite ==
  /\ At("GREET_WRITE")
  /\ FillBuffer(<<kSOCKS5Version, learnt.auth_method>>)
  /\ next_state' = "GREET_WRITE_COMPLETE"
  /\ TransportWrite(SubSeq(buffer', bytes_sent' + 1, Len(buffer')))

\* Mutant: the count of the greeting's bytes is kept.
GreetingDoneKeepsCount == buffer' = <<>> /\ UNCHANGED bytes_received

GreetingDone == buffer' = <<>> /\ bytes_received' = 0

DoGreetWriteComplete ==
  /\ At("GREET_WRITE_COMPLETE")
  /\ \/ /\ rv < 0
        /\ LoopReturns(rv)
        /\ UNCHANGED <<bytes_sent, buffer, bytes_received>>
     \/ /\ rv >= 0 /\ bytes_sent' = bytes_sent + rv
        /\ IF bytes_sent' # Len(buffer)
           THEN LoopContinues("GREET_WRITE") /\ UNCHANGED <<buffer, bytes_received>>
           ELSE /\ GreetingDone
                /\ IF learnt.auth_method # kAuthMethodNoAcceptable
                   THEN LoopContinues("HANDSHAKE_READ")
                   ELSE LoopReturns(ERR_SOCKS_CONNECTION_FAILED)
  /\ UNCHANGED <<client, greet_read_header_size, read_header_size, learnt,
                 userVars, transportVars>>

-----------------------------------------------------------------------------
\* The request.

DoHandshakeRead ==
  /\ At("HANDSHAKE_READ") /\ HandshakeReadLength >= 0
  /\ next_state' = "HANDSHAKE_READ_COMPLETE"
  /\ TransportRead(HandshakeReadLength)

Commands == {kCommandConnect, kCommandBind, kCommandUDPAssociate}
AddressTypes == {kEndPointDomain, kEndPointResolvedIPv4, kEndPointResolvedIPv6}

\* The length of the address, of which a domain's is the header's fifth byte.
AddressSize(header) ==
  IF header[4] = kEndPointDomain THEN header[5]
  ELSE IF header[4] = kEndPointResolvedIPv4 THEN 4 ELSE 16

\* Mutant: the byte of an IP address that came with the header is forgotten.
RequestSizeOneMore(header) == read_header_size + AddressSize(header) + 2

\* read_header_size_ once the header is known.
RequestSize(header) ==
  read_header_size - (IF header[4] = kEndPointDomain THEN 0 ELSE 1)
    + AddressSize(header) + 2

HeaderIsValid(header) ==
  /\ header[1] = kSOCKS5Version /\ header[3] = kSOCKS5Reserved
  /\ header[2] \in Commands
  /\ header[4] \in AddressTypes /\ AddressSize(header) # 0

ReplyTo(command) ==
  IF command = kCommandConnect THEN kReplySuccess ELSE kReplyCommandNotSupported

\* NetToHost16 and the two constructors of the HostPortPair.
Endpoint(all) ==
  LET port_start == read_header_size - 2
  IN [is_domain |-> learnt.address_type = kEndPointDomain,
      address   |-> SubSeq(all, port_start - learnt.address_size + 1, port_start),
      port      |-> 256 * all[port_start + 1] + all[port_start + 2]]

\* The first five bytes are there, all of them are, or more are needed.  What
\* a refused header leaves in reply_ and address_type_ is never read.
HandshakeReceived(received, all) ==
  /\ bytes_received' = received
  /\ \/ /\ received = kReadHeaderSize /\ ~HeaderIsValid(all)
        /\ buffer' = all
        /\ LoopReturns(ERR_SOCKS_CONNECTION_FAILED)
        /\ UNCHANGED <<read_header_size, learnt>>
     \/ /\ received = kReadHeaderSize /\ HeaderIsValid(all)
        /\ buffer' = all
        /\ learnt' = [learnt EXCEPT !.reply = ReplyTo(all[2]),
                                    !.address_type = all[4],
                                    !.address_size = AddressSize(all)]
        /\ read_header_size' = RequestSize(all)
        /\ LoopContinues("HANDSHAKE_READ")
     \/ /\ received # kReadHeaderSize /\ received = read_header_size
        /\ buffer' = <<>>
        /\ learnt' = [learnt EXCEPT !.request_endpoint = Endpoint(all)]
        /\ LoopContinues("HANDSHAKE_WRITE")
        /\ UNCHANGED read_header_size
     \/ /\ received \notin {kReadHeaderSize, read_header_size}
        /\ buffer' = all
        /\ LoopContinues("HANDSHAKE_READ")
        /\ UNCHANGED <<read_header_size, learnt>>
  /\ UNCHANGED greet_read_header_size

DoHandshakeReadComplete ==
  /\ At("HANDSHAKE_READ_COMPLETE")
  /\ \/ ReadFailed
     \/ rv > 0 /\ HandshakeReceived(bytes_received + rv, buffer \o LastRead)
  /\ UNCHANGED <<client, bytes_sent, userVars, transportVars>>

\* BND.ADDR and BND.PORT are zero.
ReplyBytes(code) ==
  <<kSOCKS5Version, code, kSOCKS5Reserved, kEndPointResolvedIPv4, 0, 0, 0, 0, 0, 0>>

DoHandshakeWrite ==
  /\ At("HANDSHAKE_WRITE")
  /\ FillBuffer(ReplyBytes(learnt.reply))
  /\ next_state' = "HANDSHAKE_WRITE_COMPLETE"
  /\ TransportWrite(SubSeq(buffer', bytes_sent' + 1, Len(buffer')))

\* The whole reply was written.
RequestDone ==
  /\ buffer' = <<>>
  /\ completed_handshake' = (learnt.reply = kReplySuccess)
  /\ LoopReturns(IF learnt.reply = kReplySuccess THEN OK
                 ELSE ERR_SOCKS_CONNECTION_FAILED)

DoHandshakeWriteComplete ==
  /\ At("HANDSHAKE_WRITE_COMPLETE")
  /\ \/ /\ rv < 0
        /\ LoopReturns(rv)
        /\ UNCHANGED <<bytes_sent, buffer, completed_handshake>>
     \/ /\ rv >= 0 /\ bytes_sent' = bytes_sent + rv
        /\ IF bytes_sent' = Len(buffer) THEN RequestDone
           ELSE LoopContinues("HANDSHAKE_WRITE")
                /\ UNCHANGED <<buffer, completed_handshake>>
  /\ UNCHANGED <<client, readVars, learnt, delivered, transportVars>>

-----------------------------------------------------------------------------
\* The layer above.  A Read that is pending moves its bytes when it completes,
\* so one step stands for both; Write goes through and changes nothing here.

Read ==
  /\ completed_handshake
  /\ ReadCompletes(ReadBufferSize)
  /\ delivered' = delivered \o SubSeq(Stream, taken + 1, taken')
  /\ UNCHANGED <<client, callVars, buffer, bytes_sent, readVars, learnt,
                 completed_handshake, written>>

\* The destructor, or NaiveConnection's Disconnect: an outstanding operation
\* of the transport is dropped with its callback.
Disconnect ==
  /\ ~looping
  /\ completed_handshake' = FALSE
  /\ next_state' = "NONE" /\ io' = "none" /\ result' = Disconnected
  /\ UNCHANGED <<client, rv, looping, buffer, bytes_sent, readVars, learnt,
                 transportVars, delivered>>

Next ==
  \/ Connect \/ OnIOComplete
  \/ DoGreetRead \/ DoGreetReadComplete \/ DoGreetWrite \/ DoGreetWriteComplete
  \/ DoHandshakeRead \/ DoHandshakeReadComplete
  \/ DoHandshakeWrite \/ DoHandshakeWriteComplete
  \/ Read \/ Disconnect

Spec == Init /\ [][Next]_vars

-----------------------------------------------------------------------------
\* Properties.

(***************************************************************************)
(* The DCHECKs of DoLoop, DoGreetRead, DoGreetWrite, DoHandshakeRead and   *)
(* DoHandshakeWrite: every state is entered with OK, an empty buffer means *)
(* that nothing of the message was read yet, and no Read or Write asks for *)
(* zero or fewer bytes, wherever the transport cut the messages.           *)
(***************************************************************************)
DchecksHold ==
  /\ \A s \in {"GREET_READ", "GREET_WRITE", "HANDSHAKE_READ", "HANDSHAKE_WRITE"} :
       At(s) => rv = OK
  /\ At("GREET_READ") =>
       /\ buffer = <<>> => bytes_received = 0
                           /\ greet_read_header_size = kGreetReadHeaderSize
       /\ GreetReadLength > 0
  /\ At("HANDSHAKE_READ") =>
       /\ buffer = <<>> => bytes_received = 0 /\ read_header_size = kReadHeaderSize
       /\ HandshakeReadLength > 0
  /\ (At("GREET_WRITE") \/ At("HANDSHAKE_WRITE")) /\ buffer # <<>> =>
       bytes_sent < Len(buffer)

\* What RFC 1928 asks of the server, for the messages the client sends.
GreetingIsValid(c) == c.greet_version = kSOCKS5Version /\ c.methods # <<>>
RequestIsValid(c) ==
  /\ c.version = kSOCKS5Version /\ c.reserved = kSOCKS5Reserved
  /\ c.command \in Commands
  /\ c.address_type \in AddressTypes /\ c.address # <<>>

ExpectedReplies(c) ==
  IF ~GreetingIsValid(c) THEN <<>>
  ELSE IF ~Contains(c.methods, kAuthMethodNone)
       THEN <<kSOCKS5Version, kAuthMethodNoAcceptable>>
  ELSE <<kSOCKS5Version, kAuthMethodNone>> \o
       (IF ~RequestIsValid(c) THEN <<>>
        ELSE IF c.command = kCommandConnect THEN ReplyBytes(kReplySuccess)
        ELSE ReplyBytes(kReplyCommandNotSupported))

(***************************************************************************)
(* However its messages are cut, a client that did not close is told       *)
(* exactly what it should be told when Connect ends, and Connect succeeds  *)
(* exactly when the request was a well-formed CONNECT.  A completed        *)
(* handshake has the endpoint the client asked for and has taken the       *)
(* handshake's bytes and no more: what the layer above reads is the        *)
(* payload from its first byte.                                            *)
(***************************************************************************)
HandshakeExact ==
  /\ result \in {OK, ERR_SOCKS_CONNECTION_FAILED} /\ (result = OK \/ ~closed) =>
       /\ written = ExpectedReplies(client)
       /\ (result = OK) = IsSuffix(ReplyBytes(kReplySuccess), written)
  /\ completed_handshake =>
       /\ learnt.request_endpoint =
            [is_domain |-> client.address_type = kEndPointDomain,
             address   |-> client.address, port |-> client.port]
       /\ delivered = SubSeq(Stream, Len(Handshake(client)) + 1, taken)
       /\ taken = Len(Handshake(client)) + Len(delivered)
=============================================================================
