--------------------------- MODULE HttpProxySocket ---------------------------
(***************************************************************************)
(* HttpProxySocket: the server's half of an HTTP CONNECT on top of a       *)
(* transport socket that may cut a Read anywhere, complete it inside the   *)
(* call or later, fail, or end.  It reads until the end of the header, may *)
(* have read payload with it by then, reports whether the client pads, and *)
(* writes the response; later Reads get that payload first.                *)
(*                                                                         *)
(* The text is a sequence of tokens: CR, LF and SP are the characters that *)
(* the code searches for, any other token stands for a word without them.  *)
(***************************************************************************)
EXTENDS Integers, Sequences, SequencesExt

CONSTANTS
  Clients,           \* requests: see ClientType
  kBufferSize,       \* both are 64 * 1024 bytes in the program
  kMaxHeaderSize,
  ResponseSizes,     \* outcomes for header_write_size_, by the random padding
  ReadBufferSize     \* buf_len of a Read by the layer above

kCapable == "capable"
kIncapable == "incapable"
kUnknown == "unknown"

OK == 0
ERR_IO_PENDING == -1
ERR_FAILED == -2
ERR_INVALID_ARGUMENT == -4
ERR_CONNECTION_CLOSED == -100
ERR_CONNECTION_RESET == -101
ERR_MSG_TOO_BIG == -142
\* result before Connect, and after Disconnect.
NotConnected == 1
Disconnected == 2

\* A request: its first line, the other header lines and what follows them.
Token == {"CR", "LF", "SP", "CONNECT", "GET", "host:port", "text",
          "padding", "other", "data1", "data2", "data3"}
ClientType == [line : Seq(Token), headers : Seq(Seq(Token)), payload : Seq(Token)]

ASSUME ClientsAssumption == Clients \subseteq ClientType
ASSUME SizesAssumption ==
  /\ kBufferSize \in Nat \ {0} /\ kMaxHeaderSize \in Nat
  /\ ReadBufferSize \in Nat \ {0} /\ ResponseSizes \subseteq Nat \ {0}

VARIABLES
  client,              \* the request this client sends
  next_state,          \* next_state_
  rv,                  \* DoLoop's rv
  looping,             \* DoLoop is on the stack
  io,                  \* the transport operation outstanding
  result,              \* what Connect returned, or its callback was told
  buffer,              \* buffer_
  request_endpoint,    \* request_endpoint_
  header_write_size,   \* header_write_size_
  completed_handshake,
  detected,            \* what SetClientPaddingSupport was told
  taken,               \* number of tokens read from the transport
  closed,              \* the client has closed its end
  sent,                \* number of bytes of the response written
  delivered            \* tokens given to the layer above

callVars == <<next_state, looping, io, result>>
requestVars == <<request_endpoint, detected>>
transportVars == <<taken, closed, sent>>
userVars == <<completed_handshake, delivered>>
vars == <<client, callVars, rv, buffer, requestVars, header_write_size,
          userVars, transportVars>>

-----------------------------------------------------------------------------
\* The client and the transport (external).

CRLF == <<"CR", "LF">>
Header(c) ==
  c.line \o CRLF \o FlattenSeq([i \in DOMAIN c.headers |-> c.headers[i] \o CRLF])
    \o CRLF
Stream == Header(client) \o client.payload

\* A Read of up to n completes: with some of what is left, with the end of the
\* stream (wherever the client stops), or with a failure.
ReadCompletes(n) ==
  \/ /\ ~closed
     /\ \E k \in 1..n : k <= Len(Stream) - taken /\ rv' = k /\ taken' = taken + k
     /\ UNCHANGED closed
  \/ rv' = 0 /\ closed' = TRUE /\ UNCHANGED taken
  \/ rv' = ERR_CONNECTION_RESET /\ UNCHANGED <<taken, closed>>

\* What the Read that just completed put into handshake_buf_.
LastRead == SubSeq(Stream, taken - rv + 1, taken)

\* A Write of the response may be short.
WriteCompletes(n) ==
  \/ \E k \in 0..n : rv' = k /\ sent' = sent + k
  \/ rv' = ERR_CONNECTION_RESET /\ UNCHANGED sent

-----------------------------------------------------------------------------
Init ==
  /\ client \in Clients
  /\ next_state = "NONE" /\ rv = OK /\ looping = FALSE /\ io = "none"
  /\ result = NotConnected
  /\ buffer = <<>> /\ request_endpoint = <<>> /\ header_write_size = -1
  /\ completed_handshake = FALSE /\ detected = kUnknown
  /\ taken = 0 /\ closed = FALSE /\ sent = 0 /\ delivered = <<>>

\* NaiveConnection calls Connect once.
Connect ==
  /\ result = NotConnected
  /\ next_state' = "HEADER_READ" /\ buffer' = <<>>
  /\ looping' = TRUE /\ rv' = OK /\ result' = ERR_IO_PENDING
  /\ UNCHANGED <<client, io, requestVars, header_write_size, userVars, transportVars>>

\* DoLoop: one of its states, going on to another, and returning to Connect
\* or OnIOComplete, which hand the result to the layer above.
At(state) == looping /\ next_state = state

LoopContinues(state) ==
  /\ next_state' = state /\ rv' = OK
  /\ UNCHANGED <<looping, io, result>>

LoopReturns(res) ==
  /\ next_state' = "NONE" /\ looping' = FALSE /\ result' = res
  /\ UNCHANGED <<rv, io>>

\* A call of the transport is pending.
Pends(op) == looping' = FALSE /\ io' = op

OnIOComplete ==
  /\ looping' = TRUE /\ io' = "none"
  /\ \/ io = "read" /\ ReadCompletes(kBufferSize) /\ UNCHANGED sent
     \/ io = "write" /\ WriteCompletes(header_write_size) /\ UNCHANGED <<taken, closed>>
  /\ UNCHANGED <<client, next_state, result, buffer, requestVars,
                 header_write_size, userVars>>

DoHeaderRead ==
  /\ At("HEADER_READ")
  /\ next_state' = "HEADER_READ_COMPLETE"
  /\ \/ ReadCompletes(kBufferSize) /\ UNCHANGED <<looping, io>>
     \/ Pends("read") /\ UNCHANGED <<rv, taken, closed>>
  /\ UNCHANGED <<client, result, buffer, requestVars, header_write_size,
                 userVars, sent>>

\* std::string::find: the first place of pattern in text at or after from,
\* npos if there is none.
npos == 0
Find(text, pattern, from) ==
  LET places == {i \in from..(Len(text) - Len(pattern) + 1) :
                   SubSeq(text, i, i + Len(pattern) - 1) = pattern}
  IN IF places = {} THEN npos ELSE CHOOSE i \in places : \A j \in places : i <= j

HeaderEnd(text) == Find(text, CRLF \o CRLF, 1)
FirstLineEnd(text) == Find(text, CRLF, 1)
FirstSpace(text) == Find(text, <<"SP">>, 1)
SecondSpace(text) == Find(text, <<"SP">>, FirstSpace(text) + 1)

RequestLineIsValid(text) ==
  /\ FirstSpace(text) # npos /\ FirstSpace(text) + 1 < FirstLineEnd(text)
  /\ SubSeq(text, 1, FirstSpace(text) - 1) = <<"CONNECT">>
  /\ SecondSpace(text) # npos /\ SecondSpace(text) < FirstLineEnd(text)

\* HostPortPair::FromString: an empty pair if the text is not host:port.
FromString(text) ==
  IF text = <<"host:port">> THEN [host |-> "host", port |-> "port"]
                            ELSE [host |-> "", port |-> ""]

\* Mutant: the header lines are looked for in all that was received.
HeaderLinesOfAll(text) == SubSeq(text, FirstLineEnd(text) + 2, Len(text))

\* The header lines without the first one.
HeaderLines(text) == SubSeq(text, FirstLineEnd(text) + 2, HeaderEnd(text) - 1)

\* HttpRequestHeaders: a line that starts with the name has the header.
HasPadding(lines) ==
  \E i \in DOMAIN lines :
    lines[i] = "padding" /\ (i = 1 \/ lines[i - 1] = "LF")

\* Mutant: what follows the header is dropped with it.
RestNone(text) == <<>>

Rest(text) == SubSeq(text, HeaderEnd(text) + 4, Len(text))

TooBig(text) == Len(text) > kMaxHeaderSize

\* DoHeaderReadComplete, with all that was received so far.
HeaderReceived(all) ==
  \/ /\ TooBig(all)
     /\ buffer' = all /\ LoopReturns(ERR_MSG_TOO_BIG) /\ UNCHANGED requestVars
  \/ /\ ~TooBig(all) /\ HeaderEnd(all) = npos
     /\ buffer' = all /\ LoopContinues("HEADER_READ") /\ UNCHANGED requestVars
  \/ /\ ~TooBig(all) /\ HeaderEnd(all) # npos /\ ~RequestLineIsValid(all)
     /\ buffer' = all /\ LoopReturns(ERR_INVALID_ARGUMENT) /\ UNCHANGED requestVars
  \/ /\ ~TooBig(all) /\ HeaderEnd(all) # npos /\ RequestLineIsValid(all)
     /\ request_endpoint' =
          FromString(SubSeq(all, FirstSpace(all) + 1, SecondSpace(all) - 1))
     /\ detected' = IF HasPadding(HeaderLines(all)) THEN kCapable ELSE kIncapable
     /\ buffer' = Rest(all)
     /\ LoopContinues("HEADER_WRITE")

DoHeaderReadComplete ==
  /\ At("HEADER_READ_COMPLETE")
  /\ \/ /\ rv <= 0
        /\ LoopReturns(IF rv < 0 THEN rv ELSE ERR_CONNECTION_CLOSED)
        /\ UNCHANGED <<buffer, requestVars>>
     \/ rv > 0 /\ HeaderReceived(buffer \o LastRead)
  /\ UNCHANGED <<client, header_write_size, userVars, transportVars>>

DoHeaderWrite ==
  /\ At("HEADER_WRITE")
  /\ next_state' = "HEADER_WRITE_COMPLETE"
  /\ header_write_size' \in ResponseSizes
  /\ \/ WriteCompletes(header_write_size') /\ UNCHANGED <<looping, io>>
     \/ Pends("write") /\ UNCHANGED <<rv, sent>>
  /\ UNCHANGED <<client, result, buffer, requestVars, userVars, taken, closed>>

ResponseWritten == rv = header_write_size

DoHeaderWriteComplete ==
  /\ At("HEADER_WRITE_COMPLETE")
  /\ \/ /\ ~ResponseWritten
        /\ LoopReturns(IF rv < 0 THEN rv ELSE ERR_FAILED)
        /\ UNCHANGED completed_handshake
     \/ /\ ResponseWritten
        /\ completed_handshake' = TRUE
        /\ LoopReturns(OK)
  /\ UNCHANGED <<client, buffer, requestVars, header_write_size, delivered,
                 transportVars>>

-----------------------------------------------------------------------------
\* The layer above.  A Read that is pending moves its bytes when it completes,
\* so one step stands for both; Write goes through and changes nothing here.

Read ==
  /\ completed_handshake
  /\ \/ /\ buffer # <<>>
        /\ LET n == IF Len(buffer) <= ReadBufferSize THEN Len(buffer)
                    ELSE ReadBufferSize
           IN /\ delivered' = delivered \o SubSeq(buffer, 1, n)
              /\ buffer' = SubSeq(buffer, n + 1, Len(buffer))
        /\ UNCHANGED <<rv, taken, closed>>
     \/ /\ buffer = <<>>
        /\ ReadCompletes(ReadBufferSize)
        /\ delivered' = delivered \o SubSeq(Stream, taken + 1, taken')
        /\ UNCHANGED buffer
  /\ UNCHANGED <<client, callVars, requestVars, header_write_size,
                 completed_handshake, sent>>

\* The destructor, or NaiveConnection's Disconnect: an outstanding operation
\* of the transport is dropped with its callback.
Disconnect ==
  /\ ~looping
  /\ completed_handshake' = FALSE
  /\ next_state' = "NONE" /\ io' = "none" /\ result' = Disconnected
  /\ UNCHANGED <<client, rv, looping, buffer, requestVars, header_write_size,
                 transportVars, delivered>>

Next ==
  \/ Connect \/ OnIOComplete
  \/ DoHeaderRead \/ DoHeaderReadComplete
  \/ DoHeaderWrite \/ DoHeaderWriteComplete
  \/ Read \/ Disconnect

Spec == Init /\ [][Next]_vars

-----------------------------------------------------------------------------
\* Properties.

\* The request line as the client composed it: CONNECT SP target SP ...
LineIsValid(c) ==
  /\ Len(c.line) >= 4 /\ c.line[1] = "CONNECT"
  /\ c.line[2] = "SP" /\ c.line[3] # "SP" /\ c.line[4] = "SP"

(***************************************************************************)
(* However the transport cut it, a request is refused as invalid only when *)
(* its line is, and a completed handshake has the endpoint of that line,   *)
(* has told the delegate about the client's own padding header (and not    *)
(* about bytes of the payload), and has sent the whole response.           *)
(***************************************************************************)
RequestUnderstood ==
  /\ result = ERR_INVALID_ARGUMENT => ~LineIsValid(client)
  /\ completed_handshake =>
       /\ LineIsValid(client)
       /\ request_endpoint = FromString(<<client.line[3]>>)
       /\ (detected = kCapable) =
            (\E i \in DOMAIN client.headers : client.headers[i][1] = "padding")
       /\ detected # kUnknown
       /\ sent = header_write_size

(***************************************************************************)
(* The payload that arrived with the header is neither lost nor taken for  *)
(* header, and reaches the layer above before what the transport delivers  *)
(* later, also when it takes several Reads to fetch it.                    *)
(***************************************************************************)
PayloadIntact ==
  completed_handshake =>
    delivered \o buffer = SubSeq(Stream, Len(Header(client)) + 1, taken)
=============================================================================
