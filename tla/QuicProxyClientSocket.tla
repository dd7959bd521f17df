------------------------ MODULE QuicProxyClientSocket ------------------------
(***************************************************************************)
(* QuicProxyClientSocket over a QuicChromiumClientStream and its Handle.   *)
(* The stream tells the handle of headers, data and its end by posted      *)
(* tasks.  strm.open is that the handle has its stream; handle is the set  *)
(* of the handle's callbacks; buffered is the body the stream holds, fin   *)
(* says that everything up to the end of the stream has arrived, trailers  *)
(* is trailers_decompressed_; unsent is HasBufferedData.                   *)
(***************************************************************************)
EXTENDS ProxyClientSocket

NewQuicStream == [open |-> TRUE, requested |-> FALSE, reply |-> "none",
                  delivered |-> FALSE, handle |-> {}, received |-> 0,
                  buffered |-> <<>>, fin |-> FALSE, trailers |-> FALSE,
                  unsent |-> FALSE]

QuicTasks == {"headers", "data", "trailers", "close"}

\* FinishedReadingTrailers of quic::QuicSpdyStream.  Trailers that came are
\* never consumed: the socket does not call ReadTrailingHeaders.
FinishedReadingTrailers(x) == x.strm.fin /\ ~x.strm.trailers

\* IsDoneReading of quic::QuicSpdyStream; the headers are consumed as soon as
\* they come, so that before the end they always were.
DoneReading(x) == x.strm.buffered = <<>> /\ FinishedReadingTrailers(x)

\* Read of the stream gives ERR_IO_PENDING.
NothingToRead(x) == x.strm.buffered = <<>> /\ ~DoneReading(x)

-----------------------------------------------------------------------------
\* Mutant: a reply after Disconnect is processed as any other.
QuicReplyGuardNone(x) == FALSE

\* The early return of OnReadResponseHeadersComplete.
QuicReplyGuard(x) == x.sock.next_state = "DISCONNECTED"

\* OnReadResponseHeadersComplete and OnIOComplete with the states of DoLoop
\* that follow.  A tunnel in use is left as it is or ends up disconnected;
\* its connect callback is long gone, and read_callback_ is not looked at.
QuicReplyDone(x, result) ==
  LET inUse == x.sock.use_fastopen /\ x.sock.read_headers_pending
      y == Checks(x, "OnIOComplete", x.sock.next_state # "DISCONNECTED")
      r == DoReadReplyComplete(result)
  IN CASE inUse /\ QuicReplyGuard(x) -> x
       [] inUse /\ ~QuicReplyGuard(x) ->
            SetState([y EXCEPT !.sock.read_headers_pending = FALSE],
                     IF r.rv = "ok" THEN "OPEN" ELSE "DISCONNECTED")
       [] ~inUse ->
            ConnectDone(SetState(Checks(y, "connect_callback",
                                        "connect" \in x.sock.callbacks),
                                 r.state),
                        r.rv)

\* OnReadComplete: result is what the stream gave, <<>> for its end.
QuicReadDone(x, data) ==
  IF "read" \notin x.sock.callbacks THEN x
  ELSE LET y == Answered(x, "read", "read")
       IN IF data = <<>> \/ ~x.strm.open THEN ReadEnds(y)
          ELSE ReadData(y, data)

QuicWriteDone(x, rv) ==
  IF "write" \notin x.sock.callbacks THEN x
  ELSE WriteDone(Answered(x, "write", "write"), rv)

-----------------------------------------------------------------------------
\* DoSendRequest, DoSendRequestComplete and DoReadReply.  WriteHeaders hands
\* the request to the stream, and ReadInitialHeaders finds no headers yet; it
\* fails if the stream is gone.
QuicSendRequest(x, fastopen) ==
  LET y == [x EXCEPT !.sock.use_fastopen = fastopen, !.strm.requested = TRUE]
      z == [y EXCEPT !.strm.handle = @ \cup {"read_headers"}]
  IN IF ~x.strm.open
     THEN ConnectDone(SetState(y, "DISCONNECTED"), "error")
     ELSE IF fastopen
     THEN ConnectDone([SetState(z, "OPEN") EXCEPT
                         !.sock.read_headers_pending = TRUE],
                      "ok")
     ELSE SetState(z, "READ_REPLY_COMPLETE")

QuicConnect ==
  /\ kind = "quic" /\ CanConnect
  /\ LET x == Awaits([Now EXCEPT !.user.phase = "connecting"], "connect")
     IN \/ /\ strm.open
           /\ \/ Become(SetState(x, "GENERATE_AUTH_TOKEN_COMPLETE"))
              \/ \E fastopen \in BOOLEAN : Become(QuicSendRequest(x, fastopen))
        \/ Become(ConnectDone(x, "error"))

\* OnIOComplete, called by the authentication controller.
QuicAuthDone ==
  /\ kind = "quic" /\ sock.next_state = "GENERATE_AUTH_TOKEN_COMPLETE"
  /\ \/ \E fastopen \in BOOLEAN : Become(QuicSendRequest(Now, fastopen))
     \/ Become(ConnectDone(SetState(Now, "DISCONNECTED"), "error"))

-----------------------------------------------------------------------------
\* The stream, while it has a handle.
QuicReceiving == kind = "quic" /\ strm.open /\ strm.requested /\ ~strm.fin

\* OnInitialHeadersComplete.
QuicHeaders(reply) ==
  /\ QuicReceiving /\ strm.reply = "none"
  /\ Become(Post([Now EXCEPT !.strm.reply = reply], "headers"))

\* Mutant: only a first piece of data is announced.
QuicBodyAvailableOnce(x) ==
  IF x.strm.delivered /\ x.strm.received <= MaxFrame THEN Post(x, "data") ELSE x

\* OnBodyAvailable: the body waits until the headers were delivered, and the
\* end of the stream is not told as long as there are trailers to read.
QuicBodyAvailable(x) ==
  IF x.strm.delivered /\ ~NothingToRead(x) THEN Post(x, "data") ELSE x

\* More body, behind the headers (over Google QUIC it may also come behind the
\* trailers, which have a stream of their own).  The sequencer of HTTP/3 tells
\* of every piece, that of Google QUIC only of the first that can be read.
QuicData(n) ==
  /\ QuicReceiving /\ strm.reply # "none" /\ strm.received + n <= MaxData
  /\ LET x == [Now EXCEPT !.strm.received = @ + n,
                          !.strm.buffered = @ \o [i \in 1..n |-> strm.received + i]]
     IN \/ Become(QuicBodyAvailable(x))
        \/ strm.buffered # <<>> /\ Become(x)

\* The end of the stream: the sequencer tells of it once all was consumed.
QuicFin ==
  /\ QuicReceiving /\ strm.reply # "none"
  /\ LET x == [Now EXCEPT !.strm.fin = TRUE]
     IN Become(IF strm.buffered = <<>> THEN QuicBodyAvailable(x) ELSE x)

\* OnTrailingHeadersComplete; a second block of trailers is an error of the
\* connection, and trailers behind the end are one or cannot come.
QuicTrailers ==
  /\ QuicReceiving /\ strm.reply # "none" /\ ~strm.trailers
  /\ Become(Post([Now EXCEPT !.strm.trailers = TRUE], "trailers"))

\* The proxy resets both directions of the stream, or the connection ends.
QuicReset == kind = "quic" /\ strm.open /\ Become(QuicStreamCloses(Now))

\* OnCanWrite of the stream and of the handle.
QuicCanWrite ==
  /\ kind = "quic" /\ strm.open /\ strm.unsent
  /\ LET x == [Now EXCEPT !.strm.unsent = FALSE, !.strm.handle = @ \ {"write"}]
     IN Become(IF "write" \in strm.handle THEN QuicWriteDone(x, "ok") ELSE x)

\* NotifyHandleOfInitialHeadersAvailable, OnInitialHeadersAvailable and
\* DeliverInitialHeaders.
QuicHeadersTask(x) ==
  IF ~x.strm.open \/ x.strm.delivered \/ "read_headers" \notin x.strm.handle THEN x
  ELSE QuicReplyDone([x EXCEPT !.strm.delivered = TRUE,
                               !.strm.handle = @ \ {"read_headers"}],
                     x.strm.reply)

\* NotifyHandleOfDataAvailable and OnDataAvailable.
QuicDataTask(x) ==
  IF ~x.strm.open \/ "read_body" \notin x.strm.handle \/ NothingToRead(x) THEN x
  ELSE LET taken == Take([x EXCEPT !.strm.handle = @ \ {"read_body"}])
       IN QuicReadDone(taken.x, taken.data)

\* NotifyHandleOfTrailingHeadersAvailable.  OnTrailingHeadersAvailable returns
\* at once if there is no read_headers_callback_, and after the headers were
\* delivered there is none.
QuicTrailersTask(x) ==
  IF ~x.strm.open THEN x
  ELSE Post(Checks(Checks(x, "headers_delivered_", x.strm.delivered),
                   "OnTrailingHeadersAvailable", "read_headers" \notin x.strm.handle),
            "data")

\* InvokeCallbacksOnClose: each callback that is set, while the handle lives.
QuicCloseTask(x) ==
  LET a == IF "read_headers" \in x.strm.handle
           THEN QuicReplyDone([x EXCEPT !.strm.handle = @ \ {"read_headers"}],
                              "error")
           ELSE x
      b == IF Alive(a) /\ "read_body" \in a.strm.handle
           THEN QuicReadDone([a EXCEPT !.strm.handle = @ \ {"read_body"}], <<>>)
           ELSE a
  IN IF Alive(b) /\ "write" \in b.strm.handle
     THEN QuicWriteDone([b EXCEPT !.strm.handle = @ \ {"write"}], "error")
     ELSE b

QuicTask(task) ==
  /\ kind = "quic" /\ tasks # <<>> /\ Head(tasks) = task
  /\ LET x == [Now EXCEPT !.tasks = Tail(@)]
     IN Become(CASE task = "headers" -> QuicHeadersTask(x)
                 [] task = "data" -> QuicDataTask(x)
                 [] task = "trailers" -> QuicTrailersTask(x)
                 [] task = "close" -> QuicCloseTask(x))

-----------------------------------------------------------------------------
\* Read, with ReadBody of the handle.
QuicRead ==
  /\ kind = "quic" /\ CanRead
  /\ LET x == Checks(Now, "Read", sock.callbacks \cap {"connect", "read"} = {})
         taken == Take(x)
     IN Become(
          CASE sock.next_state = "DISCONNECTED" \/ ~strm.open \/ DoneReading(x) ->
                 ReadEnds(x)
            [] sock.next_state # "DISCONNECTED" /\ strm.open /\ strm.buffered # <<>> ->
                 ReadData(taken.x, taken.data)
            [] OTHER ->
                 Awaits([x EXCEPT !.strm.handle = @ \cup {"read_body"}], "read"))

\* Write, with WriteStreamData: what the stream cannot send it keeps.
QuicWrite ==
  /\ kind = "quic" /\ CanWrite
  /\ LET x == Checks(Writing(Now), "Write",
                     sock.callbacks \cap {"connect", "write"} = {})
     IN \/ /\ sock.next_state # "OPEN" \/ ~strm.open
           /\ Become(WriteDone(x, "error"))
        \/ /\ sock.next_state = "OPEN" /\ strm.open
           /\ \/ ~strm.unsent /\ Become(WriteDone(x, "ok"))
              \/ Become(Awaits([x EXCEPT !.strm.handle = @ \cup {"write"},
                                         !.strm.unsent = TRUE], "write"))

QuicNext ==
  \/ QuicConnect \/ QuicAuthDone
  \/ \E reply \in Replies : QuicHeaders(reply)
  \/ \E n \in 1..MaxFrame : QuicData(n)
  \/ QuicFin \/ QuicTrailers \/ QuicReset \/ QuicCanWrite
  \/ \E task \in QuicTasks : QuicTask(task)
  \/ QuicRead \/ QuicWrite
=============================================================================
