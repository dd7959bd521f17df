------------------------ MODULE SpdyProxyClientSocket ------------------------
(***************************************************************************)
(* SpdyProxyClientSocket over a SpdyStream.  The stream calls the socket   *)
(* inside the session's read and write loops; only the answer to a Write   *)
(* is posted.  strm.io is io_state_, strm.response is response_state_,     *)
(* strm.sending is the frame the session still has to write, and           *)
(* strm.buffered is the socket's read_buffer_queue_.  spdy_stream_ is null *)
(* when the stream is CLOSED.                                              *)
(***************************************************************************)
EXTENDS ProxyClientSocket

\* The id of a stream is known, and frames for it arrive, once the session
\* made the HEADERS frame (sending = "written"), before its write completes.
NewSpdyStream == [io |-> "IDLE", response |-> "READY_FOR_HEADERS",
                  sending |-> "nothing", reply |-> "none", received |-> 0,
                  buffered |-> <<>>]

\* read_callback_ serves Connect and Read.
ReadCallback(x) == x.sock.callbacks \cap {"connect", "read"} # {}

\* OnDataReceived of the socket, after the data was enqueued.
SpdyTellReader(x) ==
  IF ~ReadCallback(x) THEN x
  ELSE IF ~x.sock.user_buffer
       THEN ConnectDone(x, "ok")
       ELSE LET taken == Take([x EXCEPT !.sock.user_buffer = FALSE])
                y     == Answered(taken.x, "read", "read")
            IN IF taken.data = <<>> THEN ReadEnds(y)
               ELSE ReadData(y, taken.data)

\* The stream is gone, and the callback of a Write is taken out.
SpdyDropStream(x) ==
  [x EXCEPT !.strm.io = "CLOSED", !.strm.sending = "nothing",
            !.sock.next_state = IF @ = "OPEN" THEN "CLOSED" ELSE "DISCONNECTED",
            !.sock.callbacks = @ \ {"write"}]

\* OnClose of the socket, called by OnClose of the stream.  The callback of a
\* Write is run last, if the socket is still there.
SpdyOnClose(x) ==
  LET connecting == x.sock.next_state \notin {"DISCONNECTED", "OPEN", "CLOSED"}
      write == "write" \in x.sock.callbacks
      y == SpdyDropStream(x)
      z == IF connecting
           THEN ConnectDone(Checks(y, "OnClose", ReadCallback(y)), "error")
           ELSE SpdyTellReader(y)
  IN IF write /\ Alive(z)
     THEN WriteDone(Answered(z, "write", "write in OnClose"), "error")
     ELSE z

-----------------------------------------------------------------------------
\* DoSendRequest; the delegate decides about Fast Open.
SpdySendRequest(x, fastopen) ==
  [SetState(x, "SEND_REQUEST_COMPLETE") EXCEPT
     !.sock.use_fastopen = fastopen, !.strm.sending = "request"]

SpdyConnect ==
  /\ kind = "spdy" /\ CanConnect
  /\ LET x == Awaits([Now EXCEPT !.user.phase = "connecting"], "connect")
     IN \/ Become(SetState(x, "GENERATE_AUTH_TOKEN_COMPLETE"))
        \/ \E fastopen \in BOOLEAN : Become(SpdySendRequest(x, fastopen))
        \/ Become(ConnectDone(x, "error"))

\* OnIOComplete, called by the authentication controller.
SpdyAuthDone ==
  /\ kind = "spdy" /\ sock.next_state = "GENERATE_AUTH_TOKEN_COMPLETE"
  /\ \/ \E fastopen \in BOOLEAN : Become(SpdySendRequest(Now, fastopen))
     \/ Become(ConnectDone(SetState(Now, "DISCONNECTED"), "error"))

\* The session makes the HEADERS frame and writes it (SpdySession::DoWrite).
SpdyRequestWritten ==
  /\ kind = "spdy" /\ strm.sending = "request"
  /\ Become([Now EXCEPT !.strm.sending = "written"])

\* OnFrameWriteComplete for HEADERS, OnHeadersSent and DoSendRequestComplete.
SpdyHeadersSent ==
  /\ kind = "spdy" /\ strm.sending = "written"
  /\ LET x == Checks([Now EXCEPT !.strm.sending = "nothing", !.strm.io = "OPEN"],
                     "OnHeadersSent",
                     sock.next_state = "SEND_REQUEST_COMPLETE")
     IN IF sock.use_fastopen
        THEN Become(ConnectDone([SetState(x, "OPEN") EXCEPT
                                   !.sock.read_headers_pending = TRUE],
                                "ok"))
        ELSE Become(SetState(x, "READ_REPLY_COMPLETE"))

\* Mutants: a refusal of a tunnel in use is never reported; or the tunnel
\* stays open after it.
SpdyReplyInUseSilent(x, r) == SetState(x, IF r.rv = "ok" THEN "OPEN" ELSE "DISCONNECTED")
SpdyReplyInUseOpen(x, r) == SetState(x, "OPEN")

\* DoLoop's branch for a reply that comes when the tunnel is in use: only an
\* error is reported, to the pending Read if there is one.
SpdyReplyInUse(x, r) ==
  IF r.rv = "ok" THEN SetState(x, "OPEN")
  ELSE LET y == SetState(x, "DISCONNECTED")
       IN IF ReadCallback(x)
          THEN ReadEnds(Answered(y, "read", "read")) ELSE y

\* OnHeadersReceived of the socket.
SpdyOnHeadersReceived(x, reply) ==
  LET inUse == x.sock.use_fastopen /\ x.sock.read_headers_pending
      r == DoReadReplyComplete(reply)
  IN CASE inUse /\ x.sock.next_state = "OPEN" ->
            SpdyReplyInUse([x EXCEPT !.sock.read_headers_pending = FALSE], r)
       [] x.sock.next_state = "READ_REPLY_COMPLETE" ->
            ConnectDone(SetState(x, r.state), r.rv)
       [] OTHER -> x

-----------------------------------------------------------------------------
\* Frames from the proxy; ResetStream closes the stream with an error.
SpdyReceiving ==
  /\ kind = "spdy" /\ strm.io # "CLOSED"
  /\ strm.io = "IDLE" => strm.sending = "written"

\* SpdyStream::OnHeadersReceived; the second block is trailers: OnTrailers of
\* the socket is NOTREACHED, and empty in a release build.  A block before the
\* HEADERS write completed is an error.
SpdyHeaders(reply) ==
  /\ SpdyReceiving
  /\ LET x == [Now EXCEPT !.strm.response = "READY_FOR_DATA_OR_TRAILERS",
                          !.strm.reply = reply]
     IN CASE strm.response = "READY_FOR_HEADERS" ->
               Become(IF strm.io = "IDLE" THEN SpdyOnClose(x)
                      ELSE SpdyOnHeadersReceived(x, reply))
          [] strm.response = "READY_FOR_DATA_OR_TRAILERS" ->
               Become([Now EXCEPT !.strm.response = "TRAILERS_RECEIVED"])
          [] strm.response = "TRAILERS_RECEIVED" -> Become(SpdyOnClose(Now))

\* SpdyStream::OnDataReceived with data.
SpdyData(n) ==
  /\ SpdyReceiving /\ strm.received + n <= MaxData
  /\ IF strm.response # "READY_FOR_DATA_OR_TRAILERS" \/ strm.io = "HALF_CLOSED_REMOTE"
     THEN Become(SpdyOnClose(Now))
     ELSE Become(SpdyTellReader(
            [Now EXCEPT !.strm.received = @ + n,
                        !.strm.buffered = @ \o [i \in 1..n |-> strm.received + i]]))

\* SpdyStream::OnDataReceived of the end of the stream.
SpdyEndStream ==
  /\ SpdyReceiving
  /\ IF strm.response = "READY_FOR_HEADERS" \/ strm.io = "HALF_CLOSED_REMOTE"
     THEN Become(SpdyOnClose(Now))
     ELSE Become(SpdyTellReader([Now EXCEPT !.strm.io = "HALF_CLOSED_REMOTE"]))

\* RST_STREAM, or the end of the session; the connect job that makes the socket
\* calls its Connect at once.
SpdyReset ==
  /\ kind = "spdy" /\ strm.io # "CLOSED" /\ ~CanConnect
  /\ Become(SpdyOnClose(Now))

\* OnFrameWriteComplete for the last DATA frame of a Write, and OnDataSent.
SpdyDataSent ==
  /\ kind = "spdy" /\ strm.sending = "data"
  /\ Become(Post(Checks([Now EXCEPT !.strm.sending = "nothing",
                                    !.sock.callbacks = @ \ {"write"}],
                        "OnDataSent", "write" \in sock.callbacks),
                 "write"))

\* The posted RunCallback.
SpdyWriteAnswered ==
  /\ kind = "spdy" /\ tasks # <<>>
  /\ Become(WriteDone(Answered([Now EXCEPT !.tasks = Tail(@)], "write", "write"),
                      "ok"))

-----------------------------------------------------------------------------
\* Read, with ReadIfReady.
SpdyRead ==
  /\ kind = "spdy" /\ CanRead
  /\ LET x == Checks(Now, "Read", ~ReadCallback(Now) /\ ~sock.user_buffer)
         taken == Take(x)
     IN Become(
          CASE sock.next_state = "DISCONNECTED" -> ReadEnds(x)
            [] sock.next_state = "CLOSED" /\ strm.buffered = <<>> ->
                 ReadEnds(x)
            [] sock.next_state # "DISCONNECTED" /\ strm.buffered # <<>> ->
                 ReadData(taken.x, taken.data)
            [] OTHER -> Awaits([x EXCEPT !.sock.user_buffer = TRUE], "read"))

\* Write, with SpdyStream::SendData.
SpdyWrite ==
  /\ kind = "spdy" /\ CanWrite
  /\ LET x == Checks(Writing(Now), "Write",
                     "write" \notin sock.callbacks /\ strm.sending = "nothing")
     IN IF sock.next_state # "OPEN"
        THEN Become(WriteDone(x, "error"))
        ELSE Become(Awaits([Checks(x, "SendData",
                                   strm.io \in {"OPEN", "HALF_CLOSED_REMOTE"})
                              EXCEPT !.strm.sending = "data"], "write"))

SpdyNext ==
  \/ SpdyConnect \/ SpdyAuthDone \/ SpdyRequestWritten \/ SpdyHeadersSent
  \/ \E reply \in Replies : SpdyHeaders(reply)
  \/ \E n \in 1..MaxFrame : SpdyData(n)
  \/ SpdyEndStream \/ SpdyReset \/ SpdyDataSent \/ SpdyWriteAnswered
  \/ SpdyRead \/ SpdyWrite
=============================================================================
