----------------------------- MODULE ProxyTunnel -----------------------------
(***************************************************************************)
(* A CONNECT tunnel in use, through an HTTP/2 or an HTTP/3 proxy: the      *)
(* specification of the two client sockets and what it must satisfy.       *)
(***************************************************************************)
EXTENDS SpdyProxyClientSocket, QuicProxyClientSocket

Init ==
  /\ kind \in Kinds
  /\ sock = NewSocket /\ user = NewUser /\ tasks = <<>>
  /\ strm = IF kind = "spdy" THEN NewSpdyStream ELSE NewQuicStream

\* The user disconnects of its own accord, when its other side failed.
UserDisconnects ==
  user.phase = "connected" /\ Become(Disconnected(Now))

\* The socket is destroyed: its connect job timed out, an authentication
\* challenge was given up, or the connection that disconnected it is deleted.
UserDestroys ==
  /\ user.phase \in {"connecting", "challenged", "disconnected"}
  /\ Become(Destroyed(Now))

Terminated == user.phase = "destroyed" /\ UNCHANGED vars

Next ==
  \/ SpdyNext \/ QuicNext \/ RestartWithAuth
  \/ UserDisconnects \/ UserDestroys \/ Terminated

\* The message loop runs what was posted, and the relay comes back to Read.
\* Nothing is assumed of the proxy and of the network.
Fairness ==
  /\ WF_vars(SpdyWriteAnswered)
  /\ WF_vars(\E task \in QuicTasks : QuicTask(task))
  /\ WF_vars(SpdyRead \/ QuicRead)

Spec == Init /\ [][Next]_vars /\ Fairness

-----------------------------------------------------------------------------
\* The operations whose callback is kept, by the socket or by a posted task.
Kept == sock.callbacks \cup
          (IF kind = "spdy" /\ tasks # <<>> THEN {"write"} ELSE {})

(***************************************************************************)
(* Every Connect, Read and Write is answered at most once and none is      *)
(* forgotten: between events the sockets keep the callback of exactly the  *)
(* operations the user still waits for, whatever the sharing of            *)
(* read_callback_, a Fast Open that ends early or a close in the middle of *)
(* it, and no callback runs twice or after Disconnect.  The exception is   *)
(* SpdyProxyClientSocket::OnClose, which runs the callback of a Write      *)
(* after that of a Read, although the user then disconnected.              *)
(***************************************************************************)
OneAnswerEach ==
  /\ user.awaits = Kept
  /\ user.stray \subseteq {"write in OnClose"}

(***************************************************************************)
(* The DCHECKs and CHECKs of the handlers hold in every order of events: a *)
(* reply is processed only where one is waited for, and the callback that  *)
(* is about to run is there.                                               *)
(***************************************************************************)
DchecksHold == sock.failed_checks = {}

(***************************************************************************)
(* Nothing that a proxy sends with a refusal is taken for data of the      *)
(* target ("Ignore response to avoid letting the proxy impersonate the     *)
(* target server"): with Fast Open over HTTP/2 also when the reply finds   *)
(* the tunnel in use.  Fast Open over QUIC is left out: there body can be  *)
(* read before its reply is looked at, and by a Read that was pending      *)
(* when the reply made the socket DISCONNECTED.                            *)
(***************************************************************************)
RefusalIsSilent ==
  strm.reply \in Refusals /\ ~(kind = "quic" /\ sock.use_fastopen) =>
    user.got = <<>>

(***************************************************************************)
(* What arrived for a tunnel in use was read or is still kept for a Read,  *)
(* in order and nothing twice, whatever was pending when it arrived.       *)
(***************************************************************************)
NothingLost ==
  user.phase = "connected" =>
    user.got \o strm.buffered = [i \in 1..strm.received |-> i]

StreamClosed == IF kind = "spdy" THEN strm.io = "CLOSED" ELSE ~strm.open
StreamEnded == IF kind = "spdy" THEN strm.io = "HALF_CLOSED_REMOTE" ELSE strm.fin

\* There is data, or over QUIC an end without trailers, for a Read that is told
\* of it.
DataIsAnnounced ==
  /\ ~(kind = "quic" /\ sock.use_fastopen)
  /\ strm.buffered # <<>> \/ (kind = "quic" /\ strm.fin /\ ~strm.trailers)

(***************************************************************************)
(* A pending Read is answered when there is data to read, when the stream  *)
(* was closed and, over QUIC, when it ended without trailers: no wakeup is *)
(* lost between the stream, its handle, the posted tasks and the socket.   *)
(* The cases left out are the ones in which the code does lose it (see     *)
(* ReadGetsResult): the end over HTTP/2, an end with trailers over QUIC,   *)
(* and Fast Open over QUIC, with which only the close of the stream is     *)
(* sure to wake the Read.                                                  *)
(***************************************************************************)
ReadsAnswered ==
  /\ ("read" \in user.awaits /\ StreamClosed) ~> "read" \notin user.awaits
  /\ ("read" \in user.awaits /\ DataIsAnnounced) ~> "read" \notin user.awaits

(***************************************************************************)
(* With Fast Open over HTTP/2 a refusal that comes when the tunnel is in   *)
(* use reaches the user, by the Read that is pending or by the next one.   *)
(***************************************************************************)
RefusalReachesUser ==
  (kind = "spdy" /\ strm.reply \in Refusals /\ user.phase = "connected")
    ~> user.phase # "connected"

(***************************************************************************)
(* A pending Read is answered when there is data to read or the other end  *)
(* ended the stream, as the interface of sockets promises ("Zero is        *)
(* returned once to indicate end-of-file", and "the result will be passed  *)
(* to the callback when available").                                       *)
(***************************************************************************)
ReadGetsResult ==
  ("read" \in user.awaits /\ (strm.buffered # <<>> \/ StreamEnded))
    ~> "read" \notin user.awaits
=============================================================================
