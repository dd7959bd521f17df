-------------------------- MODULE ProxyClientSocket --------------------------
(***************************************************************************)
(* What SpdyProxyClientSocket and QuicProxyClientSocket have in common: a  *)
(* CONNECT tunnel through the proxy, its DoLoop, Fast Open (the tunnel is  *)
(* used before its reply came), and the user above it, which is the        *)
(* connect job until the tunnel is connected and NaiveConnection then.     *)
(*                                                                         *)
(* Handlers call each other and the user's callbacks, which may call back. *)
(* They are functions from the state x of the tunnel to the next one; an   *)
(* action is one event of the message loop.                                *)
(***************************************************************************)
EXTENDS Integers, Sequences, FiniteSets

CONSTANTS
  Kinds,     \* the protocols of the proxy explored, of {"spdy", "quic"}
  MaxData,   \* bound on the units of data the proxy sends
  MaxFrame,  \* units in a frame
  BufLen,    \* units a Read takes
  MaxWrites  \* bound on the Writes of the user

ASSUME KindsAssumption == Kinds \subseteq {"spdy", "quic"}
ASSUME SizesAssumption == {MaxData, MaxFrame, BufLen, MaxWrites} \subseteq Nat \ {0}

VARIABLES
  kind,   \* the protocol spoken with this proxy
  sock,   \* the socket: next_state_, use_fastopen_, read_headers_pending_,
          \* callbacks_ and user_buffer_, and the DCHECKs that failed
  strm,   \* the stream below it
  tasks,  \* what was posted to the message loop
  user    \* the user: phase, the operations awaited, the data read, and the
          \* answers that came when none was awaited

vars == <<kind, sock, strm, tasks, user>>

Ops == {"connect", "read", "write"}
Replies == {"200", "407", "other"}
Refusals == Replies \ {"200"}

\* STATE_OPEN of one class is STATE_CONNECT_COMPLETE of the other.
NewSocket == [next_state |-> "DISCONNECTED", use_fastopen |-> FALSE,
              read_headers_pending |-> FALSE, callbacks |-> {},
              user_buffer |-> FALSE, failed_checks |-> {}]

NewUser == [phase |-> "new", awaits |-> {}, writes |-> 0, got |-> <<>>,
            stray |-> {}]

Now == [sock |-> sock, strm |-> strm, tasks |-> tasks, user |-> user]

Become(x) ==
  /\ sock' = x.sock /\ strm' = x.strm /\ tasks' = x.tasks /\ user' = x.user
  /\ UNCHANGED kind

\* A DCHECK or CHECK that the code makes in state x.
Checks(x, name, holds) ==
  IF holds THEN x ELSE [x EXCEPT !.sock.failed_checks = @ \cup {name}]

SetState(x, state) == [x EXCEPT !.sock.next_state = state]

Post(x, task) == [x EXCEPT !.tasks = Append(@, task)]

Alive(x) == x.user.phase # "destroyed"

First(queue, n) == SubSeq(queue, 1, IF n <= Len(queue) THEN n ELSE Len(queue))
Rest(queue, n) == SubSeq(queue, n + 1, Len(queue))

\* Mutant: what a Read cannot take of a buffer is dropped with it.
TakeAll(x) == [data |-> First(x.strm.buffered, BufLen),
               x |-> [x EXCEPT !.strm.buffered = <<>>]]

\* A Read of what is buffered.
Take(x) == [data |-> First(x.strm.buffered, BufLen),
            x |-> [x EXCEPT !.strm.buffered = Rest(@, BufLen)]]

-----------------------------------------------------------------------------
\* Disconnect of the two classes.

\* Mutant: the callback of a Read survives.
SpdyDisconnectKeepsRead(x) ==
  [x EXCEPT !.sock.callbacks = @ \cap {"read"}, !.sock.user_buffer = FALSE,
            !.sock.next_state = "DISCONNECTED", !.tasks = <<>>,
            !.strm.buffered = <<>>, !.strm.io = "CLOSED",
            !.strm.sending = "nothing"]

\* Disconnect: everything is dropped, the posted answer to a Write too.  The
\* stream is cancelled, which calls OnClose; that finds nothing to do.
SpdyDisconnect(x) ==
  [x EXCEPT !.sock.callbacks = {}, !.sock.user_buffer = FALSE,
            !.sock.next_state = "DISCONNECTED", !.tasks = <<>>,
            !.strm.buffered = <<>>, !.strm.io = "CLOSED",
            !.strm.sending = "nothing"]

\* OnClose and OnError of the stream: the handle loses it.
QuicStreamCloses(x) ==
  IF x.strm.open THEN Post([x EXCEPT !.strm.open = FALSE], "close") ELSE x

\* Disconnect resets the stream (Reset of quic::QuicSpdyStream is external and
\* closes it at once).
QuicDisconnect(x) ==
  QuicStreamCloses([SetState(x, "DISCONNECTED") EXCEPT !.sock.callbacks = {}])

Disconnect(x) == IF kind = "spdy" THEN SpdyDisconnect(x) ELSE QuicDisconnect(x)

-----------------------------------------------------------------------------
\* The user.

\* A callback of the user is run: how is where from, for one not awaited.
Answered(x, op, how) ==
  [x EXCEPT !.sock.callbacks = @ \ {op},
            !.user.awaits = @ \ {op},
            !.user.stray = IF op \in x.user.awaits THEN @ ELSE @ \cup {how}]

\* The socket is destroyed: its weak pointers and its handle are gone.
Destroyed(x) ==
  [Disconnect(x) EXCEPT !.tasks = <<>>, !.user.phase = "destroyed",
                        !.user.awaits = {}]

\* The user disconnects: it awaits nothing any more.
Disconnected(x) ==
  [Disconnect(x) EXCEPT !.user.phase = "disconnected", !.user.awaits = {}]

\* The connect job is told the result.  On an error its pool deletes it, and
\* the socket with it; an authentication challenge is first reported to the
\* job's delegate by a posted task (external: HttpProxyConnectJob).
ConnectDone(x, rv) ==
  LET y == Answered(x, "connect", "connect")
  IN CASE rv = "ok" -> [y EXCEPT !.user.phase = "connected"]
       [] rv = "auth" -> [y EXCEPT !.user.phase = "challenged"]
       [] rv = "error" -> Destroyed(y)

\* NaiveConnection is given data, or the end of the stream or an error, on
\* which it disconnects at once (OnPullComplete and OnPullError).
ReadData(x, data) == [x EXCEPT !.user.got = @ \o data]
ReadEnds(x) == Disconnected(x)

\* NaiveConnection's reaction to the result of a Write (OnPushComplete).
WriteDone(x, rv) ==
  IF rv = "ok" \/ x.user.phase # "connected" THEN x
  ELSE Disconnected(x)

Awaits(x, op) == [x EXCEPT !.sock.callbacks = @ \cup {op},
                           !.user.awaits = @ \cup {op}]

CanConnect == user.phase = "new"
CanRead == user.phase = "connected" /\ "read" \notin user.awaits
CanWrite ==
  /\ user.phase = "connected" /\ "write" \notin user.awaits
  /\ user.writes < MaxWrites
Writing(x) == [x EXCEPT !.user.writes = @ + 1]

-----------------------------------------------------------------------------
\* The parts of DoLoop that do not depend on the protocol.

\* DoReadReplyComplete: result is the reply, or "error".  The result and the
\* next state; NaiveProxyDelegate::OnTunnelHeadersReceived returns OK.
DoReadReplyComplete(result) ==
  CASE result = "200" -> [rv |-> "ok", state |-> "OPEN"]
    [] result = "407" -> [rv |-> "auth", state |-> "OPEN"]
    [] result \in {"other", "error"} -> [rv |-> "error", state |-> "DISCONNECTED"]

\* RestartWithAuth of a challenged tunnel; the job then destroys the socket.
RestartWithAuth ==
  /\ user.phase = "challenged" /\ sock.next_state # "DISCONNECTED"
  /\ Become(SetState(Now, "DISCONNECTED"))
=============================================================================
