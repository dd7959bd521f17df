----------------------------- MODULE SpdySession -----------------------------
(***************************************************************************)
(* HTTP/2 flow control of the session that carries the tunnels: the send   *)
(* windows of SpdySession and of its SpdyStreams, streams that stall and   *)
(* are resumed, the write queue and write loop, frames discarded with      *)
(* their stream, the padded RST_STREAM, and the receive windows.           *)
(*                                                                         *)
(* The write queue is a set of frames that are numbered in the order they  *)
(* were queued.                                                            *)
(*                                                                         *)
(* The handlers run on one thread.  Each is one action, but for the three  *)
(* loops (DoWriteLoop, ResumeSendStalledStreams, the loop over the streams *)
(* of UpdateStreamsSendWindowSize), whose iterations are steps of their    *)
(* own, with no other event between them.                                  *)
(***************************************************************************)
EXTENDS Integers, Sequences, SequencesExt, FiniteSets, FiniteSetsExt

CONSTANTS
  Streams,           \* the tunnels; naturals from 1, 0 is the session
  MaxWindow,         \* 2^31 - 1
  SessionWindow,     \* the first send window of the session
  StreamWindow,      \* the first stream_initial_send_window_size_
  SettingValues,     \* values of SETTINGS_INITIAL_WINDOW_SIZE explored
  FrameSize,         \* kMaxSpdyFrameChunkSize
  RstThreshold,      \* 72: the window that allows a padded RST_STREAM
  RstPaddings,       \* outcomes of RandInt(48, 72) - kNonPaddingSize
  SessionMaxRecv,    \* session_max_recv_window_size_
  StreamMaxRecv,     \* max_recv_window_size_ of a stream
  MaxLen,            \* bound: bytes of a write, of a frame of the peer, of an update
  MaxEvents          \* bound: number of writes, and of frames with data or settings
                     \* and breaches of the rules by the peer

ASSUME StreamsAssumption == IsFiniteSet(Streams) /\ Streams \subseteq Nat \ {0}
ASSUME WindowsAssumption ==
  /\ MaxWindow \in Nat /\ SessionWindow \in 0..MaxWindow
  /\ StreamWindow \in 0..MaxWindow /\ SettingValues \subseteq 0..MaxWindow
ASSUME FramesAssumption ==
  /\ FrameSize \in Nat \ {0} /\ RstThreshold \in Nat
  /\ RstPaddings \subseteq 1..RstThreshold /\ RstPaddings # {}
ASSUME RecvAssumption == SessionMaxRecv \in Nat \ {0} /\ StreamMaxRecv \in Nat \ {0}
ASSUME BoundsAssumption == {MaxLen, MaxEvents} \subseteq Nat

VARIABLES
  drained,         \* "no", or why DoDrainSession was called
  send_window,     \* session_send_window_size_
  initial_window,  \* stream_initial_send_window_size_
  unstall,         \* stream_send_unstall_queue_ of the tunnels' priority
  resuming,        \* ResumeSendStalledStreams is running
  requeue,         \* its streams_to_requeue
  adjust,          \* the streams UpdateStreamsSendWindowSize has still to visit
  queue,           \* write_queue_
  in_flight,       \* in_flight_write_
  write_state,     \* write_state_
  in_io_loop,      \* DoWriteLoop is running
  recv_window,     \* session_recv_window_size_
  unacked,         \* session_unacked_recv_window_bytes_
  stream,          \* the SpdyStreams
  held,            \* received and not yet consumed, by stream
  peer,            \* what the peer allows and is allowed
  events           \* how many of the events that MaxEvents bounds happened

sendVars == <<send_window, unstall>>
loopVars == <<resuming, requeue, adjust>>
writeVars == <<queue, in_flight, write_state, in_io_loop>>
recvVars == <<recv_window, unacked, held>>
vars == <<drained, initial_window, sendVars, loopVars, writeVars, recvVars,
          stream, peer, events>>

\* What the tunnels send, and RST_STREAMs, wait at the priority of a tunnel.
Priorities == {"HIGHEST", "tunnel"}
\* A frame's number is its place among those of its priority in the write
\* queue, 0 once it was taken from there to be written.
Frame(type, s, size, priority, number) ==
  [type |-> type, stream |-> s, size |-> size, priority |-> priority,
   number |-> number]
NoFrame == Frame("none", 0, 0, "HIGHEST", 0)

Active(s) == stream[s].state \in {"activated", "open"}
IsSendStalled == send_window = 0
\* A stream that was closed and deleted.
Closed == [state |-> "closed", window |-> 0, stalled |-> FALSE, pending |-> 0,
           recv |-> 0, unacked |-> 0]
\* The thread is between two events.
Idle == drained = "no" /\ ~resuming /\ adjust.todo = {} /\ ~in_io_loop

Counts == events < MaxEvents /\ events' = events + 1

Init ==
  /\ drained = "no"
  /\ send_window = SessionWindow /\ unstall = <<>>
  /\ initial_window = StreamWindow
  /\ resuming = FALSE /\ requeue = <<>>
  /\ adjust = [todo |-> {}, delta |-> 0]
  /\ queue = {} /\ in_flight = NoFrame
  /\ write_state = "IDLE" /\ in_io_loop = FALSE
  /\ recv_window = SessionMaxRecv /\ unacked = 0
  /\ held = [s \in Streams |-> 0]
  /\ stream = [s \in Streams |->
                [Closed EXCEPT !.state = "none", !.recv = StreamMaxRecv]]
  /\ peer = [credit |-> SessionWindow, window |-> SessionMaxRecv,
             streamCredit |-> [s \in Streams |-> 0],
             streamWindow |-> [s \in Streams |-> StreamMaxRecv],
             open |-> {}, reset |-> {}, faulty |-> FALSE, overrun |-> FALSE,
             blamed |-> FALSE, lowered |-> FALSE]
  /\ events = 0

-----------------------------------------------------------------------------
(***************************************************************************)
(* Closing.                                                                *)
(***************************************************************************)
\* DoDrainSession: every stream is closed.  What is queued is still written
\* and the session destroyed; none of that is modelled.
Drain(why) ==
  /\ drained' = why
  /\ stream' = [s \in Streams |-> Closed]

\* EnqueueWrite, with MaybePostWriteLoop.
LastNumber(q, priority) ==
  Max({0} \cup {f.number : f \in {g \in q : g.priority = priority}})
Enqueue(q, priority, type, s, size) ==
  q \cup {Frame(type, s, size, priority, LastNumber(q, priority) + 1)}
MaybePostWriteLoop ==
  write_state' = IF write_state = "IDLE" THEN "DO_WRITE" ELSE write_state

\* Mutant: nobody posts the write loop for a frame that was just queued.
PostIfEnqueuedNever == UNCHANGED write_state

PostIfEnqueued == IF queue' = queue THEN UNCHANGED write_state ELSE MaybePostWriteLoop

OfStream(f, s) == f.stream = s /\ f.type \in {"HEADERS", "DATA"}

RemovePendingWritesForStream(q, s) == {f \in q : ~OfStream(f, s)}

\* How many bytes of payload a set of frames has.
Bytes(frames) == Cardinality(UNION {{f} \X (1..f.size) : f \in frames})

\* Mutant: discarded bytes are lost to the window.
DiscardedNone(q, s) == 0

\* The payload that OnWriteBufferConsumed gives back for a stream's frames.
Discarded(q, s) == Bytes({f \in q : f.type = "DATA" /\ f.stream = s})

\* CloseActiveStreamIterator and CloseCreatedStreamIterator, with
\* DeleteStream; the window and the queue are w and q when they are called.
CloseStream(s, w, q) ==
  LET back == Discarded(q, s)
  IN /\ queue' = RemovePendingWritesForStream(q, s)
     /\ IF w + back > MaxWindow
        THEN /\ Drain("send window overflow") /\ send_window' = w
             /\ UNCHANGED resuming
        ELSE /\ stream' = [stream EXCEPT ![s] = Closed]
             /\ send_window' = w + back /\ resuming' = (back > 0)
             /\ UNCHANGED drained

\* EnqueueResetStreamFrame: the sizes of the padded DATA frame that goes out
\* with a RST_STREAM, 0 for none.
ResetPaddings == IF send_window >= RstThreshold THEN RstPaddings ELSE {0}

\* Mutant: a RST_STREAM is written before all that is queued.
ResetStreamFirst(s, q) ==
  \E padding \in ResetPaddings :
    CloseStream(s, send_window - padding,
                Enqueue(q, "HIGHEST", "RST_STREAM", s, padding))

\* ResetStreamIterator.
ResetStream(s, q) ==
  \E padding \in ResetPaddings :
    CloseStream(s, send_window - padding,
                Enqueue(q, "tunnel", "RST_STREAM", s, padding))

-----------------------------------------------------------------------------
(***************************************************************************)
(* Sending.                                                                *)
(***************************************************************************)
\* Mutant: the window of the session is not looked at.
EffectiveLenOfStream(len, w) == Min({len, FrameSize, w})

EffectiveLen(len, w) == Min({len, FrameSize, w, send_window})

\* CreateDataBuffer and QueueNextDataFrame, with len bytes left to send and a
\* window of w: a frame is queued, or the stream stalls.
QueueData(s, len, w) ==
  LET size == EffectiveLen(len, w)
  IN /\ stream' = [stream EXCEPT ![s].pending = len, ![s].window = w - size,
                                 ![s].stalled = FALSE]
     /\ send_window' = send_window - size
     /\ queue' = Enqueue(queue, "tunnel", "DATA", s, size)

QueueNextDataFrame(s, len, w) ==
  \/ /\ w <= 0 \/ IsSendStalled
     /\ stream' = [stream EXCEPT ![s].pending = len, ![s].window = w,
                                 ![s].stalled = TRUE]
     /\ unstall' = Append(unstall, s)
     /\ UNCHANGED <<send_window, queue>>
  \/ /\ w > 0 /\ ~IsSendStalled
     /\ QueueData(s, len, w) /\ UNCHANGED unstall

\* SendRequestHeaders of a stream that was just created.
SendRequestHeaders(s) ==
  /\ Idle /\ stream[s].state = "none"
  /\ stream' = [stream EXCEPT ![s].state = "created", ![s].window = initial_window]
  /\ queue' = Enqueue(queue, "tunnel", "HEADERS", s, 0)
  /\ MaybePostWriteLoop
  /\ peer' = [peer EXCEPT !.streamCredit[s] = initial_window]
  /\ UNCHANGED <<drained, initial_window, sendVars, loopVars, in_flight,
                 in_io_loop, recvVars, events>>

\* SpdyProxyClientSocket::Write, one at a time, once the tunnel is open.
SendData(s, len) ==
  /\ Idle /\ stream[s].state = "open" /\ stream[s].pending = 0
  /\ Counts
  /\ QueueNextDataFrame(s, len, stream[s].window)
  /\ PostIfEnqueued
  /\ UNCHANGED <<drained, initial_window, loopVars, in_flight, in_io_loop,
                 recvVars, peer>>

\* SpdyStream::Cancel; the socket that calls it has emptied its read queue.
Cancel(s) ==
  /\ Idle /\ held[s] = 0
  /\ \/ Active(s) /\ ResetStream(s, queue) /\ MaybePostWriteLoop
     \/ /\ stream[s].state = "created" /\ CloseStream(s, send_window, queue)
        /\ UNCHANGED write_state
  /\ UNCHANGED <<initial_window, unstall, requeue, adjust, in_flight,
                 in_io_loop, recvVars, peer, events>>

\* The task posted by MaybePostWriteLoop.
PumpWriteLoop ==
  /\ Idle /\ write_state = "DO_WRITE" /\ in_io_loop' = TRUE
  /\ UNCHANGED <<drained, initial_window, sendVars, loopVars, queue, in_flight,
                 write_state, recvVars, stream, peer, events>>

\* The order in which frames are written: Dequeue takes the first of the
\* highest priority that has one.
Before(f, g) ==
  /\ g.number # 0
  /\ \/ f.number = 0
     \/ f.priority = "HIGHEST" /\ g.priority = "tunnel"
     \/ f.priority = g.priority /\ f.number < g.number

\* DoWrite: the next frame is written, its stream activated if it is the
\* HEADERS; a Write that completes at once is followed by WriteDone at once.
DoWrite ==
  /\ drained = "no" /\ in_io_loop /\ in_io_loop' = FALSE
  /\ \/ /\ queue = {}
        /\ write_state' = "IDLE"
        /\ UNCHANGED <<queue, in_flight, stream>>
     \/ \E f \in queue :
        /\ \A g \in queue \ {f} : Before(f, g)
        /\ in_flight' = [f EXCEPT !.number = 0]
        /\ queue' = queue \ {f}
        /\ stream' = IF f.type # "HEADERS" THEN stream
                     ELSE [stream EXCEPT ![f.stream].state = "activated"]
        /\ write_state' = "DO_WRITE_COMPLETE"
  /\ UNCHANGED <<drained, initial_window, sendVars, loopVars, recvVars, peer,
                 events>>

\* What the peer makes of a frame.  Delay on the way is a Write that stays
\* pending; a RST_STREAM ends the stream, so only the session's window counts
\* for its padding.
PeerReceives(f) ==
  LET s == f.stream
      toSession == f.type = "WINDOW_UPDATE" /\ s = 0
      toStream == f.type = "WINDOW_UPDATE" /\ s # 0
  IN peer' = [peer EXCEPT
       !.credit = IF f.type \in {"DATA", "RST_STREAM"} THEN @ - f.size ELSE @,
       !.streamCredit = CASE f.type = "DATA" ->
                               [@ EXCEPT ![s] = peer.streamCredit[s] - f.size]
                          [] f.type = "RST_STREAM" -> [@ EXCEPT ![s] = 0]
                          [] OTHER -> @,
       !.window = IF toSession THEN @ + f.size ELSE @,
       !.streamWindow = IF toStream
                        THEN [@ EXCEPT ![s] = peer.streamWindow[s] + f.size] ELSE @,
       !.open = IF f.type = "HEADERS" THEN @ \cup {s}
                ELSE IF f.type = "RST_STREAM" THEN @ \ {s} ELSE @,
       !.reset = IF f.type = "RST_STREAM" THEN @ \cup {s} ELSE @,
       !.overrun = \/ @
                   \/ f.type \in {"DATA", "RST_STREAM"} /\ f.size > peer.credit
                   \/ /\ f.type = "DATA" /\ s \in peer.open /\ ~peer.lowered
                      /\ f.size > peer.streamCredit[s]]

\* DoWriteComplete, once the whole frame is written (a part changes nothing
\* here), with OnFrameWriteComplete, and the loop goes on with DoWrite.
WriteDone ==
  /\ Idle /\ write_state = "DO_WRITE_COMPLETE"
  /\ write_state' = "DO_WRITE" /\ in_io_loop' = TRUE
  /\ in_flight' = NoFrame
  /\ PeerReceives(in_flight)
  /\ LET s == in_flight.stream
         left == stream[s].pending - in_flight.size
         told == OfStream(in_flight, s) /\ Active(s)
     IN \/ /\ told /\ in_flight.type = "DATA" /\ left > 0
           /\ QueueNextDataFrame(s, left, stream[s].window)
        \/ /\ told /\ in_flight.type = "DATA" /\ left = 0
           /\ stream' = [stream EXCEPT ![s].pending = 0]
           /\ UNCHANGED <<sendVars, queue>>
        \/ /\ told /\ in_flight.type = "HEADERS"
           /\ stream' = [stream EXCEPT ![s].state = "open"]
           /\ UNCHANGED <<sendVars, queue>>
        \/ /\ ~told /\ UNCHANGED <<sendVars, stream, queue>>
  /\ UNCHANGED <<drained, initial_window, loopVars, recvVars, events>>

\* DoWriteComplete with an error.
WriteFails ==
  /\ Idle /\ write_state = "DO_WRITE_COMPLETE"
  /\ Drain("write error") /\ in_flight' = NoFrame /\ write_state' = "DO_WRITE"
  /\ UNCHANGED <<initial_window, sendVars, loopVars, queue, in_io_loop,
                 recvVars, peer, events>>

-----------------------------------------------------------------------------
(***************************************************************************)
(* Send windows given by the peer.  A peer breaks the rules at most once   *)
(* in a behaviour: it gives more than MaxWindow or nothing at all, or      *)
(* sends more than it may.                                                 *)
(***************************************************************************)
CountsIf(breaks) ==
  \/ breaks /\ ~peer.faulty /\ Counts
  \/ ~breaks /\ UNCHANGED events

\* SpdySession::IncreaseSendWindowSize for a WINDOW_UPDATE of the session.
OnSessionWindowUpdate(delta) ==
  /\ Idle /\ peer.credit + delta <= MaxWindow + 1
  /\ LET breaks == delta < 1 \/ peer.credit + delta > MaxWindow
     IN /\ CountsIf(breaks)
        /\ peer' = [peer EXCEPT !.credit = @ + delta, !.faulty = @ \/ breaks]
  /\ \/ /\ delta < 1 \/ send_window + delta > MaxWindow
        /\ Drain("send window overflow")
        /\ UNCHANGED <<send_window, resuming>>
     \/ /\ delta >= 1 /\ send_window + delta <= MaxWindow
        /\ send_window' = send_window + delta
        /\ resuming' = TRUE
        /\ UNCHANGED <<drained, stream>>
  /\ UNCHANGED <<initial_window, unstall, requeue, adjust, writeVars, recvVars>>

\* PossiblyResumeIfSendStalled of an active stream whose window is now w.
PossiblyResumeIfSendStalled(s, w) ==
  LET resumes == stream[s].stalled /\ ~IsSendStalled /\ w > 0
  IN \/ resumes /\ QueueData(s, stream[s].pending, w) /\ UNCHANGED unstall
     \/ /\ ~resumes /\ stream' = [stream EXCEPT ![s].window = w]
        /\ UNCHANGED <<sendVars, queue>>

Overflows(s, delta) == delta < 1 \/ stream[s].window + delta > MaxWindow

\* SpdyStream::IncreaseSendWindowSize for a WINDOW_UPDATE of a stream.
OnStreamWindowUpdate(s, delta) ==
  /\ Idle /\ s \in peer.open /\ peer.streamCredit[s] + delta <= MaxWindow + 1
  /\ LET breaks == delta < 1 \/ peer.streamCredit[s] + delta > MaxWindow
     IN /\ CountsIf(breaks)
        /\ peer' = [peer EXCEPT !.streamCredit[s] = IF Active(s) THEN @ + delta ELSE @,
                                !.faulty = @ \/ breaks,
                                !.blamed = @ \/ (Active(s) /\ Overflows(s, delta))]
  /\ \/ /\ ~Active(s)
        /\ UNCHANGED <<drained, sendVars, resuming, queue, stream>>
     \/ /\ Active(s) /\ Overflows(s, delta)
        /\ ResetStream(s, queue) /\ UNCHANGED unstall
     \/ /\ Active(s) /\ ~Overflows(s, delta)
        /\ PossiblyResumeIfSendStalled(s, stream[s].window + delta)
        /\ UNCHANGED <<drained, resuming>>
  /\ PostIfEnqueued
  /\ UNCHANGED <<initial_window, requeue, adjust, in_flight, in_io_loop,
                 recvVars>>

Known(s) == stream[s].state \in {"created", "activated", "open"}

\* HandleSetting of SETTINGS_INITIAL_WINDOW_SIZE.
HandleSetting(value) ==
  LET delta == value - initial_window
      todo == {s \in Streams : Known(s)}
      breaks == \E s \in todo : peer.streamCredit[s] + delta > MaxWindow
  IN /\ Idle /\ delta # 0
     /\ Counts
     /\ initial_window' = value
     /\ adjust' = [todo |-> todo, delta |-> delta]
     /\ breaks => ~peer.faulty
     /\ peer' = [peer EXCEPT
          !.faulty = @ \/ breaks, !.lowered = @ \/ delta < 0,
          !.streamCredit = [s \in Streams |-> IF s \in todo THEN @[s] + delta ELSE @[s]]]
     /\ UNCHANGED <<drained, sendVars, resuming, requeue, writeVars, recvVars,
                    stream>>

\* UpdateStreamsSendWindowSize: one iteration; the code takes the streams in
\* the order of their numbers, the created ones last.
AdjustSendWindowSize(s) ==
  LET w == stream[s].window + adjust.delta
  IN /\ drained = "no" /\ s \in adjust.todo
     /\ adjust' = [adjust EXCEPT !.todo = @ \ {s}]
     /\ \/ /\ w > MaxWindow /\ Drain("send window overflow")
           /\ UNCHANGED <<sendVars, queue>>
        \/ /\ w <= MaxWindow /\ PossiblyResumeIfSendStalled(s, w)
           /\ UNCHANGED drained
     /\ PostIfEnqueued
     /\ UNCHANGED <<initial_window, resuming, requeue, in_flight, in_io_loop,
                    recvVars, peer, events>>

\* Mutant: a stream that is still stalled by its own window is forgotten.
RequeuedNone(s) == requeue

Requeued(s) == Append(requeue, s)

\* ResumeSendStalledStreams: one iteration, or its end.
ResumeSendStalledStreams ==
  /\ drained = "no" /\ resuming
  /\ \/ /\ IsSendStalled \/ unstall = <<>>
        /\ unstall' = unstall \o requeue /\ requeue' = <<>>
        /\ resuming' = FALSE
        /\ UNCHANGED <<send_window, queue, stream>>
     \/ /\ ~IsSendStalled /\ unstall # <<>>
        /\ LET s == Head(unstall)
               stalled == Active(s) /\ stream[s].stalled
           IN /\ unstall' = Tail(unstall)
              /\ \/ /\ ~stalled
                    /\ UNCHANGED <<send_window, requeue, queue, stream>>
                 \/ /\ stalled /\ stream[s].window <= 0
                    /\ requeue' = Requeued(s)
                    /\ UNCHANGED <<send_window, queue, stream>>
                 \/ /\ stalled /\ stream[s].window > 0
                    /\ QueueData(s, stream[s].pending, stream[s].window)
                    /\ UNCHANGED requeue
        /\ UNCHANGED resuming
  /\ PostIfEnqueued
  /\ UNCHANGED <<drained, initial_window, adjust, in_flight, in_io_loop,
                 recvVars, peer, events>>

-----------------------------------------------------------------------------
(***************************************************************************)
(* Receiving.                                                              *)
(***************************************************************************)
\* IncreaseRecvWindowSize, of the session and of a stream: of the bytes u that
\* were consumed and not acknowledged, those a WINDOW_UPDATE now returns.
Acked(u, max) == IF u > max \div 2 THEN u ELSE 0

Unacked(u, max) == u - Acked(u, max)

AckSession(q, n) ==
  LET size == Acked(unacked + n, SessionMaxRecv)
  IN IF size = 0 THEN q ELSE Enqueue(q, "HIGHEST", "WINDOW_UPDATE", 0, size)

AckStream(q, s, n) ==
  LET size == Acked(stream[s].unacked + n, StreamMaxRecv)
  IN IF size = 0 THEN q ELSE Enqueue(q, "tunnel", "WINDOW_UPDATE", s, size)

\* Tests of DecreaseRecvWindowSize, of the session and of a stream.
Exceeds(n) == n > recv_window - unacked
ExceedsStream(s, n) == n > stream[s].recv - stream[s].unacked

\* The peer sends n bytes on s.
PeerSends(s, n) ==
  LET breaks == n > peer.window \/ n > peer.streamWindow[s]
  IN /\ Idle /\ s \in peer.open
     /\ Counts
     /\ breaks => ~peer.faulty
     /\ peer' = [peer EXCEPT !.window = @ - n, !.streamWindow[s] = @ - n,
                             !.faulty = @ \/ breaks,
                             !.blamed = @ \/ (Active(s) /\ ExceedsStream(s, n))]

\* Mutant: bytes that no stream takes are not given back to the peer.
DiscardsUnacked(s, n, resets) ==
  /\ \/ resets /\ ResetStream(s, queue)
     \/ ~resets /\ UNCHANGED <<drained, send_window, resuming, queue, stream>>
  /\ UNCHANGED recvVars

\* Bytes that no stream takes are consumed at once; s is reset for them if it
\* is still active.
Discards(s, n, resets) ==
  /\ unacked' = Unacked(unacked + n, SessionMaxRecv)
  /\ \/ /\ resets /\ ResetStream(s, AckSession(queue, n))
     \/ /\ ~resets /\ queue' = AckSession(queue, n)
        /\ UNCHANGED <<drained, send_window, resuming, stream>>
  /\ UNCHANGED <<recv_window, held>>

\* OnStreamFrameData, with DecreaseRecvWindowSize and SpdyStream's
\* OnDataReceived; the delegate queues the buffer.  The resets there for DATA
\* before the headers, behind the trailers or on a half-closed stream are left
\* out: to the windows they are the second disjunct, a reset with the bytes
\* given back.
OnStreamFrameData(s, n) ==
  /\ PeerSends(s, n)
  /\ \/ /\ Exceeds(n) /\ Drain("receive window exceeded")
        /\ UNCHANGED <<send_window, resuming, queue, recvVars>>
     \/ /\ ~Exceeds(n) /\ ~(Active(s) /\ ~ExceedsStream(s, n))
        /\ Discards(s, n, Active(s))
     \/ /\ ~Exceeds(n) /\ Active(s) /\ ~ExceedsStream(s, n)
        /\ recv_window' = recv_window - n
        /\ stream' = [stream EXCEPT ![s].recv = @ - n]
        /\ held' = [held EXCEPT ![s] = @ + n]
        /\ UNCHANGED <<drained, send_window, resuming, queue, unacked>>
  /\ PostIfEnqueued
  /\ UNCHANGED <<initial_window, unstall, requeue, adjust, in_flight, in_io_loop>>

\* OnStreamPadding and OnPaddingConsumed: received and consumed at once.
OnStreamPadding(s, n) ==
  /\ PeerSends(s, n)
  /\ \/ /\ Exceeds(n) /\ Drain("receive window exceeded")
        /\ UNCHANGED <<send_window, resuming, queue, recvVars>>
     \/ /\ ~Exceeds(n) /\ ~(Active(s) /\ ~ExceedsStream(s, n))
        /\ Discards(s, n, Active(s))
     \/ /\ ~Exceeds(n) /\ Active(s) /\ ~ExceedsStream(s, n)
        /\ unacked' = Unacked(unacked + n, SessionMaxRecv)
        /\ stream' = [stream EXCEPT ![s].unacked = Unacked(@ + n, StreamMaxRecv)]
        /\ queue' = AckStream(AckSession(queue, n), s, n)
        /\ UNCHANGED <<drained, send_window, resuming, recv_window, held>>
  /\ PostIfEnqueued
  /\ UNCHANGED <<initial_window, unstall, requeue, adjust, in_flight, in_io_loop>>

\* OnReadBufferConsumed: the user reads n bytes, or the socket drops them.
OnReadBufferConsumed(s, n) ==
  /\ Idle /\ n <= held[s] /\ held' = [held EXCEPT ![s] = @ - n]
  /\ recv_window' = recv_window + n
  /\ unacked' = Unacked(unacked + n, SessionMaxRecv)
  /\ IF Active(s)
     THEN /\ stream' = [stream EXCEPT ![s].recv = @ + n,
                                      ![s].unacked = Unacked(@ + n, StreamMaxRecv)]
          /\ queue' = AckStream(AckSession(queue, n), s, n)
     ELSE queue' = AckSession(queue, n) /\ UNCHANGED stream
  /\ PostIfEnqueued
  /\ UNCHANGED <<drained, initial_window, sendVars, loopVars, in_flight,
                 in_io_loop, peer, events>>

\* OnRstStream; one of its error codes is about the whole session.
OnRstStream(s) ==
  /\ Idle /\ s \in peer.open
  /\ peer' = [peer EXCEPT !.open = @ \ {s}]
  /\ \/ Active(s) /\ CloseStream(s, send_window, queue)
     \/ /\ Active(s) /\ Drain("HTTP_1_1_REQUIRED")
        /\ UNCHANGED <<send_window, resuming, queue>>
     \/ /\ ~Active(s)
        /\ UNCHANGED <<drained, send_window, resuming, queue, stream>>
  /\ UNCHANGED <<initial_window, unstall, requeue, adjust, in_flight,
                 write_state, in_io_loop, recvVars, events>>

\* A drained session takes no more part.
Drained == drained # "no" /\ UNCHANGED vars

WriteLoop == PumpWriteLoop \/ DoWrite
Loops == ResumeSendStalledStreams \/ \E s \in Streams : AdjustSendWindowSize(s)
User(s) ==
  \/ SendRequestHeaders(s) \/ Cancel(s)
  \/ \E n \in 1..MaxLen : SendData(s, n) \/ OnReadBufferConsumed(s, n)
Peer(s) ==
  \/ OnRstStream(s)
  \/ \E n \in 0..MaxLen : OnStreamWindowUpdate(s, n)
  \/ \E n \in 1..MaxLen : OnStreamFrameData(s, n) \/ OnStreamPadding(s, n)

Next ==
  \/ WriteLoop \/ Loops \/ WriteDone \/ WriteFails \/ Drained
  \/ \E s \in Streams : User(s) \/ Peer(s)
  \/ \E n \in 0..MaxLen : OnSessionWindowUpdate(n)
  \/ \E value \in SettingValues : HandleSetting(value)

\* The thread runs what is posted and finishes its loops; the peer takes what
\* is written and gives new credit when the old is used up.
Fairness ==
  /\ WF_vars(WriteLoop) /\ WF_vars(Loops) /\ WF_vars(WriteDone)
  /\ WF_vars(peer.credit <= 0 /\ OnSessionWindowUpdate(1))
  /\ \A s \in Streams :
       WF_vars(peer.streamCredit[s] <= 0 /\ OnStreamWindowUpdate(s, 1))

Spec == Init /\ [][Next]_vars /\ Fairness

-----------------------------------------------------------------------------
\* All that is queued or being written.
Outgoing == {in_flight} \cup queue
\* The bytes of those of some types, of some streams.
Total(types, streams) ==
  Bytes({f \in Outgoing : f.type \in types /\ f.stream \in streams})

(***************************************************************************)
(* No byte of a send window is lost or made up: the window of the session, *)
(* and of each stream, and what is queued or being written against it are  *)
(* together what the peer still allows.  Discarded frames, split writes,   *)
(* padded RST_STREAMs, streams closed while others are resumed and changes *)
(* of the initial window all keep the account                              *)
(* (OnWriteBufferConsumed, CreateDataBuffer, EnqueueResetStreamFrame).     *)
(***************************************************************************)
SendWindowsExact ==
  drained = "no" =>
    /\ send_window >= 0
    /\ send_window + Total({"DATA", "RST_STREAM"}, Streams) = peer.credit
    /\ \A s \in Streams : Known(s) /\ s \notin adjust.todo =>
         stream[s].window + Total({"DATA"}, {s})
           = peer.streamCredit[s]

(***************************************************************************)
(* Between two events every write in progress will be woken up: a stalled  *)
(* stream is in the unstall queue and has a reason to wait, and one that   *)
(* is not stalled has exactly one frame queued or being written            *)
(* (QueueSendStalledStream, ResumeSendStalledStreams,                      *)
(* PossiblyResumeIfSendStalled, OnDataSent).                               *)
(***************************************************************************)
EveryWriteHasWaker ==
  Idle => \A s \in Streams : Active(s) /\ stream[s].pending > 0 =>
    IF stream[s].stalled
    THEN /\ s \in ToSet(unstall)
         /\ IsSendStalled \/ stream[s].window <= 0
    ELSE \E f \in Outgoing :
           {g \in Outgoing : g.type = "DATA" /\ g.stream = s} = {f}

(***************************************************************************)
(* The session neither breaks the rules of flow control nor blames a peer  *)
(* that kept them.  The peer never gets a DATA frame, or the padding sent  *)
(* with a RST_STREAM, beyond the window it gave to the session, nor a DATA *)
(* frame beyond the window of its stream, unless it lowered that window    *)
(* with a setting: then frames already queued exceed it.  And a session is *)
(* not drained and a stream not reset for a window that overflowed or was  *)
(* exceeded, unless the peer gave or sent too much.                        *)
(***************************************************************************)
FlowControlKept ==
  /\ ~peer.overrun
  /\ peer.blamed \/ drained \in {"send window overflow", "receive window exceeded"}
       => peer.faulty

(***************************************************************************)
(* The peer is never starved by bytes nobody holds: when all that was      *)
(* received is consumed and no WINDOW_UPDATE is under way, it may send at  *)
(* least half of the session's window, whatever became of the streams the  *)
(* bytes came on (OnStreamFrameData, OnStreamPadding,                      *)
(* OnReadBufferConsumed), and half of the window of each stream.           *)
(***************************************************************************)
ReceiveWindowReturned ==
  drained = "no" =>
    /\ (\A s \in Streams : held[s] = 0)
         /\ Total({"WINDOW_UPDATE"}, {0}) = 0
       => 2 * peer.window >= SessionMaxRecv
    /\ \A s \in Streams :
         Active(s) /\ held[s] = 0
           /\ Total({"WINDOW_UPDATE"}, {s}) = 0
         => 2 * peer.streamWindow[s] >= StreamMaxRecv

(***************************************************************************)
(* A RST_STREAM is the last the peer hears of a stream: no frame of it is  *)
(* queued behind one or after one was sent (ResetStreamIterator queues it  *)
(* before the pending writes are removed).                                 *)
(***************************************************************************)
ResetIsLast ==
  drained = "no" =>
    \A f \in Outgoing :
      /\ f.stream \notin peer.reset
      /\ f.type = "RST_STREAM" =>
           \A g \in Outgoing : g.stream = f.stream => ~Before(f, g)

(***************************************************************************)
(* Every write ends: all of it is sent, or the stream is closed, or the    *)
(* session drained, however often the stream stalls on the way.            *)
(***************************************************************************)
WritesEnd ==
  \A s \in Streams : stream[s].pending > 0 ~> stream[s].pending = 0
=============================================================================
