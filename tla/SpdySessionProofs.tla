-------------------------- MODULE SpdySessionProofs --------------------------
(***************************************************************************)
(* Proofs about SpdySession, for any number of streams, any windows, frame *)
(* sizes and paddings: IInv is inductive, and the safety properties of the *)
(* session follow from it.                                                 *)
(*                                                                         *)
(* The bytes of a set of frames are counted as the elements of a set, one  *)
(* for each byte, so that what is queued, written or discarded adds up by  *)
(* the theorems on finite sets.                                            *)
(***************************************************************************)
EXTENDS SpdySession, FiniteSetTheorems, WellFoundedInduction, TLAPS

\* The bytes of a set of frames, each a frame and a place in it.
BytesOf(frames) == UNION {{f} \X (1..f.size) : f \in frames}

\* The bytes that a set of frames carries: of the session's window, of the
\* window of a stream, and those that WINDOW_UPDATEs give back to the peer
\* (0 is the session).
Of(F, types, streams) == {f \in F : f.type \in types /\ f.stream \in streams}
SessionOut(F) == Bytes(Of(F, {"DATA", "RST_STREAM"}, Streams))
StreamOut(F, s) == Bytes(Of(F, {"DATA"}, {s}))
UpdateOut(F, s) == Bytes(Of(F, {"WINDOW_UPDATE"}, {s}))
DataOf(F, s) == {f \in F : f.type = "DATA" /\ f.stream = s}

\* The bytes received and not yet consumed, each a stream and a number.
HeldBytes(h) == UNION {{s} \X (1..h[s]) : s \in Streams}

FrameTypes == {"HEADERS", "DATA", "RST_STREAM", "WINDOW_UPDATE"}
QueuedFrame == [type : FrameTypes, stream : Streams \cup {0}, size : Nat,
                priority : Priorities, number : Nat \ {0}]
WrittenFrame == [type : FrameTypes, stream : Streams \cup {0}, size : Nat,
                 priority : Priorities, number : {0}]
States == {"none", "created", "activated", "open", "closed"}
StreamType == [state : States, window : Int, stalled : BOOLEAN, pending : Nat,
               recv : Int, unacked : Nat]
PeerType == [credit : Int, window : Int, streamCredit : [Streams -> Int],
             streamWindow : [Streams -> Int], open : SUBSET Streams,
             reset : SUBSET Streams, faulty : BOOLEAN, overrun : BOOLEAN,
             blamed : BOOLEAN, lowered : BOOLEAN]

\* A queue of frames: they are numbered and carry finitely many bytes.
IsQueue(q) ==
  /\ q \subseteq QueuedFrame
  /\ \E n \in Nat : \A f \in q : f.number <= n
  /\ IsFiniteSet(BytesOf(q))

Types ==
  /\ send_window \in Nat /\ initial_window \in 0..MaxWindow
  /\ unstall \in Seq(Streams) /\ requeue \in Seq(Streams)
  /\ {resuming, in_io_loop} \subseteq BOOLEAN
  /\ adjust \in [todo : SUBSET Streams, delta : Int]
  /\ IsQueue(queue) /\ in_flight \in WrittenFrame \cup {NoFrame}
  /\ recv_window \in Int /\ unacked \in Nat
  /\ stream \in [Streams -> StreamType]
  /\ held \in [Streams -> Nat] /\ IsFiniteSet(HeldBytes(held))
  /\ peer \in PeerType
  /\ events \in Nat

\* Only one loop runs at a time, and a frame is in flight only while the write
\* loop waits for it.
OneLoop ==
  /\ in_io_loop => write_state = "DO_WRITE"
  /\ write_state # "DO_WRITE_COMPLETE" => in_flight = NoFrame
  /\ adjust.todo # {} => ~resuming
  /\ \A s \in adjust.todo : stream[s].state \in {"created", "activated", "open"}
  /\ requeue # <<>> => resuming

\* Which frames a stream may have in each of its states.
FrameOK(f) ==
  /\ f.stream = 0 => f.type \in {"WINDOW_UPDATE", "none"} /\ f.priority = "HIGHEST"
  /\ f.stream # 0 => f.priority = "tunnel" /\ stream[f.stream].state # "none"
  /\ f.type \in {"DATA", "WINDOW_UPDATE"} /\ f.stream # 0
       => stream[f.stream].state # "created"
  /\ f.type = "RST_STREAM" => stream[f.stream].state = "closed"
  /\ f.type = "HEADERS" => (stream[f.stream].state = "created" <=> f.number # 0)
FramesOK ==
  /\ \A f \in Outgoing : FrameOK(f)
  /\ \A f, g \in Outgoing :
       f.type = "HEADERS" /\ g.type = "HEADERS" /\ f.stream = g.stream => f = g
  /\ \A s \in peer.open : stream[s].state \notin {"none", "created"}
  /\ \A s \in peer.reset : stream[s].state = "closed"

\* What ResetIsLast says.
ResetOK ==
  \A f \in Outgoing :
    /\ f.stream \notin peer.reset
    /\ f.type = "RST_STREAM" =>
         \A g \in Outgoing : g.stream = f.stream => ~Before(f, g)

\* The account of the send windows, with the change that
\* UpdateStreamsSendWindowSize still has to make, and what the peer allows.
SessionAccount == send_window + SessionOut(Outgoing) = peer.credit
StreamAccount(s) ==
  /\ stream[s].state \in {"created", "activated", "open"} =>
       stream[s].window + (IF s \in adjust.todo THEN adjust.delta ELSE 0)
         + StreamOut(Outgoing, s) = peer.streamCredit[s]
  /\ ~peer.lowered =>
       /\ stream[s].state # "closed" => stream[s].window >= 0
       /\ stream[s].state = "closed" =>
            StreamOut(Outgoing, s) <= peer.streamCredit[s]
Rules ==
  /\ ~peer.lowered /\ adjust.todo # {} => adjust.delta >= 0
  /\ ~peer.faulty => /\ peer.credit <= MaxWindow
                     /\ \A s \in Streams : peer.streamCredit[s] <= MaxWindow
SendOK == SessionAccount /\ Rules /\ \A s \in Streams : StreamAccount(s)

\* The account of the receive windows.
SessionRecv ==
  /\ recv_window - unacked = peer.window + UpdateOut(Outgoing, 0)
  /\ recv_window + Cardinality(HeldBytes(held)) = SessionMaxRecv
  /\ unacked <= SessionMaxRecv \div 2
StreamRecv(s) ==
  stream[s].state # "closed" =>
    /\ stream[s].recv - stream[s].unacked
         = peer.streamWindow[s] + UpdateOut(Outgoing, s)
    /\ stream[s].recv + held[s] = StreamMaxRecv
    /\ stream[s].unacked <= StreamMaxRecv \div 2
    /\ stream[s].state \in {"none", "created"} => held[s] = 0
RecvOK == SessionRecv /\ \A s \in Streams : StreamRecv(s)

\* A write in progress waits for its frame or in the unstall queue.
Waits(s, w) ==
  /\ s \in ToSet(unstall) \cup ToSet(requeue)
  /\ IsSendStalled \/ w <= 0 \/ (resuming /\ s \in ToSet(unstall))
WakerOK(s) ==
  stream[s].state # "closed" =>
    /\ stream[s].state # "open" => stream[s].pending = 0
    /\ stream[s].pending = 0 => ~stream[s].stalled
    /\ stream[s].pending = 0 \/ stream[s].stalled => DataOf(Outgoing, s) = {}
    /\ stream[s].stalled => Waits(s, stream[s].window)
    /\ stream[s].pending > 0 /\ ~stream[s].stalled =>
         \E f \in Outgoing : DataOf(Outgoing, s) = {f}
WakersOK == \A s \in Streams : WakerOK(s)

Live == Types /\ OneLoop /\ FramesOK /\ ResetOK /\ SendOK /\ RecvOK /\ WakersOK
IInv == FlowControlKept /\ (drained = "no" => Live)
-----------------------------------------------------------------------------
(***************************************************************************)
(* The bytes of a set of frames.                                           *)
(***************************************************************************)
\* What the bytes of a frame and of two sets of frames are.
LEMMA BytesUnion ==
  ASSUME NEW S, NEW T
  PROVE  /\ BytesOf(S \cup T) = BytesOf(S) \cup BytesOf(T)
         /\ S \cap T = {} => BytesOf(S) \cap BytesOf(T) = {}
         /\ BytesOf({}) = {}
BY DEF BytesOf

\* A frame has as many bytes as its size says.
LEMMA BytesOne ==
  ASSUME NEW f, f.size \in Nat
  PROVE  /\ IsFiniteSet(BytesOf({f}))
         /\ Cardinality(BytesOf({f})) = f.size
<1>1. BytesOf({f}) = {f} \X (1..f.size)
  BY DEF BytesOf
<1>2. IsFiniteSet({f}) /\ Cardinality({f}) = 1
  BY FS_Singleton
<1>3. IsFiniteSet(1..f.size) /\ Cardinality(1..f.size) = f.size
  BY FS_Interval
<1>4. /\ IsFiniteSet({f} \X (1..f.size))
      /\ Cardinality({f} \X (1..f.size)) = 1 * f.size
  BY <1>2, <1>3, FS_Product, ZenonT(40)
<1>5. 1 * f.size = f.size
  OBVIOUS
<1>. QED
  BY <1>1, <1>4, <1>5

\* Two sets of frames without a common one have their bytes together.
LEMMA BytesSum ==
  ASSUME NEW S, NEW T, S \cap T = {},
         IsFiniteSet(BytesOf(S)), IsFiniteSet(BytesOf(T))
  PROVE  /\ IsFiniteSet(BytesOf(S \cup T))
         /\ Bytes(S) \in Nat /\ Bytes(T) \in Nat
         /\ Bytes(S \cup T) = Bytes(S) + Bytes(T)
<1>1. /\ IsFiniteSet(BytesOf(S) \cup BytesOf(T))
      /\ Cardinality(BytesOf(S) \cup BytesOf(T))
           = Cardinality(BytesOf(S)) + Cardinality(BytesOf(T))
               - Cardinality(BytesOf(S) \cap BytesOf(T))
  BY FS_Union
<1>2. Cardinality(BytesOf(S) \cap BytesOf(T)) = 0
  BY BytesUnion, FS_EmptySet
<1>3. Cardinality(BytesOf(S)) \in Nat /\ Cardinality(BytesOf(T)) \in Nat
  BY FS_CardinalityType
<1>4. BytesOf(S \cup T) = BytesOf(S) \cup BytesOf(T)
  BY BytesUnion
<1>5. /\ Bytes(S) = Cardinality(BytesOf(S)) /\ Bytes(T) = Cardinality(BytesOf(T))
      /\ Bytes(S \cup T) = Cardinality(BytesOf(S \cup T))
  BY DEF Bytes, BytesOf
<1>6. ASSUME NEW a \in Nat, NEW b \in Nat PROVE a + b - 0 = a + b
  OBVIOUS
<1>7. Bytes(S \cup T) = Bytes(S) + Bytes(T)
  BY <1>1, <1>2, <1>3, <1>4, <1>5, <1>6
<1>. QED
  BY <1>1, <1>3, <1>4, <1>5, <1>7

\* Part of a set of frames has finitely many bytes if all have.
LEMMA BytesPart ==
  ASSUME NEW S, NEW T, T \subseteq S, IsFiniteSet(BytesOf(S))
  PROVE  IsFiniteSet(BytesOf(T)) /\ Bytes(T) \in Nat
<1>1. BytesOf(T) \subseteq BytesOf(S)
  BY DEF BytesOf
<1>2. IsFiniteSet(BytesOf(T))
  BY <1>1, FS_Subset
<1>. QED
  BY <1>2, FS_CardinalityType DEF Bytes, BytesOf

\* Bytes of one more frame.
LEMMA BytesAdd ==
  ASSUME NEW S, NEW f, f \notin S, f.size \in Nat, IsFiniteSet(BytesOf(S))
  PROVE  /\ IsFiniteSet(BytesOf(S \cup {f}))
         /\ Bytes(S) \in Nat
         /\ Bytes(S \cup {f}) = Bytes(S) + f.size
<1>1. S \cap {f} = {}
  OBVIOUS
<1>2. IsFiniteSet(BytesOf({f})) /\ Bytes({f}) = f.size
  BY BytesOne DEF Bytes, BytesOf
<1>. QED
  BY <1>1, <1>2, BytesSum

\* No frames, no bytes.
LEMMA BytesNone == IsFiniteSet(BytesOf({})) /\ Bytes({}) = 0
BY FS_EmptySet, BytesUnion DEF Bytes, BytesOf

-----------------------------------------------------------------------------
(***************************************************************************)
(* What the operations on the queue do to the bytes under way.             *)
(***************************************************************************)
\* A frame that was taken from the queue, or none; all that is under way.
IsWritten(w) == w \in WrittenFrame \cup {NoFrame}
Out(q, w) == {w} \cup q

\* The bytes under way are numbers.
OutNat(F) ==
  /\ SessionOut(F) \in Nat
  /\ \A t \in Streams : StreamOut(F, t) \in Nat
  /\ \A t \in Streams \cup {0} : UpdateOut(F, t) \in Nat

\* From the frames F to the frames G, n bytes of a type on s are added.
Adds(F, G, type, s, n) ==
  /\ SessionOut(G) = SessionOut(F) + (IF type \in {"DATA", "RST_STREAM"} THEN n ELSE 0)
  /\ \A t \in Streams :
       StreamOut(G, t) = StreamOut(F, t) + (IF type = "DATA" /\ t = s THEN n ELSE 0)
  /\ \A t \in Streams \cup {0} :
       UpdateOut(G, t)
         = UpdateOut(F, t) + (IF type = "WINDOW_UPDATE" /\ t = s THEN n ELSE 0)

\* A frame that is being written has a size and the number 0.
LEMMA WrittenFacts ==
  ASSUME NEW w, IsWritten(w)
  PROVE  w.size \in Nat /\ w.number = 0 /\ w.stream \in Streams \cup {0}
BY DEF IsWritten, WrittenFrame, NoFrame, Frame

\* A frame in the queue has a size and a number.
LEMMA QueuedFacts ==
  ASSUME NEW q, IsQueue(q), NEW f \in q
  PROVE  /\ f \in QueuedFrame /\ f.size \in Nat /\ f.number \in Nat \ {0}
         /\ f.stream \in Streams \cup {0} /\ f.type \in FrameTypes
         /\ f.priority \in Priorities
BY DEF IsQueue, QueuedFrame

\* All that is under way has finitely many bytes.
LEMMA OutFinite ==
  ASSUME NEW q, NEW w, IsQueue(q), IsWritten(w)
  PROVE  w \notin q /\ IsFiniteSet(BytesOf(Out(q, w)))
<1>1. w \notin q
  BY WrittenFacts, QueuedFacts
<1>2. Out(q, w) = q \cup {w}
  BY DEF Out
<1>. QED
  BY <1>1, <1>2, WrittenFacts, BytesAdd DEF IsQueue

\* So has each part of it.
LEMMA OfFinite ==
  ASSUME NEW q, NEW w, IsQueue(q), IsWritten(w), NEW T, NEW R
  PROVE  /\ IsFiniteSet(BytesOf(Of(Out(q, w), T, R)))
         /\ Bytes(Of(Out(q, w), T, R)) \in Nat
<1>1. Of(Out(q, w), T, R) \subseteq Out(q, w)
  BY DEF Of
<1>. QED
  BY <1>1, OutFinite, BytesPart

\* The bytes under way are numbers.
LEMMA OutsAreNat ==
  ASSUME NEW q, NEW w, IsQueue(q), IsWritten(w)
  PROVE  OutNat(Out(q, w))
BY OfFinite DEF OutNat, SessionOut, StreamOut, UpdateOut

\* One more frame, for each choice of types and streams.
LEMMA OfAdd ==
  ASSUME NEW S, NEW f, f \notin S, f.size \in Nat, NEW T, NEW R,
         IsFiniteSet(BytesOf(Of(S, T, R)))
  PROVE  Bytes(Of(S \cup {f}, T, R))
           = Bytes(Of(S, T, R)) + (IF f.type \in T /\ f.stream \in R THEN f.size ELSE 0)
<1>1. CASE f.type \in T /\ f.stream \in R
  <2>1. Of(S \cup {f}, T, R) = Of(S, T, R) \cup {f} /\ f \notin Of(S, T, R)
    BY <1>1 DEF Of
  <2>. QED
    BY <1>1, <2>1, BytesAdd
<1>2. CASE ~(f.type \in T /\ f.stream \in R)
  <2>1. Of(S \cup {f}, T, R) = Of(S, T, R)
    BY <1>2 DEF Of
  <2>2. Bytes(Of(S, T, R)) \in Nat
    BY BytesPart
  <2>. QED
    BY <1>2, <2>1, <2>2
<1>. QED
  BY <1>1, <1>2

\* One more frame of a stream.
LEMMA OutAdd ==
  ASSUME NEW S, NEW f, f \notin S, f.size \in Nat, f.type \in FrameTypes \cup {"none"},
         f.stream \in Streams \cup {0},
         f.type \in {"DATA", "RST_STREAM"} => f.stream \in Streams,
         \A T, R : IsFiniteSet(BytesOf(Of(S, T, R)))
  PROVE  Adds(S, S \cup {f}, f.type, f.stream, f.size)
<1>1. ASSUME NEW T, NEW R
      PROVE Bytes(Of(S \cup {f}, T, R))
              = Bytes(Of(S, T, R)) + (IF f.type \in T /\ f.stream \in R THEN f.size ELSE 0)
  BY OfAdd
<1>2. Bytes(Of(S \cup {f}, {"DATA", "RST_STREAM"}, Streams))
        = Bytes(Of(S, {"DATA", "RST_STREAM"}, Streams))
            + (IF f.type \in {"DATA", "RST_STREAM"} /\ f.stream \in Streams THEN f.size ELSE 0)
  BY <1>1
<1>3. ASSUME NEW t
      PROVE  Bytes(Of(S \cup {f}, {"DATA"}, {t}))
               = Bytes(Of(S, {"DATA"}, {t}))
                   + (IF f.type \in {"DATA"} /\ f.stream \in {t} THEN f.size ELSE 0)
  BY <1>1
<1>4. ASSUME NEW t
      PROVE  Bytes(Of(S \cup {f}, {"WINDOW_UPDATE"}, {t}))
               = Bytes(Of(S, {"WINDOW_UPDATE"}, {t}))
                   + (IF f.type \in {"WINDOW_UPDATE"} /\ f.stream \in {t} THEN f.size ELSE 0)
  BY <1>1
<1>5. (f.type \in {"DATA", "RST_STREAM"} /\ f.stream \in Streams)
        <=> f.type \in {"DATA", "RST_STREAM"}
  OBVIOUS
<1>6. ASSUME NEW t
      PROVE  /\ (f.type \in {"DATA"} /\ f.stream \in {t}) <=> (f.type = "DATA" /\ t = f.stream)
             /\ (f.type \in {"WINDOW_UPDATE"} /\ f.stream \in {t})
                  <=> (f.type = "WINDOW_UPDATE" /\ t = f.stream)
  OBVIOUS
<1>. QED
  BY <1>2, <1>3, <1>4, <1>5, <1>6, Zenon DEF Adds, SessionOut, StreamOut, UpdateOut

\* A set of naturals that is not empty has a least element.
LEMMA Least ==
  ASSUME NEW S, S \subseteq Nat, S # {}
  PROVE  \E m \in S : \A k \in S : m <= k
<1>1. PICK m \in S : \A k \in S : ~(<<k, m>> \in OpToRel(<, Nat))
  BY NatLessThanWellFounded, WFMin
<1>2. \A k \in S : ~(k < m)
  BY <1>1 DEF OpToRel
<1>. QED
  BY <1>2

\* A set of naturals with a bound has a greatest element.
LEMMA Greatest ==
  ASSUME NEW S, S \subseteq Nat, S # {}, NEW n \in Nat, \A k \in S : k <= n
  PROVE  Max(S) \in S /\ \A k \in S : k <= Max(S)
<1>. DEFINE B == {b \in Nat : \A k \in S : k <= b}
<1>1. PICK b \in B : \A c \in B : b <= c
  <2>1. B \subseteq Nat /\ B # {}
    OBVIOUS
  <2>. QED
    BY <2>1, Least
<1>2. b \in S
  <2>1. SUFFICES ASSUME b \notin S PROVE FALSE
    OBVIOUS
  <2>2. PICK k \in S : TRUE
    OBVIOUS
  <2>3. b # 0
    BY <2>1, <2>2
  <2>4. b - 1 \in Nat /\ \A j \in S : j <= b - 1
    BY <2>1, <2>3
  <2>. QED
    BY <1>1, <2>4
<1>. QED
  BY <1>1, <1>2 DEF Max

\* The frame f is put at the end of q.
Appended(q, q2, f) ==
  /\ q2 = q \cup {f} /\ f \in QueuedFrame /\ f \notin q
  /\ \A g \in q : g.priority = f.priority => g.number < f.number

\* A frame added to a queue gives a queue.
LEMMA AppendedQueue ==
  ASSUME NEW q, IsQueue(q), NEW q2, NEW f, Appended(q, q2, f)
  PROVE  IsQueue(q2)
<1>1. PICK n \in Nat : \A g \in q : g.number <= n
  BY DEF IsQueue
<1>2. f.number \in Nat /\ f.size \in Nat
  BY DEF Appended, QueuedFrame
<1>3. n + f.number \in Nat /\ \A g \in q2 : g.number <= n + f.number
  BY <1>1, <1>2, QueuedFacts DEF Appended
<1>4. IsFiniteSet(BytesOf(q2))
  BY <1>2, BytesAdd DEF Appended, IsQueue
<1>. QED
  BY <1>3, <1>4 DEF IsQueue, Appended

\* It adds the frame's bytes to what is under way.
LEMMA AppendedAdds ==
  ASSUME NEW q, IsQueue(q), NEW w, IsWritten(w), NEW q2, NEW f, Appended(q, q2, f),
         f.type \in {"DATA", "RST_STREAM"} => f.stream \in Streams
  PROVE  Adds(Out(q, w), Out(q2, w), f.type, f.stream, f.size)
<1>1. Out(q2, w) = Out(q, w) \cup {f} /\ f \notin Out(q, w)
  BY WrittenFacts DEF Out, Appended, QueuedFrame
<1>2. \A T, R : IsFiniteSet(BytesOf(Of(Out(q, w), T, R)))
  BY OfFinite
<1>3. f.size \in Nat /\ f.type \in FrameTypes /\ f.stream \in Streams \cup {0}
  BY DEF Appended, QueuedFrame
<1>. QED
  BY <1>1, <1>2, <1>3, OutAdd

\* Enqueue puts a frame at the end.
LEMMA EnqueueAppends ==
  ASSUME NEW q, IsQueue(q), NEW p \in Priorities, NEW type \in FrameTypes,
         NEW s \in Streams \cup {0}, NEW size \in Nat
  PROVE  \E n \in Nat \ {0} :
           Appended(q, Enqueue(q, p, type, s, size), Frame(type, s, size, p, n))
<1>. DEFINE numbers == {0} \cup {f.number : f \in {g \in q : g.priority = p}}
            last == LastNumber(q, p)
            new == Frame(type, s, size, p, last + 1)
<1>1. PICK n \in Nat : \A g \in q : g.number <= n
  BY DEF IsQueue
<1>2. numbers \subseteq Nat /\ numbers # {} /\ \A k \in numbers : k <= n
  BY <1>1, QueuedFacts
<1>3. last \in Nat /\ \A k \in numbers : k <= last
  <2>. HIDE DEF numbers
  <2>1. Max(numbers) \in numbers /\ \A k \in numbers : k <= Max(numbers)
    BY <1>2, Greatest
  <2>2. last = Max(numbers)
    BY DEF LastNumber, numbers
  <2>. QED
    BY <1>2, <2>1, <2>2
<1>4. \A g \in q : g.priority = p => g.number < last + 1
  <2>1. \A g \in q : g.priority = p => g.number \in numbers
    OBVIOUS
  <2>2. \A g \in q : g.number \in Nat
    BY QueuedFacts
  <2>. HIDE DEF numbers, last
  <2>. QED
    BY <1>2, <1>3, <2>1, <2>2
<1>5. new \in QueuedFrame /\ new.priority = p /\ new.number = last + 1
  <2>. HIDE DEF numbers, last
  <2>. QED
    BY <1>3 DEF Frame, QueuedFrame
<1>6. new \notin q
  <2>. HIDE DEF numbers, last, new
  <2>. QED
    BY <1>3, <1>4, <1>5
<1>7. Enqueue(q, p, type, s, size) = q \cup {new}
  BY DEF Enqueue
<1>8. Appended(q, Enqueue(q, p, type, s, size), new)
  <2>. HIDE DEF numbers, last, new
  <2>. QED
    BY <1>4, <1>5, <1>6, <1>7 DEF Appended
<1>. QED
  <2>. HIDE DEF last
  <2>. QED
  BY <1>3, <1>8

\* A part of a set of frames and the rest, for each choice of types and streams.
LEMMA OfSplit ==
  ASSUME NEW S, NEW U, U \subseteq S, NEW T, NEW R, IsFiniteSet(BytesOf(S))
  PROVE  /\ Bytes(Of(S \ U, T, R)) \in Nat /\ Bytes(Of(U, T, R)) \in Nat
         /\ Bytes(Of(S, T, R)) = Bytes(Of(S \ U, T, R)) + Bytes(Of(U, T, R))
<1>1. /\ Of(S, T, R) = Of(S \ U, T, R) \cup Of(U, T, R)
      /\ Of(S \ U, T, R) \cap Of(U, T, R) = {}
      /\ Of(S \ U, T, R) \subseteq S /\ Of(U, T, R) \subseteq S
  BY DEF Of
<1>2. IsFiniteSet(BytesOf(Of(S \ U, T, R))) /\ IsFiniteSet(BytesOf(Of(U, T, R)))
  BY <1>1, BytesPart
<1>. QED
  BY <1>1, <1>2, BytesSum

\* A part of a queue is a queue.
LEMMA QueuePart ==
  ASSUME NEW q, IsQueue(q), NEW q2, q2 \subseteq q
  PROVE  IsQueue(q2)
BY BytesPart DEF IsQueue

\* RemovePendingWritesForStream takes the bytes away that OnWriteBufferConsumed
\* gives back.
LEMMA RemoveAdds ==
  ASSUME NEW q, IsQueue(q), NEW w, IsWritten(w), NEW s \in Streams
  PROVE  /\ IsQueue(RemovePendingWritesForStream(q, s))
         /\ Discarded(q, s) \in Nat
         /\ Adds(Out(q, w), Out(RemovePendingWritesForStream(q, s), w),
                 "DATA", s, -Discarded(q, s))
<1>. DEFINE q2 == RemovePendingWritesForStream(q, s)
            U == {f \in q : OfStream(f, s)}
            S == Out(q, w)
<1>1. q2 \subseteq q
  BY DEF RemovePendingWritesForStream
<1>2. U \subseteq S /\ S \ U = Out(q2, w) /\ IsFiniteSet(BytesOf(S))
  BY OutFinite DEF RemovePendingWritesForStream, Out
<1>3. ASSUME NEW T, NEW R
      PROVE  /\ Bytes(Of(Out(q2, w), T, R)) \in Nat /\ Bytes(Of(U, T, R)) \in Nat
             /\ Bytes(Of(S, T, R)) = Bytes(Of(Out(q2, w), T, R)) + Bytes(Of(U, T, R))
  <2>. HIDE DEF U, S, q2
  <2>. QED
    BY <1>2, OfSplit
<1>4. /\ Of(U, {"DATA", "RST_STREAM"}, Streams) = {f \in q : f.type = "DATA" /\ f.stream = s}
      /\ Of(U, {"DATA"}, {s}) = {f \in q : f.type = "DATA" /\ f.stream = s}
      /\ \A t \in Streams : t # s => Of(U, {"DATA"}, {t}) = {}
      /\ \A t \in Streams \cup {0} : Of(U, {"WINDOW_UPDATE"}, {t}) = {}
  BY DEF Of, OfStream
<1>5. /\ Bytes(Of(U, {"DATA", "RST_STREAM"}, Streams)) = Discarded(q, s)
      /\ Bytes(Of(U, {"DATA"}, {s})) = Discarded(q, s)
      /\ \A t \in Streams : t # s => Bytes(Of(U, {"DATA"}, {t})) = 0
      /\ \A t \in Streams \cup {0} : Bytes(Of(U, {"WINDOW_UPDATE"}, {t})) = 0
  BY <1>4, BytesNone, Zenon DEF Discarded
<1>. HIDE DEF U, q2, S
<1>6. Discarded(q, s) \in Nat
  BY <1>3, <1>5
<1>7. SessionOut(Out(q2, w)) = SessionOut(S) + (-Discarded(q, s))
  BY <1>3, <1>5 DEF SessionOut
<1>8. ASSUME NEW t \in Streams
      PROVE  StreamOut(Out(q2, w), t)
               = StreamOut(S, t) + (IF "DATA" = "DATA" /\ t = s THEN -Discarded(q, s) ELSE 0)
  BY <1>3, <1>5 DEF StreamOut
<1>9. ASSUME NEW t \in Streams \cup {0}
      PROVE  UpdateOut(Out(q2, w), t) = UpdateOut(S, t) + 0
  BY <1>3, <1>5 DEF UpdateOut
<1>10. Adds(S, Out(q2, w), "DATA", s, -Discarded(q, s))
  BY <1>7, <1>8, <1>9 DEF Adds
<1>. QED
  BY <1>1, <1>6, <1>10, QueuePart DEF q2, S

\* Dequeue and the start of the write leave the bytes under way as they are.
LEMMA DequeueAdds ==
  ASSUME NEW q, IsQueue(q), NEW f \in q,
         f.type \in {"DATA", "RST_STREAM"} => f.stream \in Streams
  PROVE  /\ IsQueue(q \ {f}) /\ IsWritten([f EXCEPT !.number = 0])
         /\ Adds(Out(q, NoFrame), Out(q \ {f}, [f EXCEPT !.number = 0]), "none", 0, 0)
<1>. DEFINE w == [f EXCEPT !.number = 0]
            S == q \ {f}
<1>1. IsQueue(S)
  BY QueuePart
<1>2. /\ w \in WrittenFrame /\ w.type = f.type /\ w.stream = f.stream /\ w.size = f.size
      /\ f.type \in FrameTypes /\ f.stream \in Streams \cup {0} /\ f.size \in Nat
  BY QueuedFacts DEF QueuedFrame, WrittenFrame
<1>3. IsWritten(w) /\ IsWritten(NoFrame)
  BY <1>2 DEF IsWritten
<1>4. /\ NoFrame.type = "none" /\ NoFrame.stream = 0 /\ NoFrame.size = 0
  BY DEF NoFrame, Frame
<1>5. /\ Out(q, NoFrame) = Out(S, NoFrame) \cup {f} /\ f \notin Out(S, NoFrame)
      /\ Out(S, NoFrame) = S \cup {NoFrame} /\ NoFrame \notin S
      /\ Out(S, w) = S \cup {w} /\ w \notin S
  BY <1>1, <1>3, OutFinite DEF Out
<1>6. /\ \A T, R : IsFiniteSet(BytesOf(Of(Out(S, NoFrame), T, R)))
      /\ \A T, R : IsFiniteSet(BytesOf(Of(S, T, R)))
  <2>1. \A T, R : Of(S, T, R) \subseteq S
    BY DEF Of
  <2>. QED
    BY <1>1, <1>3, <2>1, OfFinite, BytesPart DEF IsQueue
<1>. HIDE DEF S, w
<1>7. Adds(S, Out(S, NoFrame), "none", 0, 0)
  BY <1>4, <1>5, <1>6, OutAdd
<1>8. Adds(Out(S, NoFrame), Out(q, NoFrame), f.type, f.stream, f.size)
  BY <1>2, <1>5, <1>6, OutAdd
<1>9. Adds(S, Out(S, w), f.type, f.stream, f.size)
  BY <1>2, <1>5, <1>6, OutAdd
<1>10. OutNat(Out(S, NoFrame)) /\ OutNat(Out(S, w)) /\ OutNat(Out(q, NoFrame))
  BY <1>1, <1>3, OutsAreNat
<1>11. \A T, R : Bytes(Of(S, T, R)) \in Nat
  <2>1. \A T, R : Of(S, T, R) \subseteq S
    BY DEF Of
  <2>. QED
    BY <1>1, <2>1, BytesPart DEF IsQueue
<1>12. OutNat(S)
  BY <1>11 DEF OutNat, SessionOut, StreamOut, UpdateOut
<1>13. Adds(Out(q, NoFrame), Out(S, w), "none", 0, 0)
  BY <1>2, <1>7, <1>8, <1>9, <1>10, <1>12 DEF Adds, OutNat
<1>. QED
  BY <1>1, <1>3, <1>13 DEF S, w

\* A frame that is written takes its bytes away.
LEMMA WrittenAdds ==
  ASSUME NEW q, IsQueue(q), NEW w, IsWritten(w),
         w.type \in {"DATA", "RST_STREAM"} => w.stream \in Streams
  PROVE  Adds(Out(q, w), Out(q, NoFrame), w.type, w.stream, -w.size)
<1>1. /\ w.type \in FrameTypes \cup {"none"} /\ w.stream \in Streams \cup {0} /\ w.size \in Nat
  BY DEF IsWritten, WrittenFrame, NoFrame, Frame
<1>2. IsWritten(NoFrame) /\ NoFrame.type = "none" /\ NoFrame.stream = 0 /\ NoFrame.size = 0
  BY DEF NoFrame, Frame, IsWritten
<1>3. /\ Out(q, NoFrame) = q \cup {NoFrame} /\ NoFrame \notin q
      /\ Out(q, w) = q \cup {w} /\ w \notin q
  BY <1>2, OutFinite DEF Out
<1>4. \A T, R : IsFiniteSet(BytesOf(Of(q, T, R))) /\ Bytes(Of(q, T, R)) \in Nat
  <2>1. \A T, R : Of(q, T, R) \subseteq q
    BY DEF Of
  <2>. QED
    BY <2>1, BytesPart DEF IsQueue
<1>5. Adds(q, Out(q, NoFrame), "none", 0, 0)
  BY <1>2, <1>3, <1>4, OutAdd
<1>6. Adds(q, Out(q, w), w.type, w.stream, w.size)
  BY <1>1, <1>3, <1>4, OutAdd
<1>7. OutNat(q)
  BY <1>4 DEF OutNat, SessionOut, StreamOut, UpdateOut
<1>8. OutNat(Out(q, w)) /\ OutNat(Out(q, NoFrame))
  BY <1>2, OutsAreNat
<1>. QED
  BY <1>1, <1>5, <1>6, <1>7, <1>8 DEF Adds, OutNat

\* DATA is added to the session and to its stream.
LEMMA AddsData ==
  ASSUME NEW F, NEW G, OutNat(F), NEW s \in Streams, NEW n \in Int, Adds(F, G, "DATA", s, n)
  PROVE  /\ SessionOut(G) = SessionOut(F) + n
         /\ StreamOut(G, s) = StreamOut(F, s) + n
         /\ \A t \in Streams \ {s} : StreamOut(G, t) = StreamOut(F, t)
         /\ \A t \in Streams \cup {0} : UpdateOut(G, t) = UpdateOut(F, t)
<1>1. SessionOut(G) = SessionOut(F) + n
  BY DEF Adds
<1>2. StreamOut(G, s) = StreamOut(F, s) + n
  BY DEF Adds
<1>3. \A t \in Streams \ {s} : StreamOut(G, t) = StreamOut(F, t) + 0
  BY DEF Adds
<1>4. \A t \in Streams \cup {0} : UpdateOut(G, t) = UpdateOut(F, t) + 0
  BY DEF Adds
<1>. QED
  BY <1>1, <1>2, <1>3, <1>4 DEF OutNat

\* The padding of a RST_STREAM is added to the session alone.
LEMMA AddsReset ==
  ASSUME NEW F, NEW G, OutNat(F), NEW s, NEW n \in Int, Adds(F, G, "RST_STREAM", s, n)
  PROVE  /\ SessionOut(G) = SessionOut(F) + n
         /\ \A t \in Streams : StreamOut(G, t) = StreamOut(F, t)
         /\ \A t \in Streams \cup {0} : UpdateOut(G, t) = UpdateOut(F, t)
<1>1. SessionOut(G) = SessionOut(F) + n
  BY DEF Adds
<1>3. \A t \in Streams : StreamOut(G, t) = StreamOut(F, t) + 0
  BY DEF Adds
<1>4. \A t \in Streams \cup {0} : UpdateOut(G, t) = UpdateOut(F, t) + 0
  BY DEF Adds
<1>. QED
  BY <1>1, <1>3, <1>4 DEF OutNat

\* A WINDOW_UPDATE is added to the updates of its stream.
LEMMA AddsUpdate ==
  ASSUME NEW F, NEW G, OutNat(F), NEW s \in Streams \cup {0}, NEW n \in Int,
         Adds(F, G, "WINDOW_UPDATE", s, n)
  PROVE  /\ SessionOut(G) = SessionOut(F)
         /\ \A t \in Streams : StreamOut(G, t) = StreamOut(F, t)
         /\ UpdateOut(G, s) = UpdateOut(F, s) + n
         /\ \A t \in (Streams \cup {0}) \ {s} : UpdateOut(G, t) = UpdateOut(F, t)
<1>1. SessionOut(G) = SessionOut(F) + 0
  BY DEF Adds
<1>2. UpdateOut(G, s) = UpdateOut(F, s) + n
  BY DEF Adds
<1>3. \A t \in Streams : StreamOut(G, t) = StreamOut(F, t) + 0
  BY DEF Adds
<1>4. \A t \in (Streams \cup {0}) \ {s} : UpdateOut(G, t) = UpdateOut(F, t) + 0
  BY DEF Adds
<1>. QED
  BY <1>1, <1>2, <1>3, <1>4 DEF OutNat

\* HEADERS count for no window.
LEMMA AddsNothing ==
  ASSUME NEW F, NEW G, OutNat(F), NEW s, NEW n, NEW type \in {"HEADERS", "none"},
         Adds(F, G, type, s, n)
  PROVE  /\ SessionOut(G) = SessionOut(F)
         /\ \A t \in Streams : StreamOut(G, t) = StreamOut(F, t)
         /\ \A t \in Streams \cup {0} : UpdateOut(G, t) = UpdateOut(F, t)
<1>1. SessionOut(G) = SessionOut(F) + 0
  BY DEF Adds
<1>3. \A t \in Streams : StreamOut(G, t) = StreamOut(F, t) + 0
  BY DEF Adds
<1>4. \A t \in Streams \cup {0} : UpdateOut(G, t) = UpdateOut(F, t) + 0
  BY DEF Adds
<1>. QED
  BY <1>1, <1>3, <1>4 DEF OutNat

-----------------------------------------------------------------------------
(***************************************************************************)
(* The bytes received and not consumed, and the queue of stalled streams.  *)
(***************************************************************************)
\* More bytes of one stream.
LEMMA HeldMore ==
  ASSUME NEW h \in [Streams -> Nat], NEW g \in [Streams -> Nat], NEW s \in Streams,
         NEW n \in Nat, g[s] = h[s] + n, \A t \in Streams \ {s} : g[t] = h[t],
         IsFiniteSet(HeldBytes(h))
  PROVE  /\ IsFiniteSet(HeldBytes(g))
         /\ Cardinality(HeldBytes(g)) = Cardinality(HeldBytes(h)) + n
         /\ Cardinality(HeldBytes(h)) \in Nat
<1>. DEFINE I == (h[s] + 1)..(h[s] + n)
            D == {s} \X I
<1>1. HeldBytes(g) = HeldBytes(h) \cup D
  <2>1. ASSUME NEW p PROVE p \in HeldBytes(g) <=> p \in HeldBytes(h) \cup D
    <3>1. p \in HeldBytes(h) <=> \E t \in Streams : \E k \in 1..h[t] : p = <<t, k>>
      BY DEF HeldBytes
    <3>2. p \in HeldBytes(g) <=> \E t \in Streams : \E k \in 1..g[t] : p = <<t, k>>
      BY DEF HeldBytes
    <3>3. \A t \in Streams : t # s => g[t] = h[t]
      OBVIOUS
    <3>4. p \in D <=> \E k \in (h[s] + 1)..(h[s] + n) : p = <<s, k>>
      OBVIOUS
    <3>5. \A k : k \in 1..g[s] <=> k \in 1..h[s] \/ k \in (h[s] + 1)..(h[s] + n)
      OBVIOUS
    <3>. HIDE DEF D
    <3>. QED
      BY <3>1, <3>2, <3>3, <3>4, <3>5, Zenon
  <2>. QED
    BY <2>1
<1>2. HeldBytes(h) \cap D = {}
  BY DEF HeldBytes
<1>3. IsFiniteSet(I) /\ Cardinality(I) = n
  <2>1. h[s] + 1 \in Int /\ h[s] + n \in Int
    OBVIOUS
  <2>2. /\ IsFiniteSet(I)
        /\ Cardinality(I) = IF h[s] + 1 > h[s] + n THEN 0 ELSE (h[s] + n) - (h[s] + 1) + 1
    BY <2>1, FS_Interval
  <2>. HIDE DEF I
  <2>. QED
    BY <2>2
<1>4. IsFiniteSet({s}) /\ Cardinality({s}) = 1
  BY FS_Singleton
<1>5. IsFiniteSet(D) /\ Cardinality(D) = 1 * n
  <2>. HIDE DEF I
  <2>. QED
    BY <1>3, <1>4, FS_Product
<1>. HIDE DEF D
<1>6. /\ IsFiniteSet(HeldBytes(h) \cup D)
      /\ Cardinality(HeldBytes(h) \cup D)
           = Cardinality(HeldBytes(h)) + Cardinality(D) - Cardinality(HeldBytes(h) \cap D)
  BY <1>5, FS_Union
<1>7. Cardinality(HeldBytes(h) \cap D) = 0 /\ Cardinality(HeldBytes(h)) \in Nat
  BY <1>2, FS_EmptySet, FS_CardinalityType
<1>8. 1 * n = n
  OBVIOUS
<1>9. ASSUME NEW a \in Nat PROVE a + n - 0 = a + n
  OBVIOUS
<1>. QED
  BY <1>1, <1>5, <1>6, <1>7, <1>8, <1>9

\* Fewer bytes of one stream.
LEMMA HeldLess ==
  ASSUME NEW h \in [Streams -> Nat], NEW g \in [Streams -> Nat], NEW s \in Streams,
         NEW n \in Nat, g[s] = h[s] - n, \A t \in Streams \ {s} : g[t] = h[t],
         IsFiniteSet(HeldBytes(h))
  PROVE  /\ IsFiniteSet(HeldBytes(g))
         /\ Cardinality(HeldBytes(g)) + n = Cardinality(HeldBytes(h))
         /\ Cardinality(HeldBytes(g)) \in Nat
<1>1. h[s] = g[s] + n /\ \A t \in Streams \ {s} : h[t] = g[t]
  OBVIOUS
<1>2. HeldBytes(g) \subseteq HeldBytes(h)
  <2>1. ASSUME NEW t \in Streams PROVE 1..g[t] \subseteq 1..h[t]
    OBVIOUS
  <2>. QED
    BY <2>1 DEF HeldBytes
<1>3. IsFiniteSet(HeldBytes(g))
  BY <1>2, FS_Subset
<1>4. /\ Cardinality(HeldBytes(h)) = Cardinality(HeldBytes(g)) + n
      /\ Cardinality(HeldBytes(g)) \in Nat
  BY <1>1, <1>3, HeldMore
<1>. QED
  BY <1>1, <1>3, <1>4

\* None are held.
LEMMA HeldNone ==
  ASSUME NEW h, \A s \in Streams : h[s] = 0
  PROVE  IsFiniteSet(HeldBytes(h)) /\ Cardinality(HeldBytes(h)) = 0
<1>1. \A s \in Streams : 1..h[s] = {}
  OBVIOUS
<1>2. HeldBytes(h) = {}
  BY <1>1, Zenon DEF HeldBytes
<1>. QED
  BY <1>2, FS_EmptySet

\* Who is in a queue of streams.
LEMMA QueueMembers ==
  ASSUME NEW u \in Seq(Streams)
  PROVE  /\ \A s \in Streams : ToSet(Append(u, s)) = ToSet(u) \cup {s}
         /\ \A r \in Seq(Streams) : ToSet(u \o r) = ToSet(u) \cup ToSet(r)
         /\ u # <<>> => /\ Head(u) \in Streams /\ Tail(u) \in Seq(Streams)
                        /\ ToSet(u) = ToSet(Tail(u)) \cup {Head(u)}
         /\ ToSet(<<>>) = {}
<1>1. ASSUME NEW s \in Streams PROVE ToSet(Append(u, s)) = ToSet(u) \cup {s}
  <2>1. \A i \in DOMAIN u : i \in DOMAIN Append(u, s) /\ Append(u, s)[i] = u[i]
    OBVIOUS
  <2>2. Len(u) + 1 \in DOMAIN Append(u, s) /\ Append(u, s)[Len(u) + 1] = s
    OBVIOUS
  <2>3. \A i \in DOMAIN Append(u, s) : i # Len(u) + 1 => i \in DOMAIN u
    OBVIOUS
  <2>4. ASSUME NEW x PROVE x \in ToSet(Append(u, s)) <=> x \in ToSet(u) \cup {s}
    BY <2>1, <2>2, <2>3, Zenon DEF ToSet
  <2>. QED
    BY <2>4
<1>2. ASSUME NEW r \in Seq(Streams) PROVE ToSet(u \o r) = ToSet(u) \cup ToSet(r)
  <2>1. ASSUME NEW i \in 1..Len(r)
        PROVE  Len(u) + i \in 1..Len(u \o r) /\ (u \o r)[Len(u) + i] = r[i]
    OBVIOUS
  <2>2. ASSUME NEW i \in 1..Len(u)
        PROVE  i \in 1..Len(u \o r) /\ (u \o r)[i] = u[i]
    OBVIOUS
  <2>3. ASSUME NEW i \in 1..Len(u \o r), i \notin 1..Len(u)
        PROVE  i - Len(u) \in 1..Len(r) /\ (u \o r)[i] = r[i - Len(u)]
    BY <2>3
  <2>4. /\ DOMAIN u = 1..Len(u) /\ DOMAIN r = 1..Len(r)
        /\ DOMAIN (u \o r) = 1..Len(u \o r)
    OBVIOUS
  <2>. DEFINE v == u \o r
  <2>5. ASSUME NEW x PROVE x \in ToSet(v) => x \in ToSet(u) \cup ToSet(r)
    <3>1. SUFFICES ASSUME NEW i \in 1..Len(v), x = v[i] PROVE x \in ToSet(u) \cup ToSet(r)
      BY <2>4 DEF ToSet
    <3>2. CASE i \in 1..Len(u)
      BY <2>2, <2>4, <3>1, <3>2 DEF ToSet
    <3>3. CASE i \notin 1..Len(u)
      BY <2>3, <2>4, <3>1, <3>3 DEF ToSet
    <3>. QED
      BY <3>2, <3>3
  <2>6. ASSUME NEW x PROVE x \in ToSet(u) => x \in ToSet(v)
    <3>1. SUFFICES ASSUME NEW i \in 1..Len(u), x = u[i] PROVE x \in ToSet(v)
      BY <2>4 DEF ToSet
    <3>2. i \in DOMAIN v /\ x = v[i]
      BY <2>2, <2>4, <3>1
    <3>. QED
      BY <3>2, Zenon DEF ToSet
  <2>7. ASSUME NEW x PROVE x \in ToSet(r) => x \in ToSet(v)
    <3>1. SUFFICES ASSUME NEW i \in 1..Len(r), x = r[i] PROVE x \in ToSet(v)
      BY <2>4 DEF ToSet
    <3>2. Len(u) + i \in DOMAIN v /\ x = v[Len(u) + i]
      BY <2>1, <2>4, <3>1
    <3>. QED
      BY <3>2, Zenon DEF ToSet
  <2>. QED
    BY <2>5, <2>6, <2>7
<1>3. ASSUME u # <<>>
      PROVE  /\ Head(u) \in Streams /\ Tail(u) \in Seq(Streams)
             /\ ToSet(u) = ToSet(Tail(u)) \cup {Head(u)}
  <2>1. Head(u) = u[1] /\ 1 \in DOMAIN u /\ Tail(u) \in Seq(Streams)
    BY <1>3
  <2>2. \A i \in DOMAIN Tail(u) : i + 1 \in DOMAIN u /\ Tail(u)[i] = u[i + 1]
    BY <1>3
  <2>3. \A i \in DOMAIN u : i # 1 => i - 1 \in DOMAIN Tail(u) /\ u[i] = Tail(u)[i - 1]
    BY <1>3
  <2>4. ASSUME NEW x PROVE x \in ToSet(u) <=> x \in ToSet(Tail(u)) \cup {Head(u)}
    <3>1. ASSUME x \in ToSet(u) PROVE x \in ToSet(Tail(u)) \cup {Head(u)}
      <4>1. PICK i \in DOMAIN u : x = u[i]
        BY <3>1 DEF ToSet
      <4>. QED
        BY <2>1, <2>3, <4>1, Zenon DEF ToSet
    <3>2. ASSUME x \in ToSet(Tail(u)) \cup {Head(u)} PROVE x \in ToSet(u)
      <4>1. CASE x \in ToSet(Tail(u))
        <5>1. PICK i \in DOMAIN Tail(u) : x = Tail(u)[i]
          BY <4>1 DEF ToSet
        <5>2. i + 1 \in DOMAIN u /\ x = u[i + 1]
          BY <2>2, <5>1
        <5>. QED
          BY <5>2, Zenon DEF ToSet
      <4>2. CASE x = Head(u)
        BY <2>1, <4>2, Zenon DEF ToSet
      <4>. QED
        BY <3>2, <4>1, <4>2
    <3>. QED
      BY <3>1, <3>2
  <2>5. u[1] \in Streams
    BY <2>1
  <2>. QED
    BY <2>1, <2>4, <2>5
<1>4. ToSet(<<>>) = {}
  BY DEF ToSet
<1>. QED
  BY <1>1, <1>2, <1>3, <1>4

-----------------------------------------------------------------------------
(***************************************************************************)
(* Arithmetic of the accounts.                                             *)
(***************************************************************************)
\* A part is not more than the whole.
LEMMA PartBounded ==
  ASSUME NEW a \in Int, NEW b \in Nat, NEW c \in Int, NEW m \in Int, a + b = c, c <= m
  PROVE  a <= m
OBVIOUS

\* What is moved from one part of a sum to the other leaves the sum.
LEMMA PartMoved ==
  ASSUME NEW a \in Int, NEW b \in Int, NEW c \in Int, NEW n \in Nat, a + b = c, n <= a
  PROVE  (a - n) + 0 + (b + n) = c /\ a - n >= 0
OBVIOUS

-----------------------------------------------------------------------------
(***************************************************************************)
(* What a step keeps that leaves part of the state alone.                  *)
(***************************************************************************)
\* Nothing that the send window of t is made of changes.
SendKept(t) ==
  /\ stream'[t].state = stream[t].state /\ stream'[t].window = stream[t].window
  /\ StreamOut(Outgoing', t) = StreamOut(Outgoing, t)
  /\ peer'.streamCredit[t] = peer.streamCredit[t] /\ peer'.lowered = peer.lowered
  /\ adjust'.delta = adjust.delta /\ (t \in adjust'.todo <=> t \in adjust.todo)

\* The send window of such a stream is accounted for as before.
LEMMA KeepSend ==
  ASSUME NEW t \in Streams, StreamAccount(t), SendKept(t)
  PROVE  StreamAccount(t)'
BY DEF StreamAccount, SendKept

\* Nothing that the receive window of t is made of changes, or t is closed.
RecvKept(t) ==
  \/ stream'[t].state = "closed"
  \/ /\ stream[t].state # "closed"
     /\ stream'[t].state \in {"none", "created"} => stream[t].state \in {"none", "created"}
     /\ stream'[t].recv = stream[t].recv /\ stream'[t].unacked = stream[t].unacked
     /\ peer'.streamWindow[t] = peer.streamWindow[t] /\ held'[t] = held[t]
     /\ UpdateOut(Outgoing', t) = UpdateOut(Outgoing, t)

\* The receive window of such a stream is accounted for as before.
LEMMA KeepRecv ==
  ASSUME NEW t \in Streams, StreamRecv(t), RecvKept(t)
  PROVE  StreamRecv(t)'
BY DEF StreamRecv, RecvKept

\* Nothing that the receive window of the session is made of changes.
LEMMA KeepSessionRecv ==
  ASSUME SessionRecv, UNCHANGED recvVars, peer'.window = peer.window,
         UpdateOut(Outgoing', 0) = UpdateOut(Outgoing, 0)
  PROVE  SessionRecv'
BY DEF SessionRecv, recvVars

\* A write of t goes on as before, or t is closed.
WakerKept(t) ==
  \/ stream'[t].state = "closed"
  \/ /\ stream'[t].state = stream[t].state /\ stream'[t].pending = stream[t].pending
     /\ stream'[t].stalled = stream[t].stalled /\ stream'[t].window = stream[t].window
     /\ DataOf(Outgoing', t) = DataOf(Outgoing, t)
     /\ stream[t].stalled /\ Waits(t, stream[t].window) => Waits(t, stream[t].window)'

\* It still has its waker.
LEMMA KeepWaker ==
  ASSUME NEW t \in Streams, WakerOK(t), WakerKept(t)
  PROVE  WakerOK(t)'
<1>1. CASE stream'[t].state = "closed"
  BY <1>1 DEF WakerOK
<1>2. CASE stream'[t].state # "closed"
  <2>1. /\ stream'[t].state = stream[t].state /\ stream'[t].pending = stream[t].pending
        /\ stream'[t].stalled = stream[t].stalled /\ stream'[t].window = stream[t].window
        /\ DataOf(Outgoing', t) = DataOf(Outgoing, t)
        /\ stream[t].stalled /\ Waits(t, stream[t].window) => Waits(t, stream[t].window)'
    BY <1>2 DEF WakerKept
  <2>2. ASSUME NEW f \in Outgoing, DataOf(Outgoing, t) = {f}
        PROVE  f \in Outgoing'
    BY <2>1, <2>2 DEF DataOf
  <2>. QED
    BY <1>2, <2>1, <2>2 DEF WakerOK
<1>. QED
  BY <1>1, <1>2

\* All that is under way, before and after a step.
LEMMA OutgoingIsOut ==
  ASSUME Types
  PROVE  /\ Outgoing = Out(queue, in_flight) /\ Outgoing' = Out(queue', in_flight')
         /\ IsQueue(queue) /\ IsWritten(in_flight) /\ OutNat(Outgoing)
<1>1. Outgoing = Out(queue, in_flight) /\ Outgoing' = Out(queue', in_flight')
  BY DEF Outgoing, Out
<1>2. IsQueue(queue) /\ IsWritten(in_flight)
  BY DEF Types, IsWritten
<1>. QED
  BY <1>1, <1>2, OutsAreNat

\* Each frame under way is one or none, and has a stream of its own.
LEMMA OutgoingFacts ==
  ASSUME Types, FramesOK, NEW g \in Outgoing
  PROVE  /\ g.stream \in Streams \cup {0} /\ g.size \in Nat /\ g.number \in Nat
         /\ g.type \in FrameTypes \cup {"none"} /\ g.priority \in Priorities
         /\ g.type \in {"DATA", "RST_STREAM", "HEADERS"} => g.stream \in Streams
         /\ g.type = "none" => g = NoFrame
<1>1. CASE g \in queue
  <2>1. /\ g.stream \in Streams \cup {0} /\ g.size \in Nat /\ g.number \in Nat
        /\ g.type \in FrameTypes /\ g.priority \in Priorities
    BY <1>1, QueuedFacts DEF Types
  <2>2. g.type # "none"
    BY <2>1 DEF FrameTypes
  <2>3. g.type \in {"DATA", "RST_STREAM", "HEADERS"} => g.stream # 0
    BY DEF FramesOK, FrameOK
  <2>. QED
    BY <2>1, <2>2, <2>3
<1>2. CASE g \in WrittenFrame
  <2>1. /\ g.stream \in Streams \cup {0} /\ g.size \in Nat /\ g.number \in Nat
        /\ g.type \in FrameTypes /\ g.priority \in Priorities
    BY <1>2 DEF WrittenFrame
  <2>2. g.type # "none"
    BY <2>1 DEF FrameTypes
  <2>3. g.type \in {"DATA", "RST_STREAM", "HEADERS"} => g.stream # 0
    BY DEF FramesOK, FrameOK
  <2>. QED
    BY <2>1, <2>2, <2>3
<1>3. CASE g = NoFrame
  BY <1>3 DEF NoFrame, Frame, Priorities
<1>. QED
  BY <1>1, <1>2, <1>3 DEF Outgoing, Types

\* A frame is queued while another may be in flight.
LEMMA AppendOut ==
  ASSUME Types, NEW f, Appended(queue, queue', f), in_flight' = in_flight,
         f.type \in {"DATA", "RST_STREAM"} => f.stream \in Streams
  PROVE  /\ IsQueue(queue') /\ OutNat(Outgoing) /\ OutNat(Outgoing')
         /\ Outgoing' = Outgoing \cup {f} /\ f \notin Outgoing
         /\ Adds(Outgoing, Outgoing', f.type, f.stream, f.size)
<1>1. IsQueue(queue) /\ IsWritten(in_flight) /\ Outgoing = Out(queue, in_flight)
      /\ Outgoing' = Out(queue', in_flight') /\ OutNat(Outgoing)
  BY OutgoingIsOut
<1>2. IsQueue(queue')
  BY <1>1, AppendedQueue
<1>3. OutNat(Outgoing')
  BY <1>1, <1>2, OutsAreNat
<1>4. Adds(Outgoing, Outgoing', f.type, f.stream, f.size)
  BY <1>1, AppendedAdds
<1>5. f \notin Outgoing
  BY <1>1, WrittenFacts DEF Appended, QueuedFrame, Out
<1>6. Outgoing' = Outgoing \cup {f}
  BY DEF Outgoing, Appended
<1>. QED
  BY <1>1, <1>2, <1>3, <1>4, <1>5, <1>6

\* The order of the frames is kept by one that is queued for a stream that
\* has no RST_STREAM under way.
LEMMA AppendReset ==
  ASSUME Types, FramesOK, ResetOK, NEW f, Appended(queue, queue', f),
         in_flight' = in_flight, peer'.reset = peer.reset, f.stream \notin peer.reset,
         f.stream # 0 => f.priority = "tunnel",
         f.type = "RST_STREAM" => f.stream # 0,
         \A g \in Outgoing : g.stream = f.stream => g.type # "RST_STREAM"
  PROVE  ResetOK'
<1>1. Outgoing' = Outgoing \cup {f}
  BY DEF Outgoing, Appended
<1>2. f.number \in Nat \ {0}
  BY DEF Appended, QueuedFrame
<1>3. \A g \in Outgoing : g.stream \notin peer.reset
  BY DEF ResetOK
<1>4. ASSUME NEW g \in Outgoing, NEW h \in Outgoing, g.type = "RST_STREAM", h.stream = g.stream
      PROVE  ~Before(g, h)
  BY <1>4 DEF ResetOK
<1>5. ASSUME NEW g \in Outgoing, f.type = "RST_STREAM", g.stream = f.stream
      PROVE  ~Before(f, g)
  <2>1. g.priority = f.priority
    BY <1>5 DEF FramesOK, FrameOK
  <2>2. CASE g \in queue
    <3>1. g.number < f.number /\ g.number \in Nat
      BY <2>1, <2>2, QueuedFacts DEF Appended, Types
    <3>2. f.priority = "tunnel"
      BY <1>5
    <3>. QED
      BY <1>2, <2>1, <3>1, <3>2 DEF Before
  <2>3. CASE g = in_flight
    BY <2>3, OutgoingIsOut, WrittenFacts DEF Before
  <2>. QED
    BY <2>2, <2>3 DEF Outgoing
<1>6. ~Before(f, f)
  BY <1>2 DEF Before
<1>. QED
  BY <1>1, <1>3, <1>4, <1>5, <1>6 DEF ResetOK

\* A frame of a stream that stays in its state is one that state allows.
LEMMA KeepFrame ==
  ASSUME NEW g, FrameOK(g), g.stream \in Streams \cup {0},
         g.stream \in Streams => stream'[g.stream].state = stream[g.stream].state
  PROVE  FrameOK(g)'
<1>1. CASE g.stream = 0
  BY <1>1 DEF FrameOK
<1>2. CASE g.stream \in Streams
  BY <1>2 DEF FrameOK
<1>. QED
  BY <1>1, <1>2

\* A frame is queued and each other stays one that its stream allows.
LEMMA FramesAppend ==
  ASSUME Types, FramesOK, NEW f, Outgoing' = Outgoing \cup {f},
         \A g \in Outgoing : FrameOK(g)',
         FrameOK(f)',
         f.type = "HEADERS" => \A g \in Outgoing : g.stream # f.stream,
         \A s \in peer'.open : stream'[s].state \notin {"none", "created"},
         \A s \in peer'.reset : stream'[s].state = "closed"
  PROVE  FramesOK'
<1>1. \A g \in Outgoing' : FrameOK(g)'
  OBVIOUS
<1>2. ASSUME NEW g \in Outgoing', NEW h \in Outgoing',
             g.type = "HEADERS", h.type = "HEADERS", g.stream = h.stream
      PROVE  g = h
  <2>1. CASE g \in Outgoing /\ h \in Outgoing
    BY <1>2, <2>1 DEF FramesOK
  <2>2. CASE ~(g \in Outgoing /\ h \in Outgoing)
    BY <1>2, <2>2
  <2>. QED
    BY <2>1, <2>2
<1>. QED
  BY <1>1, <1>2 DEF FramesOK

-----------------------------------------------------------------------------
(***************************************************************************)
(* The fields of a stream and of the peer after a change.                  *)
(***************************************************************************)
\* From st to st2 only s changes, and this is what it becomes.
Puts(st, st2, s, state, window, stalled, pending, recv, unackedBytes) ==
  /\ st2 \in [Streams -> StreamType] /\ \A t \in Streams \ {s} : st2[t] = st[t]
  /\ st2[s].state = state /\ st2[s].window = window /\ st2[s].stalled = stalled
  /\ st2[s].pending = pending /\ st2[s].recv = recv /\ st2[s].unacked = unackedBytes

\* A stream that is created.
LEMMA PutCreated ==
  ASSUME NEW st \in [Streams -> StreamType], NEW s \in Streams, NEW st2,
         NEW v0 \in States, NEW v1 \in Int,
         st2 = [st EXCEPT ![s].state = v0, ![s].window = v1]
  PROVE  Puts(st, st2, s, v0, v1, st[s].stalled, st[s].pending, st[s].recv, st[s].unacked)
<1>1. /\ st2 \in [Streams -> StreamType] /\ \A t \in Streams \ {s} : st2[t] = st[t]
      /\ st2[s] = [st[s] EXCEPT !.state = v0, !.window = v1]
  BY DEF StreamType
<1>. QED
  BY <1>1 DEF Puts, StreamType

\* A write of a stream.
LEMMA PutWrite ==
  ASSUME NEW st \in [Streams -> StreamType], NEW s \in Streams, NEW st2,
         NEW v0 \in Nat, NEW v1 \in Int, NEW v2 \in BOOLEAN,
         st2 = [st EXCEPT ![s].pending = v0, ![s].window = v1, ![s].stalled = v2]
  PROVE  Puts(st, st2, s, st[s].state, v1, v2, v0, st[s].recv, st[s].unacked)
<1>1. /\ st2 \in [Streams -> StreamType] /\ \A t \in Streams \ {s} : st2[t] = st[t]
      /\ st2[s] = [st[s] EXCEPT !.pending = v0, !.window = v1, !.stalled = v2]
  BY ZenonT(40) DEF StreamType
<1>. QED
  BY <1>1 DEF Puts, StreamType

\* A stream whose state changes.
LEMMA PutState ==
  ASSUME NEW st \in [Streams -> StreamType], NEW s \in Streams, NEW st2,
         NEW v0 \in States,
         st2 = [st EXCEPT ![s].state = v0]
  PROVE  Puts(st, st2, s, v0, st[s].window, st[s].stalled, st[s].pending, st[s].recv, st[s].unacked)
<1>1. /\ st2 \in [Streams -> StreamType] /\ \A t \in Streams \ {s} : st2[t] = st[t]
      /\ st2[s] = [st[s] EXCEPT !.state = v0]
  BY DEF StreamType
<1>. QED
  BY <1>1 DEF Puts, StreamType

\* A stream whose send window changes.
LEMMA PutWindow ==
  ASSUME NEW st \in [Streams -> StreamType], NEW s \in Streams, NEW st2,
         NEW v0 \in Int,
         st2 = [st EXCEPT ![s].window = v0]
  PROVE  Puts(st, st2, s, st[s].state, v0, st[s].stalled, st[s].pending, st[s].recv, st[s].unacked)
<1>1. /\ st2 \in [Streams -> StreamType] /\ \A t \in Streams \ {s} : st2[t] = st[t]
      /\ st2[s] = [st[s] EXCEPT !.window = v0]
  BY DEF StreamType
<1>. QED
  BY <1>1 DEF Puts, StreamType

\* A stream with less to send.
LEMMA PutPending ==
  ASSUME NEW st \in [Streams -> StreamType], NEW s \in Streams, NEW st2,
         NEW v0 \in Nat,
         st2 = [st EXCEPT ![s].pending = v0]
  PROVE  Puts(st, st2, s, st[s].state, st[s].window, st[s].stalled, v0, st[s].recv, st[s].unacked)
<1>1. /\ st2 \in [Streams -> StreamType] /\ \A t \in Streams \ {s} : st2[t] = st[t]
      /\ st2[s] = [st[s] EXCEPT !.pending = v0]
  BY DEF StreamType
<1>. QED
  BY <1>1 DEF Puts, StreamType

\* A stream whose receive window changes.
LEMMA PutRecv ==
  ASSUME NEW st \in [Streams -> StreamType], NEW s \in Streams, NEW st2,
         NEW v0 \in Int,
         st2 = [st EXCEPT ![s].recv = v0]
  PROVE  Puts(st, st2, s, st[s].state, st[s].window, st[s].stalled, st[s].pending, v0,
              st[s].unacked)
<1>1. /\ st2 \in [Streams -> StreamType] /\ \A t \in Streams \ {s} : st2[t] = st[t]
      /\ st2[s] = [st[s] EXCEPT !.recv = v0]
  BY DEF StreamType
<1>. QED
  BY <1>1 DEF Puts, StreamType

\* A stream with bytes to acknowledge.
LEMMA PutUnacked ==
  ASSUME NEW st \in [Streams -> StreamType], NEW s \in Streams, NEW st2,
         NEW v0 \in Nat,
         st2 = [st EXCEPT ![s].unacked = v0]
  PROVE  Puts(st, st2, s, st[s].state, st[s].window, st[s].stalled, st[s].pending, st[s].recv, v0)
<1>1. /\ st2 \in [Streams -> StreamType] /\ \A t \in Streams \ {s} : st2[t] = st[t]
      /\ st2[s] = [st[s] EXCEPT !.unacked = v0]
  BY DEF StreamType
<1>. QED
  BY <1>1 DEF Puts, StreamType

\* A stream whose bytes are consumed.
LEMMA PutRead ==
  ASSUME NEW st \in [Streams -> StreamType], NEW s \in Streams, NEW st2,
         NEW v0 \in Int, NEW v1 \in Nat,
         st2 = [st EXCEPT ![s].recv = v0, ![s].unacked = v1]
  PROVE  Puts(st, st2, s, st[s].state, st[s].window, st[s].stalled, st[s].pending, v0, v1)
<1>1. /\ st2 \in [Streams -> StreamType] /\ \A t \in Streams \ {s} : st2[t] = st[t]
      /\ st2[s] = [st[s] EXCEPT !.recv = v0, !.unacked = v1]
  BY DEF StreamType
<1>. QED
  BY <1>1 DEF Puts, StreamType

\* A stream that is closed.
LEMMA PutClosed ==
  ASSUME NEW st \in [Streams -> StreamType], NEW s \in Streams, NEW st2,
         st2 = [st EXCEPT ![s] = Closed]
  PROVE  Puts(st, st2, s, "closed", 0, FALSE, 0, 0, 0)
<1>1. Closed \in StreamType
  BY DEF Closed, StreamType, States
<1>2. /\ st2 \in [Streams -> StreamType] /\ \A t \in Streams \ {s} : st2[t] = st[t]
      /\ st2[s] = Closed
  BY <1>1
<1>. QED
  BY <1>2 DEF Puts, Closed

\* The peer's record after a change, field by field.
PeerIs(p2, credit, window, streamCredit, streamWindow, opened, resets, faulty, overrun,
       blamed, lowered) ==
  /\ p2 \in PeerType /\ p2.credit = credit /\ p2.window = window
  /\ p2.streamCredit = streamCredit /\ p2.streamWindow = streamWindow
  /\ p2.open = opened /\ p2.reset = resets /\ p2.faulty = faulty
  /\ p2.overrun = overrun /\ p2.blamed = blamed /\ p2.lowered = lowered

\* The peer gives credit to a stream that is created.
LEMMA PeerCredits ==
  ASSUME NEW p \in PeerType, NEW p2,
         NEW v0 \in [Streams -> Int],
         p2 = [p EXCEPT !.streamCredit = v0]
  PROVE  PeerIs(p2, p.credit, p.window, v0, p.streamWindow, p.open,
                    p.reset, p.faulty, p.overrun, p.blamed, p.lowered)
BY DEF PeerType, PeerIs

\* The peer gives credit to the session.
LEMMA PeerGives ==
  ASSUME NEW p \in PeerType, NEW p2,
         NEW v0 \in Int,
         NEW v1 \in BOOLEAN,
         p2 = [p EXCEPT !.credit = v0, !.faulty = v1]
  PROVE  PeerIs(p2, v0, p.window, p.streamCredit, p.streamWindow, p.open,
                    p.reset, v1, p.overrun, p.blamed, p.lowered)
BY DEF PeerType, PeerIs

\* The peer gives credit to a stream.
LEMMA PeerGivesStream ==
  ASSUME NEW p \in PeerType, NEW p2,
         NEW v0 \in [Streams -> Int],
         NEW v1 \in BOOLEAN,
         NEW v2 \in BOOLEAN,
         p2 = [p EXCEPT !.streamCredit = v0, !.faulty = v1, !.blamed = v2]
  PROVE  PeerIs(p2, p.credit, p.window, v0, p.streamWindow, p.open,
                    p.reset, v1, p.overrun, v2, p.lowered)
BY DEF PeerType, PeerIs

\* The peer changes the initial window.
LEMMA PeerSets ==
  ASSUME NEW p \in PeerType, NEW p2,
         NEW v0 \in BOOLEAN,
         NEW v1 \in BOOLEAN,
         NEW v2 \in [Streams -> Int],
         p2 = [p EXCEPT !.faulty = v0, !.lowered = v1, !.streamCredit = v2]
  PROVE  PeerIs(p2, p.credit, p.window, v2, p.streamWindow, p.open,
                    p.reset, v0, p.overrun, p.blamed, v1)
BY DEF PeerType, PeerIs

\* The peer sends data.
LEMMA PeerSent ==
  ASSUME NEW p \in PeerType, NEW p2,
         NEW v0 \in Int,
         NEW v1 \in [Streams -> Int],
         NEW v2 \in BOOLEAN,
         NEW v3 \in BOOLEAN,
         p2 = [p EXCEPT !.window = v0, !.streamWindow = v1, !.faulty = v2, !.blamed = v3]
  PROVE  PeerIs(p2, p.credit, v0, p.streamCredit, v1, p.open,
                    p.reset, v2, p.overrun, v3, p.lowered)
BY DEF PeerType, PeerIs

\* The peer ends a stream.
LEMMA PeerEnds ==
  ASSUME NEW p \in PeerType, NEW p2,
         NEW v0 \in SUBSET Streams,
         p2 = [p EXCEPT !.open = v0]
  PROVE  PeerIs(p2, p.credit, p.window, p.streamCredit, p.streamWindow, v0,
                    p.reset, p.faulty, p.overrun, p.blamed, p.lowered)
BY DEF PeerType, PeerIs

\* The peer receives a frame.
LEMMA PeerGets ==
  ASSUME NEW p \in PeerType, NEW p2,
         NEW v0 \in Int,
         NEW v1 \in [Streams -> Int],
         NEW v2 \in Int,
         NEW v3 \in [Streams -> Int],
         NEW v4 \in SUBSET Streams,
         NEW v5 \in SUBSET Streams,
         NEW v6 \in BOOLEAN,
         p2 = [p EXCEPT !.credit = v0, !.streamCredit = v1, !.window = v2,
                        !.streamWindow = v3, !.open = v4, !.reset = v5, !.overrun = v6]
  PROVE  PeerIs(p2, v0, v2, v1, v3, v4,
                    v5, p.faulty, v6, p.blamed, p.lowered)
BY DEF PeerType, PeerIs

-----------------------------------------------------------------------------
(***************************************************************************)
(* Frames that are queued, and what else their queueing keeps.             *)
(***************************************************************************)
\* The peer's view of frames and of received bytes stays as it is.
PeerKept ==
  /\ peer' \in PeerType /\ peer'.credit = peer.credit /\ peer'.window = peer.window
  /\ peer'.streamWindow = peer.streamWindow /\ peer'.open = peer.open
  /\ peer'.reset = peer.reset

\* Nothing of the receive windows changes but that streams may be closed.
LEMMA KeepRecvOK ==
  ASSUME RecvOK, UNCHANGED recvVars, peer'.window = peer.window,
         \A t \in Streams \cup {0} : UpdateOut(Outgoing', t) = UpdateOut(Outgoing, t),
         \A t \in Streams : RecvKept(t)
  PROVE  RecvOK'
<1>1. SessionRecv'
  BY KeepSessionRecv DEF RecvOK
<1>2. \A t \in Streams : StreamRecv(t)'
  BY KeepRecv DEF RecvOK
<1>. QED
  BY <1>1, <1>2 DEF RecvOK

\* No stream changes its state, and a frame is queued.
LEMMA FramesAppendKept ==
  ASSUME Types, FramesOK, NEW f, Outgoing' = Outgoing \cup {f}, f.type # "HEADERS",
         f.stream \in Streams \cup {0}, FrameOK(f),
         \A t \in Streams : stream'[t].state = stream[t].state,
         peer \in PeerType, peer'.open = peer.open, peer'.reset = peer.reset
  PROVE  FramesOK'
<1>1. ASSUME NEW g \in Outgoing PROVE FrameOK(g)'
  BY OutgoingFacts, KeepFrame DEF FramesOK
<1>2. FrameOK(f)'
  BY KeepFrame
<1>3. /\ \A t \in peer'.open : stream'[t].state \notin {"none", "created"}
      /\ \A t \in peer'.reset : stream'[t].state = "closed"
  BY DEF FramesOK, PeerType
<1>. QED
  BY <1>1, <1>2, <1>3, FramesAppend

\* No frame is queued and no stream changes its state.
LEMMA FramesKept ==
  ASSUME Types, FramesOK, Outgoing' = Outgoing,
         \A t \in Streams : stream'[t].state = stream[t].state,
         peer \in PeerType, peer'.open = peer.open, peer'.reset = peer.reset
  PROVE  FramesOK'
<1>1. ASSUME NEW g \in Outgoing' PROVE FrameOK(g)'
  BY OutgoingFacts, KeepFrame DEF FramesOK
<1>2. /\ \A t \in peer'.open : stream'[t].state \notin {"none", "created"}
      /\ \A t \in peer'.reset : stream'[t].state = "closed"
  BY DEF FramesOK, PeerType
<1>. QED
  BY <1>1, <1>2 DEF FramesOK

\* Nor is the order of the frames another then.
LEMMA ResetKept ==
  ASSUME ResetOK, Outgoing' = Outgoing, peer'.reset = peer.reset
  PROVE  ResetOK'
BY DEF ResetOK, Before

\* A stream that is not closed has no RST_STREAM under way or received.
LEMMA NoReset ==
  ASSUME FramesOK, NEW s \in Streams, stream[s].state # "closed"
  PROVE  /\ s \notin peer.reset
         /\ \A g \in Outgoing : g.stream = s => g.type # "RST_STREAM"
BY DEF FramesOK, FrameOK

\* What QueueData does.
DataQueued(s, len, w, size, n) ==
  /\ size \in Nat \ {0} /\ size <= send_window /\ size <= w /\ size <= len
  /\ send_window' = send_window - size
  /\ Appended(queue, queue', Frame("DATA", s, size, "tunnel", n))
  /\ Puts(stream, stream', s, stream[s].state, w - size, FALSE, len,
          stream[s].recv, stream[s].unacked)

\* The least of four.
LEMMA MinOfFour ==
  ASSUME NEW a \in Int, NEW b \in Int, NEW c \in Int, NEW d \in Int
  PROVE  /\ Min({a, b, c, d}) \in {a, b, c, d}
         /\ \A x \in {a, b, c, d} : Min({a, b, c, d}) <= x
<1>1. \E m \in {a, b, c, d} : \A x \in {a, b, c, d} : m <= x
  OBVIOUS
<1>. QED
  BY <1>1 DEF Min

\* QueueData queues a frame within both windows.
LEMMA QueueDataQueues ==
  ASSUME Types, NEW s \in Streams, NEW len \in Nat \ {0}, NEW w \in Int, w > 0,
         ~IsSendStalled, QueueData(s, len, w)
  PROVE  \E size \in Nat \ {0}, n \in Nat \ {0} : DataQueued(s, len, w, size, n)
<1>. DEFINE size == EffectiveLen(len, w)
<1>1. /\ stream' = [stream EXCEPT ![s].pending = len, ![s].window = w - size,
                                 ![s].stalled = FALSE]
      /\ send_window' = send_window - size
      /\ queue' = Enqueue(queue, "tunnel", "DATA", s, size)
  BY DEF QueueData
<1>2. send_window \in Nat \ {0} /\ IsQueue(queue) /\ stream \in [Streams -> StreamType]
  BY DEF Types, IsSendStalled
<1>3. /\ size \in {len, FrameSize, w, send_window}
      /\ \A x \in {len, FrameSize, w, send_window} : size <= x
  BY <1>2, FramesAssumption, MinOfFour DEF EffectiveLen
<1>4. size \in Nat \ {0} /\ size <= send_window /\ size <= w /\ size <= len
  <2>. HIDE DEF size
  <2>. QED
    BY <1>2, <1>3, FramesAssumption
<1>. HIDE DEF size
<1>5. PICK n \in Nat \ {0} : Appended(queue, queue', Frame("DATA", s, size, "tunnel", n))
  BY <1>1, <1>2, <1>4, EnqueueAppends DEF Priorities, FrameTypes
<1>6. Puts(stream, stream', s, stream[s].state, w - size, FALSE, len,
           stream[s].recv, stream[s].unacked)
  <2>1. w - size \in Int /\ FALSE \in BOOLEAN
    BY <1>4
  <2>. QED
    BY <1>1, <1>2, <2>1, PutWrite
<1>. QED
  BY <1>1, <1>4, <1>5, <1>6 DEF DataQueued

\* What the queueing of data on s keeps, whatever becomes of the account of s
\* with the peer and of the stalled streams.
LEMMA DataQueuedKeeps ==
  ASSUME Live, NEW s \in Streams, stream[s].state = "open", DataOf(Outgoing, s) = {},
         NEW len \in Nat \ {0}, NEW w \in Int, NEW size \in Nat \ {0}, NEW n \in Nat \ {0},
         DataQueued(s, len, w, size, n), in_flight' = in_flight, PeerKept,
         UNCHANGED recvVars
  PROVE  /\ IsQueue(queue') /\ stream' \in [Streams -> StreamType] /\ send_window' \in Nat
         /\ FramesOK' /\ ResetOK' /\ RecvOK' /\ SessionAccount' /\ WakerOK(s)'
         /\ StreamOut(Outgoing, s) \in Nat
         /\ StreamOut(Outgoing', s) = StreamOut(Outgoing, s) + size
         /\ \A t \in Streams \ {s} :
              /\ StreamOut(Outgoing', t) = StreamOut(Outgoing, t)
              /\ DataOf(Outgoing', t) = DataOf(Outgoing, t)
              /\ stream'[t] = stream[t]
<1>0. Types /\ OneLoop /\ FramesOK /\ ResetOK /\ SendOK /\ RecvOK /\ WakersOK
  BY DEF Live
<1>. DEFINE f == Frame("DATA", s, size, "tunnel", n)
<1>1. /\ f.type = "DATA" /\ f.stream = s /\ f.size = size /\ f.priority = "tunnel"
      /\ f.number = n
  BY DEF Frame
<1>2. /\ send_window' = send_window - size /\ size <= send_window
      /\ Appended(queue, queue', f)
      /\ Puts(stream, stream', s, stream[s].state, w - size, FALSE, len,
              stream[s].recv, stream[s].unacked)
  BY DEF DataQueued
<1>3. send_window \in Nat /\ peer \in PeerType
  BY <1>0 DEF Types
<1>. HIDE DEF f
<1>4. /\ IsQueue(queue') /\ OutNat(Outgoing) /\ OutNat(Outgoing')
      /\ Outgoing' = Outgoing \cup {f} /\ f \notin Outgoing
      /\ Adds(Outgoing, Outgoing', "DATA", s, size)
  BY <1>0, <1>1, <1>2, AppendOut
<1>5. /\ SessionOut(Outgoing') = SessionOut(Outgoing) + size
      /\ StreamOut(Outgoing', s) = StreamOut(Outgoing, s) + size
      /\ \A t \in Streams \ {s} : StreamOut(Outgoing', t) = StreamOut(Outgoing, t)
      /\ \A t \in Streams \cup {0} : UpdateOut(Outgoing', t) = UpdateOut(Outgoing, t)
  BY <1>4, AddsData
<1>6. stream' \in [Streams -> StreamType] /\ send_window' \in Nat
  BY <1>2, <1>3 DEF Puts
<1>7. FramesOK'
  <2>1. FrameOK(f)
    BY <1>1, StreamsAssumption DEF FrameOK
  <2>. QED
    BY <1>0, <1>1, <1>2, <1>3, <1>4, <2>1, FramesAppendKept DEF Puts, PeerKept
<1>8. ResetOK'
  BY <1>0, <1>1, <1>2, NoReset, AppendReset, StreamsAssumption DEF PeerKept
<1>9. RecvOK'
  <2>1. ASSUME NEW t \in Streams PROVE RecvKept(t)
    BY <1>2, <1>5 DEF RecvKept, Puts, PeerKept, recvVars
  <2>. QED
    BY <1>0, <1>5, <2>1, KeepRecvOK DEF PeerKept
<1>10. SessionAccount'
  BY <1>0, <1>2, <1>3, <1>4, <1>5 DEF SendOK, SessionAccount, PeerKept, OutNat, PeerType
<1>11. DataOf(Outgoing', s) = {f}
  BY <1>1, <1>4 DEF DataOf
<1>12. WakerOK(s)'
  BY <1>2, <1>4, <1>11 DEF WakerOK, Puts
<1>13. \A t \in Streams \ {s} : DataOf(Outgoing', t) = DataOf(Outgoing, t)
  BY <1>1, <1>4 DEF DataOf
<1>. QED
  BY <1>2, <1>4, <1>5, <1>6, <1>7, <1>8, <1>9, <1>10, <1>12, <1>13 DEF Puts, OutNat

-----------------------------------------------------------------------------
(***************************************************************************)
(* The steps.                                                              *)
(***************************************************************************)
\* SendRequestHeaders keeps the invariant.
LEMMA StepSendRequestHeaders ==
  ASSUME Live, FlowControlKept, NEW s \in Streams, SendRequestHeaders(s)
  PROVE  Live' /\ FlowControlKept'
<1>0. Types /\ OneLoop /\ FramesOK /\ ResetOK /\ SendOK /\ RecvOK /\ WakersOK
  BY DEF Live
<1>1. /\ stream[s].state = "none" /\ drained' = drained /\ in_flight' = in_flight
      /\ peer' = [peer EXCEPT !.streamCredit[s] = initial_window]
      /\ stream' = [stream EXCEPT ![s].state = "created", ![s].window = initial_window]
      /\ UNCHANGED <<initial_window, sendVars, loopVars, in_io_loop, recvVars, events>>
      /\ MaybePostWriteLoop
      /\ queue' = Enqueue(queue, "tunnel", "HEADERS", s, 0)
  BY DEF SendRequestHeaders
<1>2. /\ stream \in [Streams -> StreamType] /\ peer \in PeerType
      /\ initial_window \in Int /\ initial_window >= 0 /\ IsQueue(queue)
  BY <1>0, WindowsAssumption DEF Types
<1>3. PICK n \in Nat \ {0} : Appended(queue, queue', Frame("HEADERS", s, 0, "tunnel", n))
  BY <1>1, <1>2, EnqueueAppends DEF Priorities, FrameTypes
<1>. DEFINE f == Frame("HEADERS", s, 0, "tunnel", n)
<1>4. /\ f.type = "HEADERS" /\ f.stream = s /\ f.size = 0 /\ f.priority = "tunnel"
      /\ f.number # 0
  BY DEF Frame
<1>. HIDE DEF f
<1>5. /\ IsQueue(queue') /\ OutNat(Outgoing) /\ OutNat(Outgoing')
      /\ Outgoing' = Outgoing \cup {f} /\ f \notin Outgoing
      /\ Adds(Outgoing, Outgoing', "HEADERS", s, 0)
  BY <1>0, <1>1, <1>3, <1>4, AppendOut DEF f
<1>6. /\ SessionOut(Outgoing') = SessionOut(Outgoing)
      /\ \A t \in Streams : StreamOut(Outgoing', t) = StreamOut(Outgoing, t)
      /\ \A t \in Streams \cup {0} : UpdateOut(Outgoing', t) = UpdateOut(Outgoing, t)
  BY <1>5, AddsNothing
<1>7. Puts(stream, stream', s, "created", initial_window, stream[s].stalled,
           stream[s].pending, stream[s].recv, stream[s].unacked)
  BY <1>1, <1>2, PutCreated DEF States
<1>8. PeerIs(peer', peer.credit, peer.window,
             [peer.streamCredit EXCEPT ![s] = initial_window], peer.streamWindow,
             peer.open, peer.reset, peer.faulty, peer.overrun, peer.blamed, peer.lowered)
  <2>1. /\ peer' = [peer EXCEPT !.streamCredit = [peer.streamCredit EXCEPT ![s] = initial_window]]
        /\ [peer.streamCredit EXCEPT ![s] = initial_window] \in [Streams -> Int]
    BY <1>1, <1>2 DEF PeerType
  <2>. QED
    BY <1>2, <2>1, PeerCredits
<1>9. Types'
  BY <1>0, <1>1, <1>5, <1>7, <1>8 DEF Types, Puts, PeerIs, sendVars, loopVars, recvVars
<1>10. \A g \in Outgoing : g.stream # s
  BY <1>0, <1>1, StreamsAssumption DEF FramesOK, FrameOK
<1>11. OneLoop'
  <2>1. s \notin adjust.todo
    BY <1>0, <1>1 DEF OneLoop
  <2>. QED
    BY <1>0, <1>1, <1>7, <2>1 DEF Types, OneLoop, Puts, loopVars, MaybePostWriteLoop
<1>12. FramesOK'
  <2>1. ASSUME NEW g \in Outgoing PROVE FrameOK(g)'
    BY <1>0, <1>7, <1>10, OutgoingFacts, KeepFrame DEF FramesOK, Puts
  <2>2. FrameOK(f)'
    BY <1>4, <1>7, StreamsAssumption DEF FrameOK, Puts
  <2>3. \A t \in peer'.open : stream'[t].state \notin {"none", "created"}
    BY <1>0, <1>1, <1>2, <1>7, <1>8 DEF FramesOK, Puts, PeerIs, PeerType
  <2>4. \A t \in peer'.reset : stream'[t].state = "closed"
    BY <1>0, <1>1, <1>2, <1>7, <1>8 DEF FramesOK, Puts, PeerIs, PeerType
  <2>. QED
    BY <1>0, <1>4, <1>5, <1>10, <2>1, <2>2, <2>3, <2>4, FramesAppend
<1>13. ResetOK'
  BY <1>0, <1>1, <1>3, <1>4, <1>8, <1>10, AppendReset DEF f, PeerIs, FramesOK
<1>14. SendOK'
  <2>1. ASSUME NEW t \in Streams, t # s PROVE StreamAccount(t)'
    <3>1. SendKept(t)
      BY <1>1, <1>2, <1>6, <1>7, <1>8, <2>1
         DEF SendKept, Puts, PeerIs, loopVars, PeerType
    <3>. QED
      BY <1>0, <3>1, KeepSend DEF SendOK
  <2>2. StreamAccount(s)'
    <3>1. StreamOut(Outgoing, s) = 0
      <4>1. Of(Outgoing, {"DATA"}, {s}) = {}
        BY <1>10 DEF Of
      <4>. QED
        BY <4>1, BytesNone DEF StreamOut
    <3>2. s \notin adjust'.todo
      BY <1>0, <1>1 DEF OneLoop, loopVars
    <3>. QED
      BY <1>2, <1>6, <1>7, <1>8, <3>1, <3>2 DEF StreamAccount, Puts, PeerIs, PeerType
  <2>3. SessionAccount'
    BY <1>0, <1>1, <1>6, <1>8 DEF SendOK, SessionAccount, PeerIs, sendVars
  <2>4. Rules'
    <3>1. Rules /\ initial_window <= MaxWindow
      BY <1>0, WindowsAssumption DEF SendOK, Types
    <3>2. \A t \in Streams : \/ peer'.streamCredit[t] = peer.streamCredit[t]
                             \/ peer'.streamCredit[t] = initial_window
      BY <1>2, <1>8 DEF PeerIs, PeerType
    <3>. QED
      BY <1>1, <1>8, <3>1, <3>2 DEF Rules, PeerIs, loopVars
  <2>. QED
    BY <2>1, <2>2, <2>3, <2>4 DEF SendOK
<1>15. RecvOK'
  <2>1. ASSUME NEW t \in Streams PROVE StreamRecv(t)'
    <3>1. RecvKept(t)
      BY <1>1, <1>6, <1>7, <1>8 DEF RecvKept, Puts, PeerIs, recvVars
    <3>. QED
      BY <1>0, <3>1, KeepRecv DEF RecvOK
  <2>2. SessionRecv'
    BY <1>0, <1>1, <1>6, <1>8, KeepSessionRecv DEF RecvOK, PeerIs
  <2>. QED
    BY <2>1, <2>2 DEF RecvOK
<1>16. WakersOK'
  <2>1. ASSUME NEW t \in Streams, t # s PROVE WakerOK(t)'
    <3>1. WakerKept(t)
      BY <1>1, <1>4, <1>5, <1>7, <2>1
         DEF WakerKept, Puts, DataOf, Waits, IsSendStalled, sendVars, loopVars
    <3>. QED
      BY <1>0, <3>1, KeepWaker DEF WakersOK
  <2>2. WakerOK(s)'
    <3>1. DataOf(Outgoing', s) = {}
      BY <1>4, <1>5, <1>10 DEF DataOf
    <3>2. stream[s].pending = 0 /\ ~stream[s].stalled
      BY <1>0, <1>1 DEF WakersOK, WakerOK
    <3>. QED
      BY <1>7, <3>1, <3>2 DEF WakerOK, Puts
  <2>. QED
    BY <2>1, <2>2 DEF WakersOK
<1>. QED
  BY <1>1, <1>8, <1>9, <1>11, <1>12, <1>13, <1>14, <1>15, <1>16
     DEF Live, FlowControlKept, PeerIs

\* The write loop is only ever started.
Posts == \/ write_state' = write_state
         \/ write_state = "IDLE" /\ write_state' = "DO_WRITE"

\* That is what a handler that may queue a frame does.
LEMMA PostPosts ==
  /\ PostIfEnqueued => Posts
  /\ MaybePostWriteLoop => Posts
BY DEF PostIfEnqueued, MaybePostWriteLoop, Posts

\* The loops go on as before.
LEMMA LoopsKept ==
  ASSUME OneLoop, Posts, in_io_loop' = in_io_loop, in_flight' = in_flight,
         adjust' = adjust, requeue' = requeue, resuming' = resuming,
         adjust \in [todo : SUBSET Streams, delta : Int],
         \A t \in Streams : stream'[t].state = stream[t].state
  PROVE  OneLoop'
BY DEF OneLoop, Posts

\* A stream that stalls waits in the unstall queue.
LEMMA StallKeeps ==
  ASSUME Live, NEW s \in Streams, stream[s].state = "open", DataOf(Outgoing, s) = {},
         NEW len \in Nat \ {0}, NEW w \in Int, w <= 0 \/ IsSendStalled,
         Puts(stream, stream', s, stream[s].state, w, TRUE, len,
              stream[s].recv, stream[s].unacked),
         unstall' = Append(unstall, s), requeue' = requeue,
         send_window' = send_window, Outgoing' = Outgoing
  PROVE  /\ unstall' \in Seq(Streams) /\ WakerOK(s)'
         /\ \A t \in Streams, v \in Int : Waits(t, v) /\ resuming' = resuming =>
              /\ t \in ToSet(unstall') \cup ToSet(requeue')
              /\ send_window' = 0 \/ v <= 0 \/ (resuming' /\ t \in ToSet(unstall'))
<1>0. unstall \in Seq(Streams)
  BY DEF Live, Types
<1>1. ToSet(unstall') = ToSet(unstall) \cup {s} /\ unstall' \in Seq(Streams)
  BY <1>0, QueueMembers
<1>2. Waits(s, w)'
  BY <1>1 DEF Waits, IsSendStalled
<1>3. WakerOK(s)'
  BY <1>1 DEF WakerOK, Puts, Waits, IsSendStalled
<1>. QED
  BY <1>1, <1>3 DEF Waits, IsSendStalled

\* SendData keeps the invariant.
LEMMA StepSendData ==
  ASSUME Live, FlowControlKept, NEW s \in Streams, NEW len \in 1..MaxLen, SendData(s, len)
  PROVE  Live' /\ FlowControlKept'
<1>0. Types /\ OneLoop /\ FramesOK /\ ResetOK /\ SendOK /\ RecvOK /\ WakersOK
  BY DEF Live
<1>1. /\ stream[s].state = "open" /\ stream[s].pending = 0
      /\ QueueNextDataFrame(s, len, stream[s].window)
      /\ UNCHANGED <<drained, initial_window, loopVars, in_flight, in_io_loop,
                     recvVars, peer>>
      /\ events' = events + 1
      /\ PostIfEnqueued
  BY DEF SendData, Counts
<1>2. /\ stream \in [Streams -> StreamType] /\ peer \in PeerType /\ len \in Nat \ {0}
      /\ send_window \in Nat /\ IsQueue(queue) /\ unstall \in Seq(Streams)
      /\ stream[s].window \in Int /\ adjust \in [todo : SUBSET Streams, delta : Int]
  BY <1>0, BoundsAssumption DEF Types, StreamType
<1>3. DataOf(Outgoing, s) = {} /\ ~stream[s].stalled
  BY <1>0, <1>1 DEF WakersOK, WakerOK
<1>4. PeerKept
  BY <1>1, <1>2 DEF PeerKept
<1>5. FlowControlKept'
  BY <1>1 DEF FlowControlKept
<1>. DEFINE w == stream[s].window
<1>6. CASE /\ w <= 0 \/ IsSendStalled
           /\ stream' = [stream EXCEPT ![s].pending = len, ![s].window = w,
                                       ![s].stalled = TRUE]
           /\ unstall' = Append(unstall, s)
           /\ UNCHANGED <<send_window, queue>>
  <2>1. Puts(stream, stream', s, stream[s].state, w, TRUE, len,
             stream[s].recv, stream[s].unacked)
    BY <1>2, <1>6, PutWrite
  <2>2. Outgoing' = Outgoing
    BY <1>1, <1>6 DEF Outgoing
  <2>3. /\ unstall' \in Seq(Streams) /\ WakerOK(s)'
        /\ \A t \in Streams, v \in Int : Waits(t, v) =>
              /\ t \in ToSet(unstall') \cup ToSet(requeue')
              /\ send_window' = 0 \/ v <= 0 \/ (resuming' /\ t \in ToSet(unstall'))
    BY <1>1, <1>2, <1>3, <1>6, <2>1, <2>2, StallKeeps DEF loopVars
  <2>4. \A t \in Streams : stream'[t].state = stream[t].state
    BY <2>1 DEF Puts
  <2>5. Types'
    BY <1>0, <1>1, <1>6, <2>1, <2>3 DEF Types, Puts, loopVars, recvVars
  <2>6. OneLoop'
    BY <1>0, <1>1, <1>2, <2>4, PostPosts, LoopsKept DEF loopVars
  <2>7. FramesOK' /\ ResetOK'
    BY <1>0, <1>1, <1>2, <2>2, <2>4, FramesKept, ResetKept
  <2>8. ASSUME NEW t \in Streams PROVE StreamAccount(t)'
    <3>1. SendKept(t)
      BY <1>1, <2>1, <2>2 DEF SendKept, Puts, loopVars
    <3>. QED
      BY <1>0, <3>1, KeepSend DEF SendOK
  <2>9. SendOK'
    BY <1>0, <1>1, <1>6, <2>2, <2>8 DEF SendOK, SessionAccount, Rules, loopVars
  <2>10. RecvOK'
    <3>1. ASSUME NEW t \in Streams PROVE RecvKept(t)
      BY <1>1, <2>1, <2>2 DEF RecvKept, Puts, recvVars
    <3>. QED
      BY <1>0, <1>1, <2>2, <3>1, KeepRecvOK
  <2>11. ASSUME NEW t \in Streams, t # s PROVE WakerOK(t)'
    <3>1. stream[t].window \in Int /\ stream'[t] = stream[t]
      BY <1>2, <2>1, <2>11 DEF StreamType, Puts
    <3>2. Waits(t, stream[t].window) => Waits(t, stream[t].window)'
      BY <2>3, <3>1 DEF Waits, IsSendStalled
    <3>3. WakerKept(t)
      BY <2>2, <3>1, <3>2 DEF WakerKept
    <3>. QED
      BY <1>0, <3>3, KeepWaker DEF WakersOK
  <2>12. WakersOK'
    BY <2>3, <2>11 DEF WakersOK
  <2>. QED
    BY <1>5, <2>5, <2>6, <2>7, <2>9, <2>10, <2>12 DEF Live
<1>7. CASE /\ w > 0 /\ ~IsSendStalled
           /\ QueueData(s, len, w) /\ UNCHANGED unstall
  <2>1. PICK size \in Nat \ {0}, n \in Nat \ {0} : DataQueued(s, len, w, size, n)
    BY <1>0, <1>2, <1>7, QueueDataQueues
  <2>2. /\ IsQueue(queue') /\ stream' \in [Streams -> StreamType] /\ send_window' \in Nat
        /\ FramesOK' /\ ResetOK' /\ RecvOK' /\ SessionAccount' /\ WakerOK(s)'
        /\ StreamOut(Outgoing, s) \in Nat
        /\ StreamOut(Outgoing', s) = StreamOut(Outgoing, s) + size
        /\ \A t \in Streams \ {s} :
             /\ StreamOut(Outgoing', t) = StreamOut(Outgoing, t)
             /\ DataOf(Outgoing', t) = DataOf(Outgoing, t)
             /\ stream'[t] = stream[t]
    BY <1>1, <1>2, <1>3, <1>4, <2>1, DataQueuedKeeps
  <2>3. /\ size <= w /\ stream'[s].state = "open" /\ stream'[s].window = w - size
    BY <1>1, <2>1 DEF DataQueued, Puts
  <2>4. Types'
    BY <1>0, <1>1, <1>7, <2>2 DEF Types, loopVars, recvVars
  <2>5. \A t \in Streams : stream'[t].state = stream[t].state
    BY <1>1, <2>2, <2>3
  <2>6. OneLoop'
    BY <1>0, <1>1, <1>2, <2>5, PostPosts, LoopsKept DEF loopVars
  <2>7. ASSUME NEW t \in Streams, t # s PROVE StreamAccount(t)'
    <3>1. SendKept(t)
      BY <1>1, <2>2, <2>7 DEF SendKept, loopVars
    <3>. QED
      BY <1>0, <3>1, KeepSend DEF SendOK
  <2>8. StreamAccount(s)'
    <3>1. StreamAccount(s) /\ peer.streamCredit[s] \in Int
      BY <1>0, <1>2 DEF SendOK, PeerType
    <3>. QED
      BY <1>1, <1>2, <2>2, <2>3, <3>1 DEF StreamAccount, loopVars
  <2>9. SendOK'
    BY <1>0, <1>1, <2>2, <2>7, <2>8 DEF SendOK, Rules, loopVars
  <2>10. ASSUME NEW t \in Streams, t # s PROVE WakerOK(t)'
    <3>1. Waits(t, stream[t].window) => Waits(t, stream[t].window)'
      BY <1>1, <1>7, <2>2, <2>10 DEF Waits, IsSendStalled, loopVars
    <3>2. WakerKept(t)
      BY <2>2, <2>10, <3>1 DEF WakerKept
    <3>. QED
      BY <1>0, <3>2, KeepWaker DEF WakersOK
  <2>11. WakersOK'
    BY <2>2, <2>10 DEF WakersOK
  <2>. QED
    BY <1>5, <2>2, <2>4, <2>6, <2>9, <2>11 DEF Live
<1>. QED
  BY <1>1, <1>6, <1>7 DEF QueueNextDataFrame

\* The peer changes no account, though it may break the rules.
QuietPeer ==
  /\ PeerKept /\ peer'.streamCredit = peer.streamCredit /\ peer'.lowered = peer.lowered
  /\ peer.faulty => peer'.faulty

\* Nor does it when it does nothing.
LEMMA SamePeer ==
  ASSUME Live, peer' = peer
  PROVE  QuietPeer
BY DEF Live, Types, QuietPeer, PeerKept

\* Nothing but the loop's own variables, the unstall queue and perhaps the
\* window change: the accounts and the frames stay as they are.
LEMMA QuietStep ==
  ASSUME Live, UNCHANGED <<queue, in_flight, stream, adjust, recvVars, initial_window>>,
         events' \in Nat, QuietPeer, send_window' = send_window, unstall' \in Seq(Streams),
         requeue' \in Seq(Streams), resuming' \in BOOLEAN, in_io_loop' \in BOOLEAN,
         OneLoop',
         \A t \in Streams : WakerOK(t)'
  PROVE  Live'
<1>0. Types /\ OneLoop /\ FramesOK /\ ResetOK /\ SendOK /\ RecvOK /\ WakersOK
  BY DEF Live
<1>1. Outgoing' = Outgoing /\ peer \in PeerType
  BY <1>0 DEF Outgoing, Types
<1>2. Types'
  BY <1>0 DEF Types, recvVars, QuietPeer, PeerKept
<1>3. FramesOK' /\ ResetOK'
  BY <1>0, <1>1, FramesKept, ResetKept DEF QuietPeer, PeerKept
<1>4. SendOK'
  <2>1. ASSUME NEW t \in Streams PROVE StreamAccount(t)'
    <3>1. SendKept(t)
      BY <1>1 DEF SendKept, QuietPeer
    <3>. QED
      BY <1>0, <3>1, KeepSend DEF SendOK
  <2>. QED
    BY <1>0, <1>1, <2>1 DEF SendOK, SessionAccount, Rules, QuietPeer, PeerKept
<1>5. RecvOK'
  <2>1. ASSUME NEW t \in Streams PROVE RecvKept(t)
    BY <1>1 DEF RecvKept, recvVars, QuietPeer, PeerKept
  <2>. QED
    BY <1>0, <1>1, <2>1, KeepRecvOK DEF QuietPeer, PeerKept
<1>. QED
  BY <1>2, <1>3, <1>4, <1>5 DEF Live, WakersOK

\* Such a step keeps the waker of a write that still waits.
LEMMA QuietWaker ==
  ASSUME Live, UNCHANGED <<queue, in_flight, stream>>, NEW t \in Streams,
         (/\ stream[t].state # "closed" /\ stream[t].stalled
          /\ Waits(t, stream[t].window)) => Waits(t, stream[t].window)'
  PROVE  WakerOK(t)'
<1>1. Outgoing' = Outgoing
  BY DEF Outgoing
<1>2. WakerKept(t)
  BY <1>1 DEF WakerKept
<1>. QED
  BY <1>2, KeepWaker DEF Live, WakersOK

\* The write loop starts.
LEMMA StepPumpWriteLoop ==
  ASSUME Live, FlowControlKept, PumpWriteLoop
  PROVE  Live' /\ FlowControlKept'
<1>0. Types /\ OneLoop
  BY DEF Live
<1>1. /\ UNCHANGED <<drained, initial_window, sendVars, loopVars, queue, in_flight,
                     write_state, recvVars, stream, peer, events>>
      /\ write_state = "DO_WRITE" /\ in_io_loop' = TRUE
  BY DEF PumpWriteLoop
<1>2. OneLoop'
  BY <1>0, <1>1 DEF OneLoop, loopVars
<1>3. ASSUME NEW t \in Streams PROVE WakerOK(t)'
  <2>1. Waits(t, stream[t].window) => Waits(t, stream[t].window)'
    BY <1>1 DEF Waits, IsSendStalled, sendVars, loopVars
  <2>. QED
    BY <1>1, <2>1, QuietWaker
<1>4. Live'
  BY <1>0, <1>1, <1>2, <1>3, SamePeer, QuietStep DEF sendVars, loopVars, Types
<1>. QED
  BY <1>1, <1>4 DEF FlowControlKept

\* ResumeSendStalledStreams keeps the invariant.
LEMMA StepResume ==
  ASSUME Live, FlowControlKept, ResumeSendStalledStreams
  PROVE  Live' /\ FlowControlKept'
<1>0. Types /\ OneLoop /\ FramesOK /\ ResetOK /\ SendOK /\ RecvOK /\ WakersOK
  BY DEF Live
<1>1. /\ drained = "no" /\ resuming
      /\ UNCHANGED <<drained, initial_window, adjust, in_flight, in_io_loop, recvVars,
                     peer, events>>
      /\ PostIfEnqueued
  BY DEF ResumeSendStalledStreams
<1>2. /\ stream \in [Streams -> StreamType] /\ peer \in PeerType
      /\ send_window \in Nat /\ IsQueue(queue) /\ unstall \in Seq(Streams)
      /\ requeue \in Seq(Streams) /\ adjust \in [todo : SUBSET Streams, delta : Int]
  BY <1>0 DEF Types
<1>3. FlowControlKept'
  BY <1>1 DEF FlowControlKept
<1>4. Posts /\ adjust.todo = {}
  BY <1>0, <1>1, PostPosts DEF OneLoop
<1>5. CASE /\ IsSendStalled \/ unstall = <<>>
           /\ unstall' = unstall \o requeue /\ requeue' = <<>> /\ resuming' = FALSE
           /\ UNCHANGED <<send_window, queue, stream>>
  <2>1. /\ ToSet(unstall') = ToSet(unstall) \cup ToSet(requeue)
        /\ unstall' \in Seq(Streams) /\ requeue' \in Seq(Streams)
        /\ unstall = <<>> => ToSet(unstall) = {}
    BY <1>2, <1>5, QueueMembers
  <2>2. OneLoop'
    BY <1>0, <1>1, <1>4, <1>5 DEF OneLoop, Posts
  <2>3. ASSUME NEW t \in Streams PROVE WakerOK(t)'
    <3>1. Waits(t, stream[t].window) => Waits(t, stream[t].window)'
      BY <1>5, <2>1 DEF Waits, IsSendStalled
    <3>. QED
      BY <1>1, <1>5, <3>1, QuietWaker
  <2>. QED
    BY <1>0, <1>1, <1>3, <1>5, <2>1, <2>2, <2>3, SamePeer, QuietStep DEF Types
<1>. PICK s : s = Head(unstall)
  OBVIOUS
<1>6. ASSUME unstall # <<>>
      PROVE  /\ s \in Streams /\ Tail(unstall) \in Seq(Streams)
             /\ ToSet(unstall) = ToSet(Tail(unstall)) \cup {s}
  BY <1>2, <1>6, QueueMembers
<1>7. CASE /\ ~IsSendStalled /\ unstall # <<>> /\ unstall' = Tail(unstall)
           /\ ~(Active(s) /\ stream[s].stalled)
           /\ UNCHANGED <<send_window, requeue, queue, stream, resuming>>
  <2>1. OneLoop'
    BY <1>0, <1>1, <1>4, <1>7 DEF OneLoop, Posts
  <2>2. ASSUME NEW t \in Streams, stream[t].state # "closed", stream[t].stalled,
               Waits(t, stream[t].window)
        PROVE  Waits(t, stream[t].window)'
    <3>1. t # s
      BY <1>0, <1>2, <1>7, <2>2 DEF WakersOK, WakerOK, Active, StreamType, States
    <3>. QED
      BY <1>6, <1>7, <2>2, <3>1 DEF Waits, IsSendStalled
  <2>3. ASSUME NEW t \in Streams PROVE WakerOK(t)'
    BY <1>1, <1>7, <2>2, QuietWaker
  <2>. QED
    BY <1>0, <1>1, <1>3, <1>6, <1>7, <2>1, <2>3, SamePeer, QuietStep DEF Types
<1>8. CASE /\ ~IsSendStalled /\ unstall # <<>> /\ unstall' = Tail(unstall)
           /\ stream[s].window <= 0 /\ requeue' = Requeued(s)
           /\ UNCHANGED <<send_window, queue, stream, resuming>>
  <2>1. s \in Streams /\ requeue' = Append(requeue, s)
    BY <1>6, <1>8 DEF Requeued
  <2>2. ToSet(requeue') = ToSet(requeue) \cup {s} /\ requeue' \in Seq(Streams)
    BY <1>2, <2>1, QueueMembers
  <2>3. OneLoop'
    BY <1>0, <1>1, <1>4, <1>8 DEF OneLoop, Posts
  <2>4. ASSUME NEW t \in Streams, Waits(t, stream[t].window)
        PROVE  Waits(t, stream[t].window)'
    BY <1>6, <1>8, <2>2, <2>4 DEF Waits, IsSendStalled
  <2>5. ASSUME NEW t \in Streams PROVE WakerOK(t)'
    BY <1>1, <1>8, <2>4, QuietWaker
  <2>. QED
    BY <1>0, <1>1, <1>3, <1>6, <1>8, <2>2, <2>3, <2>5, SamePeer, QuietStep DEF Types
<1>9. CASE /\ ~IsSendStalled /\ unstall # <<>> /\ unstall' = Tail(unstall)
           /\ Active(s) /\ stream[s].stalled /\ stream[s].window > 0
           /\ QueueData(s, stream[s].pending, stream[s].window)
           /\ UNCHANGED <<requeue, resuming>>
  <2>. PICK len, w : len = stream[s].pending /\ w = stream[s].window
    OBVIOUS
  <2>1. s \in Streams /\ w \in Int /\ len \in Nat
    BY <1>2, <1>6, <1>9 DEF StreamType
  <2>2. stream[s].state = "open" /\ len \in Nat \ {0} /\ DataOf(Outgoing, s) = {}
    BY <1>0, <1>9, <2>1 DEF WakersOK, WakerOK, Active
  <2>3. PICK size \in Nat \ {0}, n \in Nat \ {0} : DataQueued(s, len, w, size, n)
    BY <1>0, <1>9, <2>1, <2>2, QueueDataQueues
  <2>4. PeerKept
    BY <1>1, <1>2 DEF PeerKept
  <2>5. /\ IsQueue(queue') /\ stream' \in [Streams -> StreamType] /\ send_window' \in Nat
        /\ FramesOK' /\ ResetOK' /\ RecvOK' /\ SessionAccount' /\ WakerOK(s)'
        /\ StreamOut(Outgoing, s) \in Nat
        /\ StreamOut(Outgoing', s) = StreamOut(Outgoing, s) + size
        /\ \A t \in Streams \ {s} :
             /\ StreamOut(Outgoing', t) = StreamOut(Outgoing, t)
             /\ DataOf(Outgoing', t) = DataOf(Outgoing, t)
             /\ stream'[t] = stream[t]
    BY <1>1, <2>1, <2>2, <2>3, <2>4, DataQueuedKeeps
  <2>6. /\ size <= w /\ stream'[s].state = "open" /\ stream'[s].window = w - size
    BY <2>2, <2>3 DEF DataQueued, Puts
  <2>7. \A t \in Streams : stream'[t].state = stream[t].state
    BY <2>2, <2>5, <2>6
  <2>8. Types'
    BY <1>0, <1>1, <1>6, <1>9, <2>5 DEF Types, recvVars
  <2>9. OneLoop'
    BY <1>0, <1>1, <1>2, <1>4, <1>9, <2>7, LoopsKept
  <2>10. ASSUME NEW t \in Streams, t # s PROVE StreamAccount(t)'
    <3>1. SendKept(t)
      BY <1>1, <2>5, <2>10 DEF SendKept
    <3>. QED
      BY <1>0, <3>1, KeepSend DEF SendOK
  <2>11. StreamAccount(s)'
    <3>1. StreamAccount(s) /\ peer.streamCredit[s] \in Int /\ s \notin adjust.todo
      BY <1>0, <1>2, <1>4, <2>1 DEF SendOK, PeerType
    <3>. QED
      BY <1>1, <2>1, <2>2, <2>5, <2>6, <3>1 DEF StreamAccount
  <2>12. SendOK'
    BY <1>0, <1>1, <2>5, <2>10, <2>11 DEF SendOK, Rules
  <2>13. ASSUME NEW t \in Streams, t # s PROVE WakerOK(t)'
    <3>1. Waits(t, stream[t].window) => Waits(t, stream[t].window)'
      BY <1>6, <1>9, <2>5, <2>13 DEF Waits, IsSendStalled
    <3>2. WakerKept(t)
      BY <2>5, <2>13, <3>1 DEF WakerKept
    <3>. QED
      BY <1>0, <3>2, KeepWaker DEF WakersOK
  <2>14. WakersOK'
    BY <2>5, <2>13 DEF WakersOK
  <2>. QED
    BY <1>3, <2>5, <2>8, <2>9, <2>12, <2>14 DEF Live
<1>. QED
  BY <1>5, <1>7, <1>8, <1>9 DEF ResumeSendStalledStreams

\* The window of s changes and s is not resumed.
LEMMA WindowKeeps ==
  ASSUME Live, NEW s \in Streams, NEW w \in Int,
         stream' = [stream EXCEPT ![s].window = w],
         ~(stream[s].stalled /\ ~IsSendStalled /\ w > 0),
         UNCHANGED <<queue, in_flight, send_window, unstall, requeue, resuming>>,
         PeerKept, UNCHANGED recvVars
  PROVE  /\ Puts(stream, stream', s, stream[s].state, w, stream[s].stalled,
                 stream[s].pending, stream[s].recv, stream[s].unacked)
         /\ FramesOK' /\ ResetOK' /\ RecvOK' /\ SessionAccount' /\ WakersOK'
         /\ Outgoing' = Outgoing
<1>0. Types /\ OneLoop /\ FramesOK /\ ResetOK /\ SendOK /\ RecvOK /\ WakersOK
  BY DEF Live
<1>1. /\ stream \in [Streams -> StreamType] /\ peer \in PeerType
  BY <1>0 DEF Types
<1>2. Puts(stream, stream', s, stream[s].state, w, stream[s].stalled,
           stream[s].pending, stream[s].recv, stream[s].unacked)
  BY <1>1, PutWindow
<1>3. Outgoing' = Outgoing
  BY DEF Outgoing
<1>4. \A t \in Streams : stream'[t].state = stream[t].state
  BY <1>2 DEF Puts
<1>5. FramesOK' /\ ResetOK'
  BY <1>0, <1>1, <1>3, <1>4, FramesKept, ResetKept DEF PeerKept
<1>6. RecvOK'
  <2>1. ASSUME NEW t \in Streams PROVE RecvKept(t)
    BY <1>2, <1>3 DEF RecvKept, Puts, PeerKept, recvVars
  <2>. QED
    BY <1>0, <1>3, <2>1, KeepRecvOK DEF PeerKept
<1>7. SessionAccount'
  BY <1>0, <1>3 DEF SendOK, SessionAccount, PeerKept
<1>8. ASSUME NEW t \in Streams, t # s PROVE WakerOK(t)'
  <2>1. stream'[t] = stream[t]
    BY <1>2, <1>8 DEF Puts
  <2>2. Waits(t, stream[t].window) => Waits(t, stream[t].window)'
    BY <2>1 DEF Waits, IsSendStalled
  <2>3. WakerKept(t)
    BY <1>3, <2>1, <2>2 DEF WakerKept
  <2>. QED
    BY <1>0, <2>3, KeepWaker DEF WakersOK
<1>9. WakerOK(s)'
  <2>1. WakerOK(s)
    BY <1>0 DEF WakersOK
  <2>2. /\ stream'[s].state = stream[s].state /\ stream'[s].window = w
        /\ stream'[s].stalled = stream[s].stalled /\ stream'[s].pending = stream[s].pending
    BY <1>2 DEF Puts
  <2>3. ASSUME stream[s].stalled, Waits(s, stream[s].window)
        PROVE  Waits(s, stream[s].window)'
    BY <2>2, <2>3 DEF Waits, IsSendStalled
  <2>. QED
    BY <1>3, <2>1, <2>2, <2>3 DEF WakerOK
<1>. QED
  BY <1>2, <1>3, <1>5, <1>6, <1>7, <1>8, <1>9 DEF WakersOK

\* A session that drains has kept the rules if the peer is to blame.
LEMMA DrainedKeeps ==
  ASSUME FlowControlKept, drained' # "no", peer'.overrun = peer.overrun,
         peer'.blamed \/ drained' \in {"send window overflow", "receive window exceeded"}
           => peer'.faulty
  PROVE  IInv'
BY DEF IInv, FlowControlKept

\* A stream gets the window w and may be resumed by it.
LEMMA ResumeKeeps ==
  ASSUME Live, NEW s \in Streams, stream[s].state \in {"created", "activated", "open"},
         NEW w \in Int, PossiblyResumeIfSendStalled(s, w), PostIfEnqueued,
         PeerKept, peer'.lowered = peer.lowered, Rules', events' \in Nat,
         w + StreamOut(Outgoing, s) = peer'.streamCredit[s], ~peer.lowered => w >= 0,
         \A t \in Streams \ {s} : peer'.streamCredit[t] = peer.streamCredit[t],
         adjust' \in [todo : SUBSET Streams, delta : Int],
         adjust'.todo = adjust.todo \ {s}, adjust'.delta = adjust.delta,
         UNCHANGED <<initial_window, resuming, requeue, in_flight, in_io_loop, recvVars>>
  PROVE  Live'
<1>0. Types /\ OneLoop /\ FramesOK /\ ResetOK /\ SendOK /\ RecvOK /\ WakersOK
  BY DEF Live
<1>1. /\ stream \in [Streams -> StreamType] /\ peer \in PeerType
      /\ adjust \in [todo : SUBSET Streams, delta : Int]
      /\ StreamOut(Outgoing, s) \in Nat /\ peer'.streamCredit[s] \in Int
  BY <1>0, OutgoingIsOut DEF Types, OutNat, PeerKept, PeerType
<1>2. ASSUME \A t \in Streams : stream'[t].state = stream[t].state PROVE OneLoop'
  BY <1>0, <1>1, <1>2, PostPosts DEF OneLoop, Posts
<1>3. ASSUME NEW t \in Streams, t # s, stream'[t] = stream[t],
             StreamOut(Outgoing', t) = StreamOut(Outgoing, t)
      PROVE  StreamAccount(t)'
  <2>1. SendKept(t)
    BY <1>3 DEF SendKept
  <2>. QED
    BY <1>0, <2>1, KeepSend DEF SendOK
<1>4. CASE /\ ~(stream[s].stalled /\ ~IsSendStalled /\ w > 0)
           /\ stream' = [stream EXCEPT ![s].window = w]
           /\ UNCHANGED <<sendVars, queue>>
  <2>1. /\ Puts(stream, stream', s, stream[s].state, w, stream[s].stalled,
                stream[s].pending, stream[s].recv, stream[s].unacked)
        /\ FramesOK' /\ ResetOK' /\ RecvOK' /\ SessionAccount' /\ WakersOK'
        /\ Outgoing' = Outgoing
    BY <1>4, WindowKeeps DEF sendVars
  <2>2. Types'
    BY <1>0, <1>4, <2>1 DEF Types, Puts, recvVars, sendVars, PeerKept
  <2>3. OneLoop'
    BY <1>2, <2>1 DEF Puts
  <2>4. StreamAccount(s)'
    <3>1. /\ stream'[s].state = stream[s].state /\ stream'[s].window = w
          /\ s \notin adjust'.todo /\ stream'[s].state # "closed"
          /\ StreamOut(Outgoing', s) = StreamOut(Outgoing, s)
      BY <2>1 DEF Puts
    <3>2. w + 0 + StreamOut(Outgoing, s) = peer'.streamCredit[s]
      BY <1>1
    <3>. QED
      BY <3>1, <3>2 DEF StreamAccount
  <2>5. SendOK'
    BY <1>3, <2>1, <2>4 DEF SendOK, Puts
  <2>. QED
    BY <2>1, <2>2, <2>3, <2>5 DEF Live
<1>5. CASE /\ stream[s].stalled /\ ~IsSendStalled /\ w > 0
           /\ QueueData(s, stream[s].pending, w) /\ UNCHANGED unstall
  <2>. PICK len : len = stream[s].pending
    OBVIOUS
  <2>1. /\ len \in Nat \ {0} /\ stream[s].state = "open" /\ DataOf(Outgoing, s) = {}
    BY <1>0, <1>1, <1>5 DEF WakersOK, WakerOK, StreamType
  <2>2. PICK size \in Nat \ {0}, n \in Nat \ {0} : DataQueued(s, len, w, size, n)
    BY <1>0, <1>5, <2>1, QueueDataQueues
  <2>3. /\ IsQueue(queue') /\ stream' \in [Streams -> StreamType] /\ send_window' \in Nat
        /\ FramesOK' /\ ResetOK' /\ RecvOK' /\ SessionAccount' /\ WakerOK(s)'
        /\ StreamOut(Outgoing, s) \in Nat
        /\ StreamOut(Outgoing', s) = StreamOut(Outgoing, s) + size
        /\ \A t \in Streams \ {s} :
             /\ StreamOut(Outgoing', t) = StreamOut(Outgoing, t)
             /\ DataOf(Outgoing', t) = DataOf(Outgoing, t)
             /\ stream'[t] = stream[t]
    <3>1. in_flight' = in_flight /\ UNCHANGED recvVars
      OBVIOUS
    <3>. QED
      BY <2>1, <2>2, <3>1, DataQueuedKeeps
  <2>4. /\ size <= w /\ stream'[s].state = "open" /\ stream'[s].window = w - size
    BY <2>1, <2>2 DEF DataQueued, Puts
  <2>5. Types'
    BY <1>0, <1>5, <2>3 DEF Types, recvVars, PeerKept
  <2>6. OneLoop'
    BY <1>2, <2>1, <2>3, <2>4
  <2>7. StreamAccount(s)'
    <3>1. /\ (w - size) + 0 + (StreamOut(Outgoing, s) + size) = peer'.streamCredit[s]
          /\ w - size >= 0
      BY <1>1, <2>4, PartMoved
    <3>. QED
      BY <2>3, <2>4, <3>1 DEF StreamAccount
  <2>8. SendOK'
    BY <1>3, <2>3, <2>7 DEF SendOK
  <2>9. ASSUME NEW t \in Streams, t # s PROVE WakerOK(t)'
    <3>1. Waits(t, stream[t].window) => Waits(t, stream[t].window)'
      BY <1>5, <2>3, <2>9 DEF Waits, IsSendStalled
    <3>2. WakerKept(t)
      BY <2>3, <2>9, <3>1 DEF WakerKept
    <3>. QED
      BY <1>0, <3>2, KeepWaker DEF WakersOK
  <2>10. WakersOK'
    BY <2>3, <2>9 DEF WakersOK
  <2>. QED
    BY <2>3, <2>5, <2>6, <2>8, <2>10 DEF Live
<1>. QED
  BY <1>4, <1>5 DEF PossiblyResumeIfSendStalled

\* UpdateStreamsSendWindowSize keeps the invariant.
LEMMA StepAdjust ==
  ASSUME Live, FlowControlKept, NEW s \in Streams, AdjustSendWindowSize(s)
  PROVE  IInv'
<1>0. Types /\ OneLoop /\ FramesOK /\ ResetOK /\ SendOK /\ RecvOK /\ WakersOK
  BY DEF Live
<1>. PICK w : w = stream[s].window + adjust.delta
  OBVIOUS
<1>1. /\ drained = "no" /\ s \in adjust.todo
      /\ adjust' = [adjust EXCEPT !.todo = @ \ {s}]
      /\ PostIfEnqueued
      /\ UNCHANGED <<initial_window, resuming, requeue, in_flight, in_io_loop,
                     recvVars, peer, events>>
  BY DEF AdjustSendWindowSize
<1>2. /\ stream \in [Streams -> StreamType] /\ peer \in PeerType
      /\ send_window \in Nat /\ IsQueue(queue) /\ unstall \in Seq(Streams)
      /\ adjust \in [todo : SUBSET Streams, delta : Int] /\ MaxWindow \in Nat
  BY <1>0, WindowsAssumption DEF Types
<1>3. /\ adjust' \in [todo : SUBSET Streams, delta : Int]
      /\ adjust'.todo = adjust.todo \ {s} /\ adjust'.delta = adjust.delta
  BY <1>1, <1>2
<1>4. /\ w \in Int /\ stream[s].window \in Int /\ peer.streamCredit[s] \in Int
      /\ StreamOut(Outgoing, s) \in Nat
  <2>1. stream[s].window \in Int /\ peer.streamCredit[s] \in Int /\ adjust.delta \in Int
    BY <1>2 DEF StreamType, PeerType
  <2>2. StreamOut(Outgoing, s) \in Nat
    BY <1>0, OutgoingIsOut DEF OutNat
  <2>. QED
    BY <2>1, <2>2
<1>5. /\ w + StreamOut(Outgoing, s) = peer.streamCredit[s]
      /\ stream[s].state \in {"created", "activated", "open"}
      /\ ~peer.lowered => w >= 0
  <2>1. s \in adjust.todo /\ stream[s].state \in {"created", "activated", "open"}
    BY <1>0, <1>1 DEF OneLoop
  <2>2. /\ w + StreamOut(Outgoing, s) = peer.streamCredit[s]
        /\ ~peer.lowered => stream[s].window >= 0
    BY <1>0, <2>1 DEF SendOK, StreamAccount
  <2>3. ~peer.lowered => adjust.delta >= 0
    BY <1>0, <2>1 DEF SendOK, Rules
  <2>. QED
    BY <1>2, <1>4, <2>1, <2>2, <2>3
<1>6. CASE w > MaxWindow /\ Drain("send window overflow")
  <2>1. peer.faulty
    <3>1. SUFFICES ASSUME ~peer.faulty PROVE FALSE
      OBVIOUS
    <3>2. peer.streamCredit[s] <= MaxWindow
      BY <1>0, <3>1 DEF SendOK, Rules
    <3>3. w <= MaxWindow
      BY <1>2, <1>4, <1>5, <3>2, PartBounded
    <3>4. w > MaxWindow
      BY <1>6
    <3>. QED
      BY <1>2, <1>4, <3>3, <3>4
  <2>. QED
    BY <1>1, <1>6, <2>1, DrainedKeeps DEF Drain
<1>7. CASE PossiblyResumeIfSendStalled(s, w) /\ drained' = drained
  <2>1. PeerKept /\ events' \in Nat
    BY <1>0, <1>1, <1>2 DEF PeerKept, Types
  <2>2. Rules'
    BY <1>0, <1>1, <1>2, <1>3 DEF SendOK, Rules
  <2>3. w + StreamOut(Outgoing, s) = peer'.streamCredit[s] /\ peer'.lowered = peer.lowered
    BY <1>1, <1>5
  <2>4. Live'
    BY <1>1, <1>3, <1>4, <1>5, <1>7, <2>1, <2>2, <2>3, ResumeKeeps
  <2>. QED
    BY <1>1, <1>7, <2>4 DEF IInv, FlowControlKept
<1>. QED
  BY <1>6, <1>7 DEF AdjustSendWindowSize

\* A write that fails drains the session for no fault of its windows.
LEMMA StepWriteFails ==
  ASSUME Live, FlowControlKept, WriteFails
  PROVE  IInv'
<1>1. drained' = "write error" /\ peer' = peer
  BY DEF WriteFails, Drain
<1>. QED
  BY <1>1, DrainedKeeps DEF FlowControlKept

\* A WINDOW_UPDATE of the session keeps the invariant.
LEMMA StepSessionWindowUpdate ==
  ASSUME Live, FlowControlKept, NEW delta \in 0..MaxLen, OnSessionWindowUpdate(delta)
  PROVE  IInv'
<1>0. Types /\ OneLoop /\ FramesOK /\ ResetOK /\ SendOK /\ RecvOK /\ WakersOK
  BY DEF Live
<1>. PICK breaks : breaks = (delta < 1 \/ peer.credit + delta > MaxWindow)
  OBVIOUS
<1>1. /\ drained = "no" /\ ~resuming /\ adjust.todo = {} /\ ~in_io_loop
      /\ CountsIf(breaks)
      /\ peer' = [peer EXCEPT !.credit = @ + delta, !.faulty = @ \/ breaks]
      /\ UNCHANGED <<initial_window, unstall, requeue, adjust, writeVars, recvVars>>
  BY DEF OnSessionWindowUpdate, Idle
<1>2. /\ stream \in [Streams -> StreamType] /\ peer \in PeerType /\ delta \in Nat
      /\ send_window \in Nat /\ peer.credit \in Int /\ MaxWindow \in Nat
      /\ breaks \in BOOLEAN /\ peer.faulty \in BOOLEAN /\ events \in Nat
  BY <1>0, WindowsAssumption, BoundsAssumption DEF Types, PeerType
<1>3. PeerIs(peer', peer.credit + delta, peer.window, peer.streamCredit, peer.streamWindow,
             peer.open, peer.reset, peer.faulty \/ breaks, peer.overrun, peer.blamed,
             peer.lowered)
  <2>1. peer.credit + delta \in Int /\ (peer.faulty \/ breaks) \in BOOLEAN
    BY <1>2
  <2>. QED
    BY <1>1, <1>2, <2>1, PeerGives
<1>4. /\ SessionOut(Outgoing) \in Nat /\ send_window + SessionOut(Outgoing) = peer.credit
  BY <1>0, OutgoingIsOut DEF OutNat, SendOK, SessionAccount
<1>5. CASE /\ delta < 1 \/ send_window + delta > MaxWindow
           /\ Drain("send window overflow")
  <2>. PICK out, credit : out = SessionOut(Outgoing) /\ credit = peer.credit
    OBVIOUS
  <2>3. out \in Nat /\ credit \in Int /\ send_window + out = credit
    BY <1>2, <1>4
  <2>4. delta < 1 \/ send_window + delta > MaxWindow
    BY <1>5
  <2>5. delta < 1 \/ credit + delta > MaxWindow
    BY <1>2, <2>3, <2>4
  <2>0. delta < 1 \/ peer.credit + delta > MaxWindow
    BY <2>5
  <2>1. breaks
    BY <2>0
  <2>2. drained' # "no"
    BY <1>5 DEF Drain
  <2>. QED
    BY <1>3, <2>1, <2>2, DrainedKeeps DEF PeerIs
<1>6. CASE /\ delta >= 1 /\ send_window + delta <= MaxWindow
           /\ send_window' = send_window + delta /\ resuming' = TRUE
           /\ UNCHANGED <<drained, stream>>
  <2>1. Outgoing' = Outgoing
    BY <1>1 DEF Outgoing, writeVars
  <2>2. events' \in Nat
    BY <1>1, <1>2 DEF CountsIf, Counts
  <2>3. Types'
    <3>1. send_window' \in Nat /\ resuming' \in BOOLEAN
      BY <1>2, <1>6
    <3>. QED
      BY <1>0, <1>1, <1>3, <1>6, <2>2, <3>1 DEF Types, PeerIs, writeVars, recvVars
  <2>4. OneLoop'
    BY <1>0, <1>1, <1>6 DEF OneLoop, writeVars
  <2>5. FramesOK' /\ ResetOK'
    BY <1>0, <1>2, <1>3, <1>6, <2>1, FramesKept, ResetKept DEF PeerIs
  <2>6. SendOK'
    <3>1. ASSUME NEW t \in Streams PROVE StreamAccount(t)'
      <4>1. SendKept(t)
        BY <1>1, <1>3, <1>6, <2>1 DEF SendKept, PeerIs
      <4>. QED
        BY <1>0, <4>1, KeepSend DEF SendOK
    <3>2. SessionAccount'
      <4>1. (send_window + delta) + SessionOut(Outgoing) = peer.credit + delta
        BY <1>2, <1>4
      <4>. QED
        BY <1>3, <1>6, <2>1, <4>1 DEF SessionAccount, PeerIs
    <3>3. Rules'
      <4>0. ~peer'.faulty => ~(peer.credit + delta > MaxWindow)
        BY <1>3, Zenon DEF PeerIs
      <4>1. ~peer'.faulty => peer.credit + delta <= MaxWindow
        BY <1>2, <4>0
      <4>. QED
        BY <1>0, <1>1, <1>3, <4>1 DEF SendOK, Rules, PeerIs
    <3>. QED
      BY <3>1, <3>2, <3>3 DEF SendOK
  <2>7. RecvOK'
    <3>1. ASSUME NEW t \in Streams PROVE RecvKept(t)
      BY <1>1, <1>3, <1>6, <2>1 DEF RecvKept, recvVars, PeerIs
    <3>. QED
      BY <1>0, <1>1, <1>3, <2>1, <3>1, KeepRecvOK DEF PeerIs
  <2>8. ASSUME NEW t \in Streams, Waits(t, stream[t].window)
        PROVE  Waits(t, stream[t].window)'
    <3>1. ToSet(requeue) = {} /\ t \in ToSet(unstall)
      BY <1>0, <1>1, <2>8, QueueMembers DEF OneLoop, Waits, Types
    <3>. QED
      BY <1>1, <1>6, <3>1 DEF Waits
  <2>9. WakersOK'
    BY <1>1, <1>6, <2>8, QuietWaker DEF WakersOK, writeVars
  <2>10. FlowControlKept'
    BY <1>3, <1>6 DEF FlowControlKept, PeerIs
  <2>. QED
    BY <2>3, <2>4, <2>5, <2>6, <2>7, <2>9, <2>10 DEF Live, IInv
<1>. QED
  BY <1>5, <1>6 DEF OnSessionWindowUpdate

\* A setting of the initial window keeps the invariant.
LEMMA StepHandleSetting ==
  ASSUME Live, FlowControlKept, NEW value \in SettingValues, HandleSetting(value)
  PROVE  IInv'
<1>0. Types /\ OneLoop /\ FramesOK /\ ResetOK /\ SendOK /\ RecvOK /\ WakersOK
  BY DEF Live
<1>. PICK delta : delta = value - initial_window
  OBVIOUS
<1>. PICK todo : todo = {t \in Streams : Known(t)}
  OBVIOUS
<1>. PICK breaks : breaks = (\E t \in todo : peer.streamCredit[t] + delta > MaxWindow)
  OBVIOUS
<1>. PICK credits : credits = [t \in Streams |-> IF t \in todo THEN peer.streamCredit[t] + delta
                                                 ELSE peer.streamCredit[t]]
  OBVIOUS
<1>1. /\ drained = "no" /\ ~resuming /\ ~in_io_loop /\ events' = events + 1
      /\ initial_window' = value /\ adjust' = [todo |-> todo, delta |-> delta]
      /\ UNCHANGED <<drained, sendVars, resuming, requeue, writeVars, recvVars, stream>>
  BY DEF HandleSetting, Idle, Counts
<1>2. peer' = [peer EXCEPT !.faulty = peer.faulty \/ breaks,
                           !.lowered = peer.lowered \/ delta < 0, !.streamCredit = credits]
  BY <1>0 DEF HandleSetting, Types, PeerType
<1>3. /\ stream \in [Streams -> StreamType] /\ peer \in PeerType
      /\ value \in 0..MaxWindow /\ initial_window \in 0..MaxWindow /\ MaxWindow \in Nat
      /\ peer.streamCredit \in [Streams -> Int] /\ events \in Nat
      /\ breaks \in BOOLEAN /\ peer.faulty \in BOOLEAN /\ peer.lowered \in BOOLEAN
  BY <1>0, WindowsAssumption DEF Types, PeerType
<1>4. /\ delta \in Int /\ todo \subseteq Streams /\ credits \in [Streams -> Int]
      /\ \A t \in Streams : t \in todo <=> stream[t].state \in {"created", "activated", "open"}
      /\ \A t \in todo : credits[t] = peer.streamCredit[t] + delta
      /\ \A t \in Streams \ todo : credits[t] = peer.streamCredit[t]
  BY <1>3 DEF Known
<1>5. PeerIs(peer', peer.credit, peer.window, credits, peer.streamWindow, peer.open,
             peer.reset, peer.faulty \/ breaks, peer.overrun, peer.blamed,
             peer.lowered \/ delta < 0)
  <2>1. (peer.faulty \/ breaks) \in BOOLEAN /\ (peer.lowered \/ delta < 0) \in BOOLEAN
    BY <1>3
  <2>. QED
    BY <1>2, <1>3, <1>4, <2>1, PeerSets
<1>6. Outgoing' = Outgoing
  BY <1>1 DEF Outgoing, writeVars
<1>7. /\ adjust' \in [todo : SUBSET Streams, delta : Int]
      /\ adjust'.todo = todo /\ adjust'.delta = delta
  BY <1>1, <1>4
<1>8. Types'
  BY <1>0, <1>1, <1>3, <1>5, <1>7 DEF Types, PeerIs, sendVars, writeVars, recvVars
<1>9. OneLoop'
  BY <1>0, <1>1, <1>4, <1>7 DEF OneLoop, writeVars
<1>10. FramesOK' /\ ResetOK'
  BY <1>0, <1>1, <1>3, <1>5, <1>6, FramesKept, ResetKept DEF PeerIs
<1>11. ASSUME NEW t \in Streams PROVE StreamAccount(t)'
  <2>1. /\ stream[t].window \in Int /\ peer.streamCredit[t] \in Int
        /\ StreamOut(Outgoing, t) \in Nat
    BY <1>0, <1>3, OutgoingIsOut DEF StreamType, OutNat
  <2>2. /\ StreamAccount(t) /\ t \notin adjust.todo
    BY <1>0 DEF SendOK, HandleSetting, Idle
  <2>3. CASE t \in todo
    <3>1. stream[t].window + delta + StreamOut(Outgoing, t) = peer.streamCredit[t] + delta
      BY <1>4, <2>1, <2>2, <2>3 DEF StreamAccount
    <3>2. stream[t].state # "closed" /\ (~peer.lowered => stream[t].window >= 0)
      BY <1>4, <2>2, <2>3 DEF StreamAccount
    <3>. QED
      BY <1>1, <1>4, <1>5, <1>6, <1>7, <2>3, <3>1, <3>2 DEF StreamAccount, PeerIs
  <2>4. CASE t \notin todo
    <3>1. /\ ~(stream[t].state \in {"created", "activated", "open"})
          /\ credits[t] = peer.streamCredit[t]
      BY <1>4, <2>4
    <3>2. ~peer'.lowered => ~peer.lowered
      BY <1>5 DEF PeerIs
    <3>. QED
      BY <1>1, <1>5, <1>6, <2>2, <3>1, <3>2 DEF StreamAccount, PeerIs
  <2>. QED
    BY <2>3, <2>4
<1>12. SendOK'
  <2>1. SessionAccount'
    BY <1>0, <1>1, <1>5, <1>6 DEF SendOK, SessionAccount, PeerIs, sendVars
  <2>0. ~peer'.lowered => ~(delta < 0)
    BY <1>5, Zenon DEF PeerIs
  <2>2. ~peer'.lowered => delta >= 0
    BY <1>4, <2>0
  <2>3. ASSUME ~peer'.faulty
        PROVE  peer'.credit <= MaxWindow /\ \A t \in Streams : peer'.streamCredit[t] <= MaxWindow
    <3>1. ~peer.faulty /\ ~breaks
      BY <1>5, <2>3 DEF PeerIs
    <3>2. Rules
      BY <1>0 DEF SendOK
    <3>3. ASSUME NEW t \in todo PROVE credits[t] <= MaxWindow
      BY <1>3, <1>4, <3>1
    <3>4. ASSUME NEW t \in Streams, t \notin todo PROVE credits[t] <= MaxWindow
      BY <1>4, <3>1, <3>2, <3>4 DEF Rules
    <3>. QED
      BY <1>5, <3>1, <3>2, <3>3, <3>4 DEF Rules, PeerIs
  <2>4. Rules'
    BY <1>7, <2>2, <2>3 DEF Rules
  <2>. QED
    BY <1>11, <2>1, <2>4 DEF SendOK
<1>13. RecvOK'
  <2>1. ASSUME NEW t \in Streams PROVE RecvKept(t)
    BY <1>1, <1>5, <1>6 DEF RecvKept, recvVars, PeerIs
  <2>. QED
    BY <1>0, <1>1, <1>5, <1>6, <2>1, KeepRecvOK DEF PeerIs
<1>14. WakersOK'
  <2>1. ASSUME NEW t \in Streams PROVE WakerOK(t)'
    <3>1. Waits(t, stream[t].window) => Waits(t, stream[t].window)'
      BY <1>1 DEF Waits, IsSendStalled, sendVars
    <3>. QED
      BY <1>1, <3>1, QuietWaker DEF writeVars
  <2>. QED
    BY <2>1 DEF WakersOK
<1>15. FlowControlKept'
  BY <1>1, <1>5 DEF FlowControlKept, PeerIs
<1>. QED
  BY <1>8, <1>9, <1>10, <1>12, <1>13, <1>14, <1>15 DEF Live, IInv

-----------------------------------------------------------------------------
(***************************************************************************)
(* Streams that are closed.                                                *)
(***************************************************************************)
\* The queue q is the write queue, perhaps with a WINDOW_UPDATE of the
\* session and, last among the frames of s, a RST_STREAM of s.
Grown(q, s) ==
  /\ IsQueue(q) /\ queue \subseteq q
  /\ \A g \in q \ queue :
       \/ g.stream = 0 /\ g.type = "WINDOW_UPDATE" /\ g.priority = "HIGHEST"
       \/ /\ g.stream = s /\ g.type = "RST_STREAM" /\ g.priority = "tunnel"
          /\ \A h \in q \ {g} : h.stream = s /\ h.priority = "tunnel" => h.number < g.number

\* A queue and a window that s can be closed with: they are accounted for.
Closable(s, w, q) ==
  /\ Grown(q, s) /\ w \in Nat /\ w <= send_window
  /\ w + SessionOut(Out(q, in_flight)) = peer.credit
  /\ \A t \in Streams : /\ StreamOut(Out(q, in_flight), t) = StreamOut(Outgoing, t)
                        /\ UpdateOut(Out(q, in_flight), t) = UpdateOut(Outgoing, t)

\* What a step does that closes s, but for the windows and the queue.
Closing(s) ==
  /\ drained = "no" /\ ~resuming /\ adjust.todo = {} /\ Posts
  /\ stream[s].state \in {"created", "activated", "open"}
  /\ UNCHANGED <<initial_window, unstall, requeue, adjust, in_flight, in_io_loop,
                 recv_window, held>>
  /\ unacked' \in Nat /\ events' \in Nat /\ peer' \in PeerType
  /\ peer'.credit = peer.credit /\ peer'.overrun = peer.overrun
  /\ peer'.lowered = peer.lowered /\ peer'.reset = peer.reset
  /\ peer'.open \subseteq peer.open /\ peer'.streamCredit[s] >= peer.streamCredit[s]
  /\ \A t \in Streams \ {s} : /\ peer'.streamCredit[t] = peer.streamCredit[t]
                              /\ peer'.streamWindow[t] = peer.streamWindow[t]
  /\ peer.faulty \/ peer'.blamed => peer'.faulty
  /\ ~peer'.faulty => peer'.streamCredit[s] <= MaxWindow

\* What CloseStream does to the frames under way.
LEMMA CloseFrames ==
  ASSUME Live, NEW s \in Streams, NEW w, NEW q, Closable(s, w, q),
         queue' = RemovePendingWritesForStream(q, s), in_flight' = in_flight
  PROVE  /\ IsQueue(queue') /\ Discarded(q, s) \in Nat /\ OutNat(Outgoing')
         /\ w + Discarded(q, s) + SessionOut(Outgoing') = peer.credit
         /\ StreamOut(Outgoing', s) + Discarded(q, s) = StreamOut(Outgoing, s)
         /\ \A t \in Streams \ {s} : /\ StreamOut(Outgoing', t) = StreamOut(Outgoing, t)
                                     /\ DataOf(Outgoing', t) = DataOf(Outgoing, t)
         /\ \A t \in Streams : UpdateOut(Outgoing', t) = UpdateOut(Outgoing, t)
         /\ UpdateOut(Outgoing', 0) = UpdateOut(Out(q, in_flight), 0)
<1>1. /\ IsQueue(q) /\ IsWritten(in_flight) /\ Outgoing' = Out(queue', in_flight)
      /\ OutNat(Outgoing) /\ peer.credit \in Int
  BY OutgoingIsOut DEF Closable, Grown, Live, Types, PeerType
<1>2. /\ IsQueue(queue') /\ Discarded(q, s) \in Nat
      /\ Adds(Out(q, in_flight), Outgoing', "DATA", s, -Discarded(q, s))
  BY <1>1, RemoveAdds
<1>. PICK F, back : F = Out(q, in_flight) /\ back = Discarded(q, s)
  OBVIOUS
<1>3. OutNat(F) /\ OutNat(Outgoing')
  BY <1>1, <1>2, OutsAreNat
<1>4. /\ SessionOut(Outgoing') = SessionOut(F) + (-back)
      /\ StreamOut(Outgoing', s) = StreamOut(F, s) + (-back)
      /\ \A t \in Streams \ {s} : StreamOut(Outgoing', t) = StreamOut(F, t)
      /\ \A t \in Streams \cup {0} : UpdateOut(Outgoing', t) = UpdateOut(F, t)
  <2>. PICK less : less = -back
    OBVIOUS
  <2>1. less \in Int /\ Adds(F, Outgoing', "DATA", s, less)
    BY <1>2
  <2>2. /\ SessionOut(Outgoing') = SessionOut(F) + less
        /\ StreamOut(Outgoing', s) = StreamOut(F, s) + less
        /\ \A t \in Streams \ {s} : StreamOut(Outgoing', t) = StreamOut(F, t)
        /\ \A t \in Streams \cup {0} : UpdateOut(Outgoing', t) = UpdateOut(F, t)
    BY <1>3, <2>1, AddsData
  <2>. QED
    BY <2>2
<1>5. /\ w \in Nat /\ w + SessionOut(F) = peer.credit
      /\ \A t \in Streams : /\ StreamOut(F, t) = StreamOut(Outgoing, t)
                            /\ UpdateOut(F, t) = UpdateOut(Outgoing, t)
  BY DEF Closable
<1>6. SessionOut(F) \in Nat /\ StreamOut(F, s) \in Nat /\ back \in Nat
  BY <1>2, <1>3 DEF OutNat
<1>7. /\ w + back + SessionOut(Outgoing') = peer.credit
      /\ StreamOut(Outgoing', s) + back = StreamOut(Outgoing, s)
  BY <1>1, <1>4, <1>5, <1>6
<1>8. ASSUME NEW t \in Streams, t # s
      PROVE  DataOf(Outgoing', t) = DataOf(Outgoing, t)
  <2>1. ASSUME NEW g, g.type = "DATA", g.stream = t PROVE g \in queue' <=> g \in queue
    <3>1. g \in q => g \in queue
      BY <1>8, <2>1, StreamsAssumption DEF Closable, Grown
    <3>2. queue \subseteq q
      BY DEF Closable, Grown
    <3>. QED
      BY <1>8, <2>1, <3>1, <3>2 DEF RemovePendingWritesForStream, OfStream
  <2>. QED
    BY <2>1 DEF DataOf, Outgoing
<1>. QED
  BY <1>2, <1>3, <1>4, <1>5, <1>7, <1>8

\* The frames that are left fit the streams.
LEMMA CloseFits ==
  ASSUME Live, NEW s \in Streams, NEW q, Grown(q, s), stream[s].state # "none",
         queue' = RemovePendingWritesForStream(q, s), in_flight' = in_flight,
         peer \in PeerType, peer'.open \subseteq peer.open, peer'.reset = peer.reset,
         stream'[s].state = "closed", \A t \in Streams \ {s} : stream'[t] = stream[t]
  PROVE  FramesOK'
<1>0. Types /\ FramesOK
  BY DEF Live
<1>1. ASSUME NEW g \in queue' PROVE g \in q /\ ~OfStream(g, s) /\ g.number # 0
  BY QueuedFacts DEF RemovePendingWritesForStream, Grown
<1>2. ASSUME NEW g \in Outgoing', g \in Outgoing, g.stream # s PROVE FrameOK(g)'
  BY <1>0, <1>2, OutgoingFacts, KeepFrame DEF FramesOK
<1>3. ASSUME NEW g \in Outgoing', g \in Outgoing, g.stream = s PROVE FrameOK(g)'
  <2>1. g.type = "HEADERS" => g.number = 0
    <3>1. CASE g \in queue'
      BY <1>1, <1>3, <3>1 DEF OfStream
    <3>2. CASE g = in_flight
      BY <1>0, <3>2, OutgoingIsOut, WrittenFacts
    <3>. QED
      BY <3>1, <3>2 DEF Outgoing
  <2>2. s # 0 /\ g.priority = "tunnel"
    BY <1>0, <1>3, StreamsAssumption DEF FramesOK, FrameOK
  <2>. QED
    BY <1>3, <2>1, <2>2 DEF FrameOK
<1>4. ASSUME NEW g \in Outgoing', g \notin Outgoing PROVE FrameOK(g)' /\ g.type # "HEADERS"
  <2>1. g \in q \ queue
    BY <1>1, <1>4 DEF Outgoing
  <2>2. CASE g.stream = 0 /\ g.type = "WINDOW_UPDATE" /\ g.priority = "HIGHEST"
    BY <2>2 DEF FrameOK
  <2>3. CASE g.stream = s /\ g.type = "RST_STREAM" /\ g.priority = "tunnel"
    BY <2>3, StreamsAssumption DEF FrameOK
  <2>. QED
    BY <2>1, <2>2, <2>3 DEF Grown
<1>5. \A g \in Outgoing' : FrameOK(g)'
  BY <1>2, <1>3, <1>4
<1>6. ASSUME NEW g \in Outgoing', NEW h \in Outgoing',
             g.type = "HEADERS", h.type = "HEADERS", g.stream = h.stream
      PROVE  g = h
  BY <1>0, <1>4, <1>6 DEF FramesOK
<1>7. /\ \A t \in peer'.open : stream'[t].state \notin {"none", "created"}
      /\ \A t \in peer'.reset : stream'[t].state = "closed"
  BY <1>0 DEF FramesOK, PeerType
<1>. QED
  BY <1>5, <1>6, <1>7 DEF FramesOK

\* A RST_STREAM of s is behind all other frames of s.
LEMMA CloseLast ==
  ASSUME Live, NEW s \in Streams, NEW q, Grown(q, s), stream[s].state # "closed",
         queue' = RemovePendingWritesForStream(q, s), in_flight' = in_flight,
         peer \in PeerType, peer'.reset = peer.reset
  PROVE  ResetOK'
<1>0. Types /\ FramesOK /\ ResetOK
  BY DEF Live
<1>1. s \notin peer.reset /\ \A g \in Outgoing : g.stream = s => g.type # "RST_STREAM"
  BY <1>0, NoReset
<1>2. ASSUME NEW g \in Outgoing', g \notin Outgoing
      PROVE  /\ g \in q \ queue
             /\ \/ g.stream = 0 /\ g.type = "WINDOW_UPDATE"
                \/ /\ g.stream = s /\ g.type = "RST_STREAM" /\ g.priority = "tunnel"
                   /\ \A h \in q \ {g} :
                        h.stream = s /\ h.priority = "tunnel" => h.number < g.number
  <2>1. g \in q \ queue
    BY <1>2 DEF Outgoing, RemovePendingWritesForStream
  <2>. QED
    BY <2>1 DEF Grown
<1>3. ASSUME NEW g \in Outgoing' PROVE g.stream \notin peer'.reset
  <2>1. CASE g \in Outgoing
    BY <1>0, <2>1 DEF ResetOK
  <2>2. CASE g \notin Outgoing
    BY <1>1, <1>2, <2>2, StreamsAssumption DEF PeerType
  <2>. QED
    BY <2>1, <2>2
<1>4. ASSUME NEW g \in Outgoing', NEW h \in Outgoing', g.type = "RST_STREAM",
             h.stream = g.stream
      PROVE  ~Before(g, h)
  <2>1. CASE g \in Outgoing
    <3>1. g.stream \in Streams /\ g.stream # s
      BY <1>0, <1>1, <1>4, <2>1, OutgoingFacts
    <3>2. h \in Outgoing
      BY <1>2, <1>4, <3>1, StreamsAssumption
    <3>. QED
      BY <1>0, <1>4, <2>1, <3>2 DEF ResetOK
  <2>2. CASE g \notin Outgoing
    <3>1. /\ g \in q /\ g.stream = s /\ g.priority = "tunnel"
          /\ \A i \in q \ {g} : i.stream = s /\ i.priority = "tunnel" => i.number < g.number
      BY <1>2, <1>4, <2>2
    <3>2. g.number \in Nat \ {0}
      BY <3>1, QueuedFacts DEF Grown
    <3>3. CASE h = g
      BY <3>2, <3>3 DEF Before
    <3>4. CASE h = in_flight
      BY <1>0, <3>4, OutgoingIsOut, WrittenFacts DEF Before
    <3>5. CASE h \in queue' /\ h # g
      <4>1. h \in q
        BY <3>5 DEF RemovePendingWritesForStream
      <4>2. h.number \in Nat \ {0}
        BY <4>1, QueuedFacts DEF Grown
      <4>3. h.priority = "tunnel" => h.number < g.number
        BY <1>4, <3>1, <3>5, <4>1
      <4>. QED
        BY <3>1, <3>2, <4>2, <4>3 DEF Before
    <3>. QED
      BY <3>3, <3>4, <3>5 DEF Outgoing
  <2>. QED
    BY <2>1, <2>2
<1>. QED
  BY <1>3, <1>4 DEF ResetOK

\* CloseStream keeps the invariant.
LEMMA CloseKeeps ==
  ASSUME Live, FlowControlKept, NEW s \in Streams, NEW w, NEW q, Closable(s, w, q),
         Closing(s), CloseStream(s, w, q),
         UpdateOut(Outgoing', 0) = UpdateOut(Out(q, in_flight), 0) => SessionRecv'
  PROVE  IInv'
<1>0. Types /\ OneLoop /\ FramesOK /\ ResetOK /\ SendOK /\ RecvOK /\ WakersOK
  BY DEF Live
<1>. PICK back : back = Discarded(q, s)
  OBVIOUS
<1>1. /\ queue' = RemovePendingWritesForStream(q, s) /\ in_flight' = in_flight
      /\ drained = "no" /\ ~resuming /\ adjust.todo = {} /\ Posts /\ requeue = <<>>
      /\ stream[s].state \in {"created", "activated", "open"}
  BY <1>0 DEF CloseStream, Closing, OneLoop
<1>2. /\ stream \in [Streams -> StreamType] /\ peer \in PeerType /\ MaxWindow \in Nat
      /\ w \in Nat /\ w <= send_window /\ send_window \in Nat /\ peer.credit \in Int
  BY <1>0, WindowsAssumption DEF Types, Closable, PeerType
<1>3. /\ IsQueue(queue') /\ back \in Nat /\ OutNat(Outgoing')
      /\ w + back + SessionOut(Outgoing') = peer.credit
      /\ StreamOut(Outgoing', s) + back = StreamOut(Outgoing, s)
      /\ \A t \in Streams \ {s} : /\ StreamOut(Outgoing', t) = StreamOut(Outgoing, t)
                                  /\ DataOf(Outgoing', t) = DataOf(Outgoing, t)
      /\ \A t \in Streams : UpdateOut(Outgoing', t) = UpdateOut(Outgoing, t)
      /\ UpdateOut(Outgoing', 0) = UpdateOut(Out(q, in_flight), 0)
  BY <1>1, CloseFrames
<1>4. SessionRecv'
  BY <1>3
<1>5. CASE w + back > MaxWindow /\ drained' = "send window overflow"
  <2>1. SessionOut(Outgoing') \in Nat
    BY <1>3 DEF OutNat
  <2>2. w + back > MaxWindow
    BY <1>5
  <2>3. peer.credit > MaxWindow
    <3>. PICK out, credit : out = SessionOut(Outgoing') /\ credit = peer.credit
      OBVIOUS
    <3>1. out \in Nat /\ credit \in Int /\ w + back + out = credit
      BY <1>2, <1>3, <2>1
    <3>2. credit > MaxWindow
      BY <1>2, <1>3, <2>2, <3>1
    <3>. QED
      BY <3>2
  <2>4. peer.faulty
    BY <1>0, <1>2, <2>3 DEF SendOK, Rules
  <2>. QED
    BY <1>5, <2>4, DrainedKeeps DEF Closing
<1>6. CASE /\ stream' = [stream EXCEPT ![s] = Closed] /\ send_window' = w + back
           /\ resuming' = (back > 0) /\ drained' = drained
  <2>1. Puts(stream, stream', s, "closed", 0, FALSE, 0, 0, 0)
    BY <1>2, <1>6, PutClosed
  <2>2. /\ stream' \in [Streams -> StreamType] /\ stream'[s].state = "closed"
        /\ \A t \in Streams \ {s} : stream'[t] = stream[t]
    BY <2>1 DEF Puts
  <2>3. send_window' \in Nat /\ resuming' \in BOOLEAN
    BY <1>2, <1>3, <1>6
  <2>4. Types'
    BY <1>0, <1>3, <2>2, <2>3 DEF Types, Closing
  <2>5. OneLoop'
    BY <1>0, <1>1 DEF OneLoop, Closing, Posts
  <2>6. FramesOK'
    BY <1>1, <1>2, <2>2, CloseFits DEF Closable, Closing
  <2>7. ResetOK'
    BY <1>1, <1>2, CloseLast DEF Closable, Closing
  <2>8. SendOK'
    <3>1. SessionAccount'
      BY <1>3, <1>6 DEF SessionAccount, Closing
    <3>2. ASSUME NEW t \in Streams, t # s PROVE StreamAccount(t)'
      <4>1. SendKept(t)
        BY <1>3, <2>2, <3>2 DEF SendKept, Closing
      <4>. QED
        BY <1>0, <4>1, KeepSend DEF SendOK
    <3>3. StreamAccount(s)'
      <4>. PICK win, out, left, credit, credit2 :
             /\ win = stream[s].window /\ out = StreamOut(Outgoing, s)
             /\ left = StreamOut(Outgoing', s)
             /\ credit = peer.streamCredit[s] /\ credit2 = peer'.streamCredit[s]
        OBVIOUS
      <4>1. win \in Int /\ out \in Nat /\ left \in Nat /\ credit \in Int /\ credit2 \in Int
        BY <1>0, <1>2, <1>3, OutgoingIsOut DEF StreamType, PeerType, OutNat, Closing
      <4>2. win + out = credit /\ (~peer.lowered => win >= 0)
        BY <1>0, <1>1, <4>1 DEF SendOK, StreamAccount
      <4>3. left + back = out /\ credit2 >= credit
        BY <1>3 DEF Closing
      <4>4. ~peer.lowered => left <= credit2
        BY <1>3, <4>1, <4>2, <4>3
      <4>5. ~peer'.lowered => StreamOut(Outgoing', s) <= peer'.streamCredit[s]
        BY <4>4 DEF Closing
      <4>. QED
        BY <2>2, <4>5 DEF StreamAccount
    <3>4. Rules'
      <4>1. Rules
        BY <1>0 DEF SendOK
      <4>2. ASSUME ~peer'.faulty, NEW t \in Streams PROVE peer'.streamCredit[t] <= MaxWindow
        BY <4>1, <4>2 DEF Rules, Closing
      <4>. QED
        BY <4>1, <4>2 DEF Rules, Closing
    <3>. QED
      BY <3>1, <3>2, <3>3, <3>4 DEF SendOK
  <2>9. RecvOK'
    <3>1. ASSUME NEW t \in Streams PROVE StreamRecv(t)'
      <4>1. RecvKept(t)
        BY <1>3, <2>2 DEF RecvKept, Closing
      <4>. QED
        BY <1>0, <4>1, KeepRecv DEF RecvOK
    <3>. QED
      BY <1>4, <3>1 DEF RecvOK
  <2>10. WakersOK'
    <3>1. ASSUME NEW t \in Streams, t # s, Waits(t, stream[t].window)
          PROVE  Waits(t, stream[t].window)'
      <4>1. t \in ToSet(unstall) /\ ToSet(requeue) = {}
        BY <1>0, <1>1, <3>1, QueueMembers DEF Waits, Types
      <4>2. CASE back > 0
        BY <1>6, <2>2, <3>1, <4>1, <4>2 DEF Waits, Closing
      <4>3. CASE back = 0
        <5>1. send_window = 0 \/ stream[t].window <= 0
          BY <1>1, <3>1 DEF Waits, IsSendStalled
        <5>2. send_window = 0 => send_window' = 0
          BY <1>2, <1>6, <4>3
        <5>. QED
          BY <2>2, <3>1, <4>1, <5>1, <5>2 DEF Waits, IsSendStalled, Closing
      <4>. QED
        BY <1>3, <4>2, <4>3
    <3>2. ASSUME NEW t \in Streams PROVE WakerKept(t)
      <4>1. CASE t = s
        BY <2>2, <4>1 DEF WakerKept
      <4>2. CASE t # s
        BY <1>3, <2>2, <3>1, <4>2 DEF WakerKept
      <4>. QED
        BY <4>1, <4>2
    <3>. QED
      BY <1>0, <3>2, KeepWaker DEF WakersOK
  <2>11. FlowControlKept'
    BY <1>1, <1>6 DEF FlowControlKept, Closing
  <2>. QED
    BY <2>4, <2>5, <2>6, <2>7, <2>8, <2>9, <2>10, <2>11 DEF Live, IInv
<1>. QED
  BY <1>5, <1>6 DEF CloseStream, Drain

\* The write queue can be closed with.
LEMMA QueueClosable ==
  ASSUME Live, NEW s \in Streams
  PROVE  Closable(s, send_window, queue) /\ Out(queue, in_flight) = Outgoing
<1>1. Out(queue, in_flight) = Outgoing /\ IsQueue(queue) /\ send_window \in Nat
  BY OutgoingIsOut DEF Live, Types
<1>. QED
  BY <1>1 DEF Live, SendOK, SessionAccount, Closable, Grown

\* So can the queue with a RST_STREAM.
LEMMA ResetClosable ==
  ASSUME Live, NEW s \in Streams, NEW q, Closable(s, send_window, q),
         \A g \in q : g.stream = s => g.type # "RST_STREAM",
         NEW padding \in ResetPaddings
  PROVE  LET q2 == Enqueue(q, "tunnel", "RST_STREAM", s, padding)
         IN  /\ Closable(s, send_window - padding, q2)
             /\ UpdateOut(Out(q2, in_flight), 0) = UpdateOut(Out(q, in_flight), 0)
<1>. PICK q2 : q2 = Enqueue(q, "tunnel", "RST_STREAM", s, padding)
  OBVIOUS
<1>1. padding \in Nat /\ padding <= send_window /\ send_window \in Nat /\ peer.credit \in Int
  BY FramesAssumption DEF ResetPaddings, Live, Types, PeerType
<1>2. /\ IsQueue(q) /\ IsWritten(in_flight) /\ queue \subseteq q
  BY OutgoingIsOut DEF Closable, Grown, Live
<1>3. PICK n \in Nat \ {0} : Appended(q, q2, Frame("RST_STREAM", s, padding, "tunnel", n))
  BY <1>1, <1>2, EnqueueAppends DEF Priorities, FrameTypes
<1>. PICK f : f = Frame("RST_STREAM", s, padding, "tunnel", n)
  OBVIOUS
<1>4. /\ f.type = "RST_STREAM" /\ f.stream = s /\ f.size = padding /\ f.priority = "tunnel"
      /\ f.number = n /\ Appended(q, q2, f)
  BY <1>3 DEF Frame
<1>. PICK F, G : F = Out(q, in_flight) /\ G = Out(q2, in_flight)
  OBVIOUS
<1>5. IsQueue(q2) /\ OutNat(F) /\ Adds(F, G, "RST_STREAM", s, padding)
  BY <1>2, <1>4, AppendedQueue, OutsAreNat, AppendedAdds
<1>6. /\ SessionOut(G) = SessionOut(F) + padding
      /\ \A t \in Streams : StreamOut(G, t) = StreamOut(F, t)
      /\ \A t \in Streams \cup {0} : UpdateOut(G, t) = UpdateOut(F, t)
  BY <1>1, <1>5, AddsReset
<1>7. Grown(q2, s)
  <2>1. queue \subseteq q2
    BY <1>2, <1>4 DEF Appended
  <2>2. ASSUME NEW g \in q2 \ queue
        PROVE  \/ g.stream = 0 /\ g.type = "WINDOW_UPDATE" /\ g.priority = "HIGHEST"
               \/ /\ g.stream = s /\ g.type = "RST_STREAM" /\ g.priority = "tunnel"
                  /\ \A h \in q2 \ {g} :
                       h.stream = s /\ h.priority = "tunnel" => h.number < g.number
    <3>1. CASE g = f
      BY <1>4, <3>1 DEF Appended
    <3>2. CASE g \in q \ queue
      BY <3>2 DEF Closable, Grown
    <3>. QED
      BY <1>4, <3>1, <3>2 DEF Appended
  <2>. QED
    BY <1>5, <2>1, <2>2 DEF Grown
<1>8. send_window - padding + SessionOut(G) = peer.credit
  <2>1. send_window + SessionOut(F) = peer.credit /\ SessionOut(F) \in Nat
    BY <1>5 DEF Closable, OutNat
  <2>. QED
    BY <1>1, <1>6, <2>1
<1>9. send_window - padding \in Nat /\ send_window - padding <= send_window
  BY <1>1
<1>. QED
  BY <1>6, <1>7, <1>8, <1>9 DEF Closable

\* ResetStreamIterator keeps the invariant.
LEMMA ResetKeeps ==
  ASSUME Live, FlowControlKept, NEW s \in Streams, NEW q, Closable(s, send_window, q),
         \A g \in q : g.stream = s => g.type # "RST_STREAM",
         Closing(s), ResetStream(s, q),
         UpdateOut(Outgoing', 0) = UpdateOut(Out(q, in_flight), 0) => SessionRecv'
  PROVE  IInv'
<1>1. PICK padding \in ResetPaddings :
        CloseStream(s, send_window - padding, Enqueue(q, "tunnel", "RST_STREAM", s, padding))
  BY DEF ResetStream
<1>. PICK q2, w : q2 = Enqueue(q, "tunnel", "RST_STREAM", s, padding) /\ w = send_window - padding
  OBVIOUS
<1>2. /\ Closable(s, w, q2)
      /\ UpdateOut(Out(q2, in_flight), 0) = UpdateOut(Out(q, in_flight), 0)
  BY ResetClosable
<1>3. CloseStream(s, w, q2)
  BY <1>1
<1>4. UpdateOut(Outgoing', 0) = UpdateOut(Out(q2, in_flight), 0) => SessionRecv'
  BY <1>2
<1>. QED
  BY <1>2, <1>3, <1>4, CloseKeeps

\* SpdyStream::Cancel keeps the invariant.
LEMMA StepCancel ==
  ASSUME Live, FlowControlKept, NEW s \in Streams, Cancel(s)
  PROVE  IInv'
<1>0. Types /\ OneLoop /\ FramesOK /\ ResetOK /\ SendOK /\ RecvOK /\ WakersOK
  BY DEF Live
<1>1. /\ drained = "no" /\ ~resuming /\ adjust.todo = {} /\ peer' = peer
      /\ UNCHANGED <<initial_window, unstall, requeue, adjust, in_flight, in_io_loop, recvVars,
                     events>>
  BY DEF Cancel, Idle
<1>2. /\ peer \in PeerType /\ events \in Nat /\ unacked \in Nat /\ peer.streamCredit[s] \in Int
      /\ (~peer.faulty => peer.streamCredit[s] <= MaxWindow) /\ (peer.blamed => peer.faulty)
  BY <1>0 DEF Types, PeerType, SendOK, Rules, FlowControlKept
<1>3. ASSUME Posts, stream[s].state \in {"created", "activated", "open"} PROVE Closing(s)
  BY <1>1, <1>2, <1>3 DEF Closing, recvVars
<1>4. UpdateOut(Outgoing', 0) = UpdateOut(Outgoing, 0) => SessionRecv'
  BY <1>0, <1>1, KeepSessionRecv DEF RecvOK
<1>5. Closable(s, send_window, queue) /\ Out(queue, in_flight) = Outgoing
  BY QueueClosable
<1>6. CASE Active(s) /\ ResetStream(s, queue) /\ MaybePostWriteLoop
  <2>1. Closing(s)
    BY <1>3, <1>6, PostPosts DEF Active
  <2>2. \A g \in queue : g.stream = s => g.type # "RST_STREAM"
    BY <1>0, <1>6, NoReset DEF Active, Outgoing
  <2>. QED
    BY <1>4, <1>5, <1>6, <2>1, <2>2, ResetKeeps
<1>7. CASE /\ stream[s].state = "created" /\ CloseStream(s, send_window, queue)
           /\ UNCHANGED write_state
  <2>1. Closing(s)
    BY <1>3, <1>7 DEF Posts
  <2>. QED
    BY <1>4, <1>5, <1>7, <2>1, CloseKeeps
<1>. QED
  BY <1>6, <1>7 DEF Cancel

\* OnRstStream keeps the invariant.
LEMMA StepRstStream ==
  ASSUME Live, FlowControlKept, NEW s \in Streams, OnRstStream(s)
  PROVE  IInv'
<1>0. Types /\ OneLoop /\ FramesOK /\ ResetOK /\ SendOK /\ RecvOK /\ WakersOK
  BY DEF Live
<1>1. /\ drained = "no" /\ ~resuming /\ adjust.todo = {}
      /\ peer' = [peer EXCEPT !.open = peer.open \ {s}]
      /\ UNCHANGED <<initial_window, unstall, requeue, adjust, in_flight, write_state,
                     in_io_loop, recvVars, events>>
  BY <1>0 DEF OnRstStream, Idle, Types, PeerType
<1>2. /\ peer \in PeerType /\ events \in Nat /\ unacked \in Nat /\ peer.streamCredit[s] \in Int
      /\ (~peer.faulty => peer.streamCredit[s] <= MaxWindow) /\ (peer.blamed => peer.faulty)
  BY <1>0 DEF Types, PeerType, SendOK, Rules, FlowControlKept
<1>3. PeerIs(peer', peer.credit, peer.window, peer.streamCredit, peer.streamWindow,
             peer.open \ {s}, peer.reset, peer.faulty, peer.overrun, peer.blamed,
             peer.lowered)
  <2>1. peer.open \ {s} \in SUBSET Streams
    BY <1>2 DEF PeerType
  <2>. QED
    BY <1>1, <1>2, <2>1, PeerEnds
<1>4. CASE Active(s) /\ CloseStream(s, send_window, queue)
  <2>1. Closing(s)
    BY <1>1, <1>2, <1>3, <1>4 DEF Closing, recvVars, PeerIs, Posts, Active
  <2>2. UpdateOut(Outgoing', 0) = UpdateOut(Outgoing, 0) => SessionRecv'
    BY <1>0, <1>1, <1>3, KeepSessionRecv DEF RecvOK, PeerIs
  <2>3. Closable(s, send_window, queue) /\ Out(queue, in_flight) = Outgoing
    BY QueueClosable
  <2>. QED
    BY <1>4, <2>1, <2>2, <2>3, CloseKeeps
<1>5. CASE Drain("HTTP_1_1_REQUIRED")
  BY <1>2, <1>3, <1>5, DrainedKeeps DEF Drain, PeerIs
<1>6. CASE UNCHANGED <<drained, send_window, resuming, queue, stream>>
  <2>1. Outgoing' = Outgoing
    BY <1>1, <1>6 DEF Outgoing
  <2>2. Types'
    BY <1>0, <1>1, <1>3, <1>6 DEF Types, PeerIs, recvVars
  <2>3. OneLoop'
    BY <1>0, <1>1, <1>6 DEF OneLoop
  <2>4. FramesOK' /\ ResetOK'
    <3>1. ASSUME NEW g \in Outgoing PROVE FrameOK(g)'
      BY <1>0, <1>6, OutgoingFacts, KeepFrame DEF FramesOK
    <3>2. /\ \A t \in peer'.open : stream'[t].state \notin {"none", "created"}
          /\ \A t \in peer'.reset : stream'[t].state = "closed"
      BY <1>0, <1>3, <1>6 DEF FramesOK, PeerIs
    <3>. QED
      BY <1>0, <1>3, <2>1, <3>1, <3>2, ResetKept DEF FramesOK, PeerIs
  <2>5. SendOK'
    <3>1. ASSUME NEW t \in Streams PROVE StreamAccount(t)'
      <4>1. SendKept(t)
        BY <1>1, <1>3, <1>6, <2>1 DEF SendKept, PeerIs
      <4>. QED
        BY <1>0, <4>1, KeepSend DEF SendOK
    <3>. QED
      BY <1>0, <1>1, <1>3, <1>6, <2>1, <3>1 DEF SendOK, SessionAccount, Rules, PeerIs
  <2>6. RecvOK'
    <3>1. ASSUME NEW t \in Streams PROVE RecvKept(t)
      BY <1>1, <1>3, <1>6, <2>1 DEF RecvKept, recvVars, PeerIs
    <3>. QED
      BY <1>0, <1>1, <1>3, <2>1, <3>1, KeepRecvOK DEF PeerIs
  <2>7. WakersOK'
    <3>1. ASSUME NEW t \in Streams PROVE WakerOK(t)'
      <4>1. Waits(t, stream[t].window) => Waits(t, stream[t].window)'
        BY <1>1, <1>6 DEF Waits, IsSendStalled
      <4>. QED
        BY <1>1, <1>6, <4>1, QuietWaker
    <3>. QED
      BY <3>1 DEF WakersOK
  <2>. QED
    BY <1>3, <1>6, <2>2, <2>3, <2>4, <2>5, <2>6, <2>7 DEF Live, IInv, FlowControlKept, PeerIs
<1>. QED
  BY <1>4, <1>5, <1>6 DEF OnRstStream

\* A WINDOW_UPDATE of a stream keeps the invariant.
LEMMA StepStreamWindowUpdate ==
  ASSUME Live, FlowControlKept, NEW s \in Streams, NEW delta \in 0..MaxLen,
         OnStreamWindowUpdate(s, delta)
  PROVE  IInv'
<1>0. Types /\ OneLoop /\ FramesOK /\ ResetOK /\ SendOK /\ RecvOK /\ WakersOK
  BY DEF Live
<1>. PICK credit : credit = peer.streamCredit[s]
  OBVIOUS
<1>. PICK breaks : breaks = (delta < 1 \/ credit + delta > MaxWindow)
  OBVIOUS
<1>. PICK credits : credits = [peer.streamCredit EXCEPT ![s] = IF Active(s) THEN @ + delta ELSE @]
  OBVIOUS
<1>. PICK blames : blames = (Active(s) /\ Overflows(s, delta))
  OBVIOUS
<1>1. /\ drained = "no" /\ ~resuming /\ adjust.todo = {} /\ CountsIf(breaks) /\ PostIfEnqueued
      /\ UNCHANGED <<initial_window, requeue, adjust, in_flight, in_io_loop, recvVars>>
  BY DEF OnStreamWindowUpdate, Idle
<1>2. peer' = [peer EXCEPT !.streamCredit = credits, !.faulty = peer.faulty \/ breaks,
                           !.blamed = peer.blamed \/ blames]
  BY <1>0 DEF OnStreamWindowUpdate, Types, PeerType
<1>3. /\ stream \in [Streams -> StreamType] /\ peer \in PeerType /\ delta \in Nat
      /\ credit \in Int /\ MaxWindow \in Nat /\ events \in Nat
      /\ peer.streamCredit \in [Streams -> Int] /\ stream[s].window \in Int
      /\ breaks \in BOOLEAN /\ blames \in BOOLEAN
      /\ {peer.faulty, peer.blamed} \subseteq BOOLEAN /\ StreamOut(Outgoing, s) \in Nat
  <2>1. breaks \in BOOLEAN /\ blames \in BOOLEAN
    BY DEF Active, Overflows
  <2>2. /\ stream \in [Streams -> StreamType] /\ peer \in PeerType /\ delta \in Nat
        /\ MaxWindow \in Nat /\ events \in Nat
    BY <1>0, WindowsAssumption, BoundsAssumption DEF Types
  <2>3. /\ credit \in Int /\ peer.streamCredit \in [Streams -> Int]
        /\ peer.faulty \in BOOLEAN /\ peer.blamed \in BOOLEAN
    BY <2>2 DEF PeerType
  <2>4. stream[s].window \in Int
    BY <2>2 DEF StreamType
  <2>5. StreamOut(Outgoing, s) \in Nat
    BY <1>0, OutgoingIsOut DEF OutNat
  <2>. QED
    BY <2>1, <2>2, <2>3, <2>4, <2>5
<1>4. /\ credits \in [Streams -> Int]
      /\ \A t \in Streams \ {s} : credits[t] = peer.streamCredit[t]
      /\ Active(s) => credits[s] = credit + delta
      /\ ~Active(s) => credits = peer.streamCredit
  BY <1>3
<1>5. PeerIs(peer', peer.credit, peer.window, credits, peer.streamWindow, peer.open,
             peer.reset, peer.faulty \/ breaks, peer.overrun, peer.blamed \/ blames,
             peer.lowered)
  <2>1. (peer.faulty \/ breaks) \in BOOLEAN /\ (peer.blamed \/ blames) \in BOOLEAN
    BY <1>3
  <2>. QED
    BY <1>2, <1>3, <1>4, <2>1, PeerGivesStream
<1>6. /\ events' \in Nat /\ (peer.blamed => peer.faulty)
  BY <1>1, <1>3 DEF CountsIf, Counts, FlowControlKept
<1>7. ~peer'.faulty => ~peer.faulty /\ ~(delta < 1) /\ ~(credit + delta > MaxWindow)
  BY <1>5, Zenon DEF PeerIs
<1>8. CASE ~Active(s) /\ UNCHANGED <<drained, sendVars, resuming, queue, stream>>
  <2>1. QuietPeer
    BY <1>4, <1>5, <1>8 DEF QuietPeer, PeerKept, PeerIs
  <2>2. OneLoop'
    BY <1>0, <1>1, <1>8, PostPosts DEF OneLoop, Posts
  <2>3. ASSUME NEW t \in Streams PROVE WakerOK(t)'
    <3>1. Waits(t, stream[t].window) => Waits(t, stream[t].window)'
      BY <1>1, <1>8 DEF Waits, IsSendStalled, sendVars
    <3>. QED
      BY <1>1, <1>8, <3>1, QuietWaker
  <2>4. Live'
    BY <1>0, <1>1, <1>6, <1>8, <2>1, <2>2, <2>3, QuietStep DEF sendVars, Types
  <2>5. blames = FALSE
    BY <1>8
  <2>. QED
    BY <1>1, <1>5, <1>6, <1>8, <2>4, <2>5 DEF IInv, FlowControlKept, PeerIs
<1>9. ASSUME Active(s)
      PROVE  /\ stream[s].window + StreamOut(Outgoing, s) = credit
             /\ ~peer.lowered => stream[s].window >= 0
             /\ credits[s] = credit + delta
             /\ stream[s].state \in {"created", "activated", "open"}
             /\ ~peer'.faulty => credits[s] <= MaxWindow
  <2>1. /\ stream[s].window + StreamOut(Outgoing, s) = credit
        /\ ~peer.lowered => stream[s].window >= 0
    BY <1>0, <1>1, <1>3, <1>9 DEF SendOK, StreamAccount, Active
  <2>2. ~peer'.faulty => credit + delta <= MaxWindow
    BY <1>3, <1>7
  <2>. QED
    BY <1>4, <1>9, <2>1, <2>2 DEF Active
<1>10. CASE Active(s) /\ Overflows(s, delta) /\ ResetStream(s, queue) /\ UNCHANGED unstall
  <2>1. breaks
    <3>1. CASE delta < 1
      BY <3>1
    <3>2. CASE stream[s].window + delta > MaxWindow
      <4>1. credit + delta > MaxWindow
        <5>. PICK out, win : out = StreamOut(Outgoing, s) /\ win = stream[s].window
          OBVIOUS
        <5>1. out \in Nat /\ win \in Int /\ win + out = credit /\ win + delta > MaxWindow
          BY <1>3, <1>9, <1>10, <3>2
        <5>. QED
          BY <1>3, <5>1
      <4>. QED
        BY <4>1
    <3>. QED
      BY <1>10, <3>1, <3>2 DEF Overflows
  <2>2. peer'.faulty /\ peer'.streamCredit[s] >= peer.streamCredit[s]
    <3>1. credit + delta >= credit
      BY <1>3
    <3>. QED
      BY <1>5, <1>9, <1>10, <2>1, <3>1 DEF PeerIs
  <2>3. unacked' \in Nat
    BY <1>0, <1>1 DEF Types, recvVars
  <2>4. Closing(s)
    BY <1>1, <1>4, <1>5, <1>6, <1>9, <1>10, <2>2, <2>3, PostPosts DEF Closing, recvVars, PeerIs
  <2>5. UpdateOut(Outgoing', 0) = UpdateOut(Outgoing, 0) => SessionRecv'
    BY <1>0, <1>1, <1>5, KeepSessionRecv DEF RecvOK, PeerIs
  <2>6. Closable(s, send_window, queue) /\ Out(queue, in_flight) = Outgoing
    BY QueueClosable
  <2>7. \A g \in queue : g.stream = s => g.type # "RST_STREAM"
    BY <1>0, <1>10, NoReset DEF Active, Outgoing
  <2>. QED
    BY <1>10, <2>4, <2>5, <2>6, <2>7, ResetKeeps
<1>11. CASE /\ Active(s) /\ ~Overflows(s, delta)
            /\ PossiblyResumeIfSendStalled(s, stream[s].window + delta)
            /\ UNCHANGED <<drained, resuming>>
  <2>. PICK w : w = stream[s].window + delta
    OBVIOUS
  <2>1. w \in Int /\ w + StreamOut(Outgoing, s) = peer'.streamCredit[s] /\ (~peer.lowered => w >= 0)
    <3>. PICK out, win : out = StreamOut(Outgoing, s) /\ win = stream[s].window
      OBVIOUS
    <3>1. out \in Nat /\ win \in Int /\ win + out = credit /\ (~peer.lowered => win >= 0)
      BY <1>3, <1>9, <1>11
    <3>2. peer'.streamCredit[s] = credit + delta
      BY <1>5, <1>9, <1>11 DEF PeerIs
    <3>. QED
      BY <1>3, <3>1, <3>2
  <2>2. PeerKept /\ peer'.lowered = peer.lowered
    BY <1>5 DEF PeerKept, PeerIs
  <2>3. Rules'
    <3>1. Rules
      BY <1>0 DEF SendOK
    <3>2. ASSUME ~peer'.faulty, NEW t \in Streams PROVE peer'.streamCredit[t] <= MaxWindow
      BY <1>4, <1>5, <1>7, <1>9, <1>11, <3>1, <3>2 DEF Rules, PeerIs
    <3>. QED
      BY <1>1, <1>5, <1>7, <3>1, <3>2 DEF Rules, PeerIs
  <2>4. /\ adjust' \in [todo : SUBSET Streams, delta : Int]
        /\ adjust'.todo = adjust.todo \ {s} /\ adjust'.delta = adjust.delta
    BY <1>0, <1>1 DEF Types
  <2>5. \A t \in Streams \ {s} : peer'.streamCredit[t] = peer.streamCredit[t]
    BY <1>4, <1>5 DEF PeerIs
  <2>6. PossiblyResumeIfSendStalled(s, w)
    BY <1>11
  <2>7. Live'
    BY <1>1, <1>6, <1>9, <1>11, <2>1, <2>2, <2>3, <2>4, <2>5, <2>6, ResumeKeeps
  <2>8. blames = FALSE
    BY <1>11
  <2>. QED
    BY <1>1, <1>5, <1>6, <1>11, <2>7, <2>8 DEF IInv, FlowControlKept, PeerIs
<1>. QED
  BY <1>8, <1>10, <1>11 DEF OnStreamWindowUpdate

-----------------------------------------------------------------------------
(***************************************************************************)
(* Receiving.                                                              *)
(***************************************************************************)
\* Of u bytes some are acknowledged, and the others are at most half of the
\* window.
LEMMA AckParts ==
  ASSUME NEW u \in Nat, NEW max \in Nat
  PROVE  /\ Acked(u, max) \in Nat /\ Unacked(u, max) \in Nat
         /\ Unacked(u, max) + Acked(u, max) = u
         /\ Unacked(u, max) <= max \div 2
<1>. PICK half : half = max \div 2
  OBVIOUS
<1>1. half \in Nat
  OBVIOUS
<1>2. CASE u > half
  <2>1. Acked(u, max) = u /\ Unacked(u, max) = u - u
    BY <1>2 DEF Acked, Unacked
  <2>. QED
    BY <1>1, <2>1
<1>3. CASE ~(u > half)
  <2>1. Acked(u, max) = 0 /\ Unacked(u, max) = u - 0
    BY <1>3 DEF Acked, Unacked
  <2>. QED
    BY <1>1, <1>3, <2>1
<1>. QED
  BY <1>2, <1>3

\* The queue q2 is q, perhaps with a WINDOW_UPDATE of size bytes for s.
Updates(q, q2, s, p, size) ==
  /\ IsQueue(q2) /\ q \subseteq q2
  /\ \A g \in q2 \ q : g.type = "WINDOW_UPDATE" /\ g.stream = s /\ g.priority = p
  /\ SessionOut(Out(q2, in_flight)) = SessionOut(Out(q, in_flight))
  /\ \A t \in Streams : StreamOut(Out(q2, in_flight), t) = StreamOut(Out(q, in_flight), t)
  /\ UpdateOut(Out(q2, in_flight), s) = UpdateOut(Out(q, in_flight), s) + size
  /\ \A t \in (Streams \cup {0}) \ {s} :
       UpdateOut(Out(q2, in_flight), t) = UpdateOut(Out(q, in_flight), t)

\* It adds the bytes of the WINDOW_UPDATE to what is under way.
LEMMA UpdateAdds ==
  ASSUME NEW q, NEW q2, IsQueue(q2), q \subseteq q2, NEW s \in Streams \cup {0}, NEW p,
         NEW size \in Int,
         \A g \in q2 \ q : g.type = "WINDOW_UPDATE" /\ g.stream = s /\ g.priority = p,
         OutNat(Out(q, in_flight)),
         Adds(Out(q, in_flight), Out(q2, in_flight), "WINDOW_UPDATE", s, size)
  PROVE  Updates(q, q2, s, p, size)
<1>1. SessionOut(Out(q2, in_flight)) = SessionOut(Out(q, in_flight))
  BY AddsUpdate
<1>2. \A t \in Streams : StreamOut(Out(q2, in_flight), t) = StreamOut(Out(q, in_flight), t)
  BY AddsUpdate
<1>3. UpdateOut(Out(q2, in_flight), s) = UpdateOut(Out(q, in_flight), s) + size
  BY AddsUpdate, ZenonT(40)
<1>4. \A t \in (Streams \cup {0}) \ {s} :
        UpdateOut(Out(q2, in_flight), t) = UpdateOut(Out(q, in_flight), t)
  BY AddsUpdate
<1>. QED
  BY <1>1, <1>2, <1>3, <1>4 DEF Updates

\* A WINDOW_UPDATE is put at the end of the queue.
LEMMA UpdateQueued ==
  ASSUME NEW q, IsQueue(q), IsWritten(in_flight), NEW s \in Streams \cup {0},
         NEW p, NEW size \in Nat, NEW q2, NEW f, Appended(q, q2, f),
         f.type = "WINDOW_UPDATE", f.stream = s, f.size = size, f.priority = p
  PROVE  Updates(q, q2, s, p, size)
<1>1. /\ IsQueue(q2) /\ OutNat(Out(q, in_flight))
      /\ Adds(Out(q, in_flight), Out(q2, in_flight), "WINDOW_UPDATE", s, size)
  BY AppendedQueue, AppendedAdds, OutsAreNat
<1>2. /\ q \subseteq q2 /\ size \in Int
      /\ \A g \in q2 \ q : g.type = "WINDOW_UPDATE" /\ g.stream = s /\ g.priority = p
  BY DEF Appended
<1>. QED
  BY <1>1, <1>2, UpdateAdds

\* That is what is done with one that has bytes.
LEMMA UpdateIf ==
  ASSUME NEW q, IsQueue(q), IsWritten(in_flight), NEW s \in Streams \cup {0},
         NEW p \in Priorities, NEW size \in Nat, NEW q2,
         q2 = IF size = 0 THEN q ELSE Enqueue(q, p, "WINDOW_UPDATE", s, size)
  PROVE  Updates(q, q2, s, p, size)
<1>1. CASE size = 0
  <2>1. q2 = q /\ UpdateOut(Out(q, in_flight), s) \in Nat
    BY <1>1, OutsAreNat DEF OutNat
  <2>2. UpdateOut(Out(q2, in_flight), s) = UpdateOut(Out(q, in_flight), s) + size
    BY <1>1, <2>1
  <2>. QED
    BY <2>1, <2>2 DEF Updates
<1>2. CASE size # 0
  <2>1. PICK n \in Nat \ {0} : Appended(q, q2, Frame("WINDOW_UPDATE", s, size, p, n))
    BY <1>2, EnqueueAppends DEF FrameTypes
  <2>. PICK f : f = Frame("WINDOW_UPDATE", s, size, p, n)
    OBVIOUS
  <2>2. /\ f.type = "WINDOW_UPDATE" /\ f.stream = s /\ f.size = size /\ f.priority = p
        /\ Appended(q, q2, f)
    BY <2>1 DEF Frame
  <2>. QED
    BY <2>2, UpdateQueued
<1>. QED
  BY <1>1, <1>2

\* IncreaseRecvWindowSize of the session.
LEMMA SessionAcks ==
  ASSUME Live, NEW n \in Nat
  PROVE  Updates(queue, AckSession(queue, n), 0, "HIGHEST",
                 Acked(unacked + n, SessionMaxRecv))
<1>1. IsQueue(queue) /\ IsWritten(in_flight) /\ unacked + n \in Nat
  BY OutgoingIsOut DEF Live, Types
<1>2. Acked(unacked + n, SessionMaxRecv) \in Nat
  BY <1>1, AckParts, RecvAssumption
<1>. QED
  BY <1>1, <1>2, UpdateIf DEF AckSession, Priorities

\* IncreaseRecvWindowSize of a stream.
LEMMA StreamAcks ==
  ASSUME Live, NEW n \in Nat, NEW s \in Streams, NEW q, IsQueue(q)
  PROVE  Updates(q, AckStream(q, s, n), s, "tunnel",
                 Acked(stream[s].unacked + n, StreamMaxRecv))
<1>1. IsWritten(in_flight) /\ stream[s].unacked + n \in Nat
  <2>1. Types /\ stream \in [Streams -> StreamType]
    BY DEF Live, Types
  <2>2. stream[s].unacked \in Nat
    BY <2>1 DEF StreamType
  <2>. QED
    BY <2>1, <2>2, OutgoingIsOut
<1>2. Acked(stream[s].unacked + n, StreamMaxRecv) \in Nat
  BY <1>1, AckParts, RecvAssumption
<1>. QED
  BY <1>1, <1>2, UpdateIf DEF AckStream, Priorities

\* Of the frames only WINDOW_UPDATEs of the session and of s are added.
OnlyUpdates(s) ==
  /\ IsQueue(queue') /\ queue \subseteq queue' /\ in_flight' = in_flight
  /\ \A g \in queue' \ queue :
       /\ g.type = "WINDOW_UPDATE"
       /\ \/ g.stream = 0 /\ g.priority = "HIGHEST"
          \/ g.stream = s /\ g.priority = "tunnel" /\ Active(s)
  /\ SessionOut(Outgoing') = SessionOut(Outgoing)
  /\ \A t \in Streams : StreamOut(Outgoing', t) = StreamOut(Outgoing, t)
  /\ \A t \in Streams \ {s} : UpdateOut(Outgoing', t) = UpdateOut(Outgoing, t)

\* Nothing of the sending side of t changes.
SendSame(t) ==
  /\ stream'[t].state = stream[t].state /\ stream'[t].window = stream[t].window
  /\ stream'[t].stalled = stream[t].stalled /\ stream'[t].pending = stream[t].pending

\* What a step does that only receives on s.
Receiving(s) ==
  /\ UNCHANGED <<initial_window, unstall, requeue, adjust, in_io_loop, send_window, resuming>>
  /\ Posts /\ events' \in Nat
  /\ stream' \in [Streams -> StreamType] /\ \A t \in Streams : SendSame(t)
  /\ recv_window' \in Int /\ unacked' \in Nat
  /\ held' \in [Streams -> Nat] /\ IsFiniteSet(HeldBytes(held'))
  /\ peer' \in PeerType /\ peer'.credit = peer.credit /\ peer'.open = peer.open
  /\ peer'.streamCredit = peer.streamCredit /\ peer'.lowered = peer.lowered
  /\ peer'.reset = peer.reset /\ (peer.faulty => peer'.faulty)

\* Such a step keeps the invariant if it keeps the receive windows.
LEMMA ReceiveKeeps ==
  ASSUME Live, NEW s \in Streams, OnlyUpdates(s), Receiving(s), RecvOK'
  PROVE  Live'
<1>0. Types /\ OneLoop /\ FramesOK /\ ResetOK /\ SendOK /\ RecvOK /\ WakersOK
  BY DEF Live
<1>1. peer \in PeerType /\ \A t \in Streams : SendSame(t)
  BY <1>0 DEF Types, Receiving
<1>2. /\ Outgoing \subseteq Outgoing'
      /\ \A g \in Outgoing' \ Outgoing :
           /\ g.type = "WINDOW_UPDATE"
           /\ \/ g.stream = 0 /\ g.priority = "HIGHEST"
              \/ g.stream = s /\ g.priority = "tunnel" /\ Active(s)
  BY DEF Outgoing, OnlyUpdates
<1>3. Types'
  BY <1>0 DEF Types, Receiving, OnlyUpdates
<1>4. OneLoop'
  BY <1>0, <1>1 DEF OneLoop, Receiving, OnlyUpdates, Posts, Types, SendSame
<1>5. FramesOK'
  <2>1. ASSUME NEW g \in Outgoing PROVE FrameOK(g)'
    BY <1>0, <1>1, OutgoingFacts, KeepFrame DEF FramesOK, SendSame
  <2>2. ASSUME NEW g \in Outgoing', g \notin Outgoing PROVE FrameOK(g)'
    <3>1. CASE g.stream = 0 /\ g.priority = "HIGHEST" /\ g.type = "WINDOW_UPDATE"
      BY <3>1 DEF FrameOK
    <3>2. CASE g.stream = s /\ g.priority = "tunnel" /\ Active(s) /\ g.type = "WINDOW_UPDATE"
      <4>1. stream'[s].state \in {"activated", "open"} /\ s # 0
        BY <1>1, <3>2, StreamsAssumption DEF Active, SendSame
      <4>. QED
        BY <3>2, <4>1 DEF FrameOK
    <3>. QED
      BY <1>2, <2>2, <3>1, <3>2
  <2>3. \A g \in Outgoing' : FrameOK(g)'
    BY <2>1, <2>2
  <2>4. ASSUME NEW g \in Outgoing', NEW h \in Outgoing',
               g.type = "HEADERS", h.type = "HEADERS", g.stream = h.stream
        PROVE  g = h
    BY <1>0, <1>2, <2>4 DEF FramesOK
  <2>5. /\ \A t \in peer'.open : stream'[t].state \notin {"none", "created"}
        /\ \A t \in peer'.reset : stream'[t].state = "closed"
    BY <1>0, <1>1 DEF FramesOK, SendSame, Receiving, PeerType
  <2>. QED
    BY <2>3, <2>4, <2>5 DEF FramesOK
<1>6. ResetOK'
  <2>1. Active(s) =>
          s \notin peer.reset /\ \A g \in Outgoing : g.stream = s => g.type # "RST_STREAM"
    BY <1>0, NoReset DEF Active
  <2>2. ASSUME NEW g \in Outgoing' PROVE g.stream \notin peer'.reset
    <3>1. CASE g \in Outgoing
      BY <1>0, <3>1 DEF ResetOK, Receiving
    <3>2. CASE g \notin Outgoing
      BY <1>1, <1>2, <2>1, <3>2, StreamsAssumption DEF Receiving, PeerType
    <3>. QED
      BY <3>1, <3>2
  <2>3. ASSUME NEW g \in Outgoing', NEW h \in Outgoing', g.type = "RST_STREAM",
               h.stream = g.stream
        PROVE  ~Before(g, h)
    <3>1. g \in Outgoing
      BY <1>2, <2>3
    <3>2. g.stream \in Streams /\ (Active(s) => g.stream # s)
      BY <1>0, <2>1, <2>3, <3>1, OutgoingFacts
    <3>3. h \in Outgoing
      BY <1>2, <2>3, <3>2, StreamsAssumption
    <3>. QED
      BY <1>0, <2>3, <3>1, <3>3 DEF ResetOK
  <2>. QED
    BY <2>2, <2>3 DEF ResetOK
<1>7. SendOK'
  <2>1. ASSUME NEW t \in Streams PROVE StreamAccount(t)'
    <3>1. SendKept(t)
      BY <1>1 DEF SendKept, SendSame, OnlyUpdates, Receiving
    <3>. QED
      BY <1>0, <3>1, KeepSend DEF SendOK
  <2>. QED
    BY <1>0, <2>1 DEF SendOK, SessionAccount, Rules, OnlyUpdates, Receiving
<1>8. WakersOK'
  <2>1. ASSUME NEW t \in Streams PROVE WakerOK(t)'
    <3>1. Waits(t, stream[t].window) => Waits(t, stream[t].window)'
      BY <1>1 DEF Waits, IsSendStalled, SendSame, Receiving
    <3>2. DataOf(Outgoing', t) = DataOf(Outgoing, t)
      BY <1>2 DEF DataOf
    <3>3. WakerKept(t)
      BY <1>1, <3>1, <3>2 DEF WakerKept, SendSame
    <3>. QED
      BY <1>0, <3>3, KeepWaker DEF WakersOK
  <2>. QED
    BY <2>1 DEF WakersOK
<1>. QED
  BY <1>3, <1>4, <1>5, <1>6, <1>7, <1>8 DEF Live

\* What PeerSends says of the peer, and that it breaks the rules if one of the
\* tests of the receive windows fails.
Sent(s, n) ==
  /\ peer' \in PeerType /\ events' \in Nat /\ peer'.credit = peer.credit
  /\ peer'.window = peer.window - n /\ peer'.streamCredit = peer.streamCredit
  /\ peer'.streamWindow[s] = peer.streamWindow[s] - n
  /\ \A t \in Streams \ {s} : peer'.streamWindow[t] = peer.streamWindow[t]
  /\ peer'.open = peer.open /\ peer'.reset = peer.reset /\ peer'.overrun = peer.overrun
  /\ peer'.lowered = peer.lowered /\ (peer.faulty => peer'.faulty)
  /\ peer'.blamed \/ Exceeds(n) => peer'.faulty

\* The peer sends too much if a test of the session or of an active stream
\* says so.
LEMMA PeerSendsSent ==
  ASSUME Live, FlowControlKept, NEW s \in Streams, NEW n \in Nat, PeerSends(s, n)
  PROVE  Sent(s, n)
<1>0. Types /\ RecvOK
  BY DEF Live
<1>. PICK window, streamWindow :
       window = peer.window /\ streamWindow = peer.streamWindow[s]
  OBVIOUS
<1>. PICK breaks : breaks = (n > window \/ n > streamWindow)
  OBVIOUS
<1>. PICK blames : blames = (Active(s) /\ ExceedsStream(s, n))
  OBVIOUS
<1>. PICK windows : windows = [peer.streamWindow EXCEPT ![s] = @ - n]
  OBVIOUS
<1>1. /\ events' = events + 1
      /\ peer' = [peer EXCEPT !.window = window - n, !.streamWindow = windows,
                              !.faulty = peer.faulty \/ breaks,
                              !.blamed = peer.blamed \/ blames]
  BY <1>0 DEF PeerSends, Counts, Types, PeerType
<1>2. breaks \in BOOLEAN /\ blames \in BOOLEAN
  BY DEF Active, ExceedsStream
<1>3. /\ peer \in PeerType /\ window \in Int /\ streamWindow \in Int
      /\ peer.streamWindow \in [Streams -> Int] /\ events \in Nat
      /\ peer.faulty \in BOOLEAN /\ peer.blamed \in BOOLEAN
  BY <1>0 DEF Types, PeerType
<1>4. /\ windows \in [Streams -> Int] /\ windows[s] = streamWindow - n
      /\ \A t \in Streams \ {s} : windows[t] = peer.streamWindow[t]
  BY <1>3
<1>5. PeerIs(peer', peer.credit, window - n, peer.streamCredit, windows, peer.open,
             peer.reset, peer.faulty \/ breaks, peer.overrun, peer.blamed \/ blames,
             peer.lowered)
  <2>1. /\ (peer.faulty \/ breaks) \in BOOLEAN /\ (peer.blamed \/ blames) \in BOOLEAN
        /\ window - n \in Int
    BY <1>2, <1>3
  <2>. QED
    BY <1>1, <1>3, <1>4, <2>1, PeerSent
<1>6. blames => breaks
  <2>1. SUFFICES ASSUME Active(s), ExceedsStream(s, n) PROVE n > streamWindow
    OBVIOUS
  <2>2. /\ stream[s].recv - stream[s].unacked = streamWindow + UpdateOut(Outgoing, s)
        /\ UpdateOut(Outgoing, s) \in Nat
    BY <1>0, <2>1, OutgoingIsOut DEF RecvOK, StreamRecv, Active, OutNat
  <2>3. n > streamWindow + UpdateOut(Outgoing, s)
    BY <2>1, <2>2 DEF ExceedsStream
  <2>. QED
    BY <1>3, <2>2, <2>3
<1>7. Exceeds(n) => breaks
  <2>1. SUFFICES ASSUME Exceeds(n) PROVE n > window
    OBVIOUS
  <2>2. /\ recv_window - unacked = window + UpdateOut(Outgoing, 0)
        /\ UpdateOut(Outgoing, 0) \in Nat
    BY <1>0, OutgoingIsOut DEF RecvOK, SessionRecv, OutNat
  <2>3. n > window + UpdateOut(Outgoing, 0)
    BY <2>1, <2>2 DEF Exceeds
  <2>. QED
    BY <1>3, <2>2, <2>3
<1>8. peer.blamed => peer.faulty
  BY DEF FlowControlKept
<1>9. peer'.blamed \/ Exceeds(n) => peer'.faulty
  BY <1>5, <1>6, <1>7, <1>8 DEF PeerIs
<1>. QED
  BY <1>1, <1>3, <1>4, <1>5, <1>9 DEF Sent, PeerIs

\* A session that drains because the peer sent too much is not to blame.
LEMMA ExceedsKeeps ==
  ASSUME Live, FlowControlKept, NEW s \in Streams, NEW n \in Nat, PeerSends(s, n),
         Exceeds(n), Drain("receive window exceeded")
  PROVE  IInv'
<1>1. Sent(s, n)
  BY PeerSendsSent
<1>. QED
  BY <1>1, DrainedKeeps DEF Sent, Drain

\* The account of a receive window of max bytes: rw is left of it, ua bytes
\* are to be acknowledged, the peer knows of win, updates of out bytes are under
\* way, and h bytes are held.
RecvAccount(rw, ua, win, out, max, h) ==
  /\ rw \in Int /\ ua \in Nat /\ win \in Int /\ out \in Nat /\ max \in Nat /\ h \in Nat
  /\ rw - ua = win + out /\ rw + h = max /\ ua <= max \div 2

\* Bytes that are received are held.
LEMMA Receives ==
  ASSUME NEW rw, NEW ua, NEW win, NEW out, NEW max, NEW h, NEW n \in Nat,
         RecvAccount(rw, ua, win, out, max, h)
  PROVE  RecvAccount(rw - n, ua, win - n, out, max, h + n)
BY DEF RecvAccount

\* Of the bytes held n are consumed.
LEMMA Consumes ==
  ASSUME NEW rw, NEW ua, NEW win, NEW out, NEW max, NEW h, NEW n \in Nat, n <= h,
         RecvAccount(rw, ua, win, out, max, h)
  PROVE  RecvAccount(rw + n, Unacked(ua + n, max), win, out + Acked(ua + n, max), max, h - n)
<1>1. /\ rw \in Int /\ ua \in Nat /\ win \in Int /\ out \in Nat /\ max \in Nat /\ h \in Nat
      /\ rw - ua = win + out /\ rw + h = max
  BY DEF RecvAccount
<1>2. ua + n \in Nat
  BY <1>1
<1>3. /\ Acked(ua + n, max) \in Nat /\ Unacked(ua + n, max) \in Nat
      /\ Unacked(ua + n, max) + Acked(ua + n, max) = ua + n
      /\ Unacked(ua + n, max) <= max \div 2
  BY <1>1, <1>2, AckParts
<1>4. ASSUME NEW u \in Nat, NEW a \in Nat, u + a = ua + n, u <= max \div 2
      PROVE  RecvAccount(rw + n, u, win, out + a, max, h - n)
  BY <1>1, <1>4 DEF RecvAccount
<1>. QED
  BY <1>3, <1>4

\* Bytes are consumed at once.
LEMMA ConsumesAtOnce ==
  ASSUME NEW rw, NEW ua, NEW win, NEW out, NEW max, NEW h, NEW n \in Nat,
         RecvAccount(rw, ua, win, out, max, h)
  PROVE  RecvAccount(rw, Unacked(ua + n, max), win - n, out + Acked(ua + n, max), max, h)
<1>1. /\ rw \in Int /\ ua \in Nat /\ win \in Int /\ out \in Nat /\ max \in Nat /\ h \in Nat
      /\ rw - ua = win + out /\ rw + h = max
  BY DEF RecvAccount
<1>2. ua + n \in Nat
  BY <1>1
<1>3. /\ Acked(ua + n, max) \in Nat /\ Unacked(ua + n, max) \in Nat
      /\ Unacked(ua + n, max) + Acked(ua + n, max) = ua + n
      /\ Unacked(ua + n, max) <= max \div 2
  BY <1>1, <1>2, AckParts
<1>4. ASSUME NEW u \in Nat, NEW a \in Nat, u + a = ua + n, u <= max \div 2
      PROVE  RecvAccount(rw, u, win - n, out + a, max, h)
  BY <1>1, <1>4 DEF RecvAccount
<1>. QED
  BY <1>3, <1>4

\* What the invariant says of the receive windows.
LEMMA Accounts ==
  ASSUME Live, NEW s \in Streams
  PROVE  /\ RecvAccount(recv_window, unacked, peer.window, UpdateOut(Outgoing, 0),
                        SessionMaxRecv, Cardinality(HeldBytes(held)))
         /\ stream[s].state # "closed" =>
              RecvAccount(stream[s].recv, stream[s].unacked, peer.streamWindow[s],
                          UpdateOut(Outgoing, s), StreamMaxRecv, held[s])
<1>1. /\ peer.window \in Int /\ UpdateOut(Outgoing, 0) \in Nat /\ recv_window \in Int
      /\ unacked \in Nat /\ SessionMaxRecv \in Nat /\ Cardinality(HeldBytes(held)) \in Nat
  BY OutgoingIsOut, RecvAssumption, FS_CardinalityType DEF Live, Types, PeerType, OutNat
<1>2. /\ peer.streamWindow[s] \in Int /\ UpdateOut(Outgoing, s) \in Nat
      /\ stream[s].recv \in Int /\ stream[s].unacked \in Nat /\ StreamMaxRecv \in Nat
      /\ held[s] \in Nat
  BY OutgoingIsOut, RecvAssumption DEF Live, Types, PeerType, StreamType, OutNat
<1>. QED
  BY <1>1, <1>2 DEF Live, RecvOK, SessionRecv, StreamRecv, RecvAccount

\* A queue with a WINDOW_UPDATE of the session can be closed with.
LEMMA AckedClosable ==
  ASSUME Live, NEW s \in Streams, stream[s].state # "closed", NEW q, NEW size,
         Updates(queue, q, 0, "HIGHEST", size)
  PROVE  /\ Closable(s, send_window, q)
         /\ \A g \in q : g.stream = s => g.type # "RST_STREAM"
<1>1. /\ Closable(s, send_window, queue) /\ Out(queue, in_flight) = Outgoing
      /\ FramesOK /\ s # 0
  BY QueueClosable, StreamsAssumption DEF Live
<1>2. Grown(q, s)
  BY DEF Updates, Grown
<1>3. /\ send_window + SessionOut(Out(q, in_flight)) = peer.credit
      /\ \A t \in Streams : /\ StreamOut(Out(q, in_flight), t) = StreamOut(Outgoing, t)
                            /\ UpdateOut(Out(q, in_flight), t) = UpdateOut(Outgoing, t)
  BY <1>1, StreamsAssumption DEF Updates, Closable
<1>4. \A g \in queue : g.stream = s => g.type # "RST_STREAM"
  BY <1>1, NoReset DEF Outgoing
<1>. QED
  BY <1>1, <1>2, <1>3, <1>4 DEF Closable, Updates

\* Bytes that no stream takes are given back, and their stream reset.
LEMMA DiscardKeeps ==
  ASSUME Live, FlowControlKept, NEW s \in Streams, NEW n \in Nat, Idle, s \in peer.open,
         Sent(s, n), Discards(s, n, Active(s)), Posts,
         UNCHANGED <<initial_window, unstall, requeue, adjust, in_flight, in_io_loop>>
  PROVE  IInv'
<1>0. Types /\ OneLoop /\ FramesOK /\ ResetOK /\ SendOK /\ RecvOK /\ WakersOK
  BY DEF Live
<1>. PICK q, size : q = AckSession(queue, n) /\ size = Acked(unacked + n, SessionMaxRecv)
  OBVIOUS
<1>1. /\ Updates(queue, q, 0, "HIGHEST", size) /\ Out(queue, in_flight) = Outgoing
      /\ recv_window' = recv_window /\ held' = held
      /\ unacked' = Unacked(unacked + n, SessionMaxRecv)
  BY SessionAcks, QueueClosable DEF Discards
<1>2. RecvAccount(recv_window, unacked', peer.window - n, UpdateOut(Outgoing, 0) + size,
                  SessionMaxRecv, Cardinality(HeldBytes(held)))
  BY <1>1, Accounts, ConsumesAtOnce
<1>3. /\ unacked' \in Nat
      /\ UpdateOut(Outgoing', 0) = UpdateOut(Out(q, in_flight), 0) => SessionRecv'
  BY <1>1, <1>2 DEF RecvAccount, SessionRecv, Sent, Updates
<1>4. peer \in PeerType /\ peer.streamCredit[s] \in Int /\ Rules
  BY <1>0 DEF Types, PeerType, SendOK
<1>5. CASE Active(s) /\ ResetStream(s, AckSession(queue, n))
  <2>1. Closing(s)
    <3>1. stream[s].state \in {"created", "activated", "open"}
      BY <1>5 DEF Active
    <3>2. /\ peer'.streamCredit[s] >= peer.streamCredit[s]
          /\ ~peer'.faulty => peer'.streamCredit[s] <= MaxWindow
      BY <1>4 DEF Sent, Rules
    <3>. QED
      BY <1>1, <1>3, <3>1, <3>2 DEF Closing, Idle, Sent
  <2>2. /\ Closable(s, send_window, q)
        /\ \A g \in q : g.stream = s => g.type # "RST_STREAM"
    BY <1>1, <1>5, AckedClosable DEF Active
  <2>. QED
    BY <1>3, <1>5, <2>1, <2>2, ResetKeeps
<1>6. CASE /\ ~Active(s) /\ queue' = AckSession(queue, n)
           /\ UNCHANGED <<drained, send_window, resuming, stream>>
  <2>1. stream[s].state = "closed"
    BY <1>0, <1>6 DEF FramesOK, Types, StreamType, States, Active
  <2>2. Outgoing' = Out(q, in_flight)
    BY <1>6 DEF Outgoing, Out
  <2>3. OnlyUpdates(s)
    BY <1>1, <1>6, <2>2, StreamsAssumption DEF OnlyUpdates, Updates
  <2>4. Receiving(s)
    BY <1>0, <1>1, <1>3, <1>6 DEF Receiving, Sent, Types, SendSame
  <2>5. ASSUME NEW t \in Streams PROVE StreamRecv(t)'
    <3>1. RecvKept(t)
      BY <1>1, <1>6, <2>1, <2>3 DEF RecvKept, Sent, OnlyUpdates
    <3>. QED
      BY <1>0, <3>1, KeepRecv DEF RecvOK
  <2>6. Live'
    BY <1>3, <2>2, <2>3, <2>4, <2>5, ReceiveKeeps DEF RecvOK
  <2>. QED
    BY <1>6, <2>6 DEF IInv, FlowControlKept, Sent, Idle
<1>. QED
  BY <1>5, <1>6 DEF Discards

\* A frame of the peer keeps the invariant.
LEMMA StepFrameData ==
  ASSUME Live, FlowControlKept, NEW s \in Streams, NEW n \in 1..MaxLen, OnStreamFrameData(s, n)
  PROVE  IInv'
<1>0. Types /\ OneLoop /\ FramesOK /\ ResetOK /\ SendOK /\ RecvOK /\ WakersOK
  BY DEF Live
<1>1. /\ PeerSends(s, n) /\ Idle /\ s \in peer.open /\ Posts /\ n \in Nat
      /\ UNCHANGED <<initial_window, unstall, requeue, adjust, in_flight, in_io_loop>>
  <2>1. /\ PeerSends(s, n) /\ PostIfEnqueued
        /\ UNCHANGED <<initial_window, unstall, requeue, adjust, in_flight, in_io_loop>>
    BY DEF OnStreamFrameData
  <2>2. Idle /\ s \in peer.open
    BY <2>1 DEF PeerSends
  <2>3. n \in Nat
    BY BoundsAssumption
  <2>. QED
    BY <2>1, <2>2, <2>3, PostPosts
<1>2. Sent(s, n)
  BY <1>1, PeerSendsSent
<1>3. CASE Exceeds(n) /\ Drain("receive window exceeded")
  BY <1>1, <1>3, ExceedsKeeps
<1>4. CASE Discards(s, n, Active(s))
  BY <1>1, <1>2, <1>4, DiscardKeeps
<1>5. CASE /\ Active(s)
           /\ recv_window' = recv_window - n
           /\ stream' = [stream EXCEPT ![s].recv = @ - n]
           /\ held' = [held EXCEPT ![s] = @ + n]
           /\ UNCHANGED <<drained, send_window, resuming, queue, unacked>>
  <2>1. /\ stream \in [Streams -> StreamType] /\ stream[s].recv \in Int
        /\ held \in [Streams -> Nat] /\ IsFiniteSet(HeldBytes(held)) /\ unacked \in Nat
        /\ recv_window \in Int /\ IsQueue(queue)
    BY <1>0 DEF Types, StreamType
  <2>2. Puts(stream, stream', s, stream[s].state, stream[s].window, stream[s].stalled,
             stream[s].pending, stream[s].recv - n, stream[s].unacked)
    <3>1. stream[s].recv - n \in Int /\ stream' = [stream EXCEPT ![s].recv = stream[s].recv - n]
      BY <1>1, <1>5, <2>1
    <3>. QED
      BY <2>1, <3>1, PutRecv
  <2>3. /\ held' \in [Streams -> Nat] /\ held'[s] = held[s] + n
        /\ \A t \in Streams \ {s} : held'[t] = held[t]
    BY <1>1, <1>5, <2>1
  <2>4. /\ IsFiniteSet(HeldBytes(held'))
        /\ Cardinality(HeldBytes(held')) = Cardinality(HeldBytes(held)) + n
    BY <1>1, <2>1, <2>3, HeldMore
  <2>5. Outgoing' = Outgoing
    BY <1>1, <1>5 DEF Outgoing
  <2>6. OnlyUpdates(s)
    BY <1>1, <1>5, <2>1, <2>5 DEF OnlyUpdates
  <2>7. Receiving(s)
    <3>1. \A t \in Streams : SendSame(t)
      BY <2>2 DEF SendSame, Puts
    <3>2. recv_window' \in Int /\ unacked' \in Nat
      BY <1>1, <1>5, <2>1
    <3>. QED
      BY <1>1, <1>2, <1>5, <2>2, <2>3, <2>4, <3>1, <3>2 DEF Receiving, Sent, Puts
  <2>8. SessionRecv'
    <3>1. RecvAccount(recv_window - n, unacked, peer.window - n, UpdateOut(Outgoing, 0),
                      SessionMaxRecv, Cardinality(HeldBytes(held)) + n)
      BY <1>1, Accounts, Receives
    <3>. QED
      BY <1>2, <1>5, <2>4, <2>5, <3>1 DEF RecvAccount, SessionRecv, Sent
  <2>9. StreamRecv(s)'
    <3>1. RecvAccount(stream[s].recv, stream[s].unacked, peer.streamWindow[s],
                      UpdateOut(Outgoing, s), StreamMaxRecv, held[s])
      BY <1>5, Accounts DEF Active
    <3>2. RecvAccount(stream[s].recv - n, stream[s].unacked, peer.streamWindow[s] - n,
                      UpdateOut(Outgoing, s), StreamMaxRecv, held[s] + n)
      BY <1>1, <3>1, Receives
    <3>3. stream'[s].state \notin {"none", "created"}
      BY <1>5, <2>2 DEF Puts, Active
    <3>. QED
      BY <1>2, <2>2, <2>3, <2>5, <3>2, <3>3 DEF RecvAccount, StreamRecv, Sent, Puts
  <2>10. ASSUME NEW t \in Streams, t # s PROVE StreamRecv(t)'
    <3>1. RecvKept(t)
      BY <1>2, <2>2, <2>3, <2>5, <2>10 DEF RecvKept, Sent, Puts
    <3>. QED
      BY <1>0, <3>1, KeepRecv DEF RecvOK
  <2>11. Live'
    BY <2>6, <2>7, <2>8, <2>9, <2>10, ReceiveKeeps DEF RecvOK
  <2>. QED
    BY <1>1, <1>2, <1>5, <2>11 DEF IInv, FlowControlKept, Sent, Idle
<1>. QED
  BY <1>3, <1>4, <1>5 DEF OnStreamFrameData

\* A stream of the session is received from, and its bytes are acknowledged to
\* the session and to the stream.
LEMMA BothAcks ==
  ASSUME Live, NEW s \in Streams, NEW n \in Nat, Active(s), in_flight' = in_flight,
         queue' = AckStream(AckSession(queue, n), s, n)
  PROVE  /\ OnlyUpdates(s)
         /\ UpdateOut(Outgoing', 0)
              = UpdateOut(Outgoing, 0) + Acked(unacked + n, SessionMaxRecv)
         /\ UpdateOut(Outgoing', s)
              = UpdateOut(Outgoing, s) + Acked(stream[s].unacked + n, StreamMaxRecv)
<1>. PICK q : q = AckSession(queue, n)
  OBVIOUS
<1>1. Updates(queue, q, 0, "HIGHEST", Acked(unacked + n, SessionMaxRecv))
  BY SessionAcks
<1>2. Updates(q, queue', s, "tunnel", Acked(stream[s].unacked + n, StreamMaxRecv))
  BY <1>1, StreamAcks DEF Updates
<1>3. Out(queue, in_flight) = Outgoing /\ Outgoing' = Out(queue', in_flight) /\ s # 0
  BY StreamsAssumption DEF Outgoing, Out
<1>4. /\ IsQueue(queue') /\ queue \subseteq queue'
      /\ \A g \in queue' \ queue :
           /\ g.type = "WINDOW_UPDATE"
           /\ \/ g.stream = 0 /\ g.priority = "HIGHEST"
              \/ g.stream = s /\ g.priority = "tunnel" /\ Active(s)
  BY <1>1, <1>2 DEF Updates
<1>5. /\ SessionOut(Outgoing') = SessionOut(Outgoing)
      /\ \A t \in Streams : StreamOut(Outgoing', t) = StreamOut(Outgoing, t)
  BY <1>1, <1>2, <1>3 DEF Updates
<1>6. \A t \in Streams \ {s} : UpdateOut(Outgoing', t) = UpdateOut(Outgoing, t)
  BY <1>1, <1>2, <1>3, StreamsAssumption DEF Updates
<1>7. UpdateOut(Outgoing', 0) = UpdateOut(Outgoing, 0) + Acked(unacked + n, SessionMaxRecv)
  BY <1>1, <1>2, <1>3 DEF Updates
<1>8. UpdateOut(Outgoing', s)
        = UpdateOut(Outgoing, s) + Acked(stream[s].unacked + n, StreamMaxRecv)
  BY <1>1, <1>2, <1>3 DEF Updates
<1>. QED
  BY <1>4, <1>5, <1>6, <1>7, <1>8 DEF OnlyUpdates

\* Padding of the peer keeps the invariant.
LEMMA StepPadding ==
  ASSUME Live, FlowControlKept, NEW s \in Streams, NEW n \in 1..MaxLen, OnStreamPadding(s, n)
  PROVE  IInv'
<1>0. Types /\ OneLoop /\ FramesOK /\ ResetOK /\ SendOK /\ RecvOK /\ WakersOK
  BY DEF Live
<1>1. /\ PeerSends(s, n) /\ Idle /\ s \in peer.open /\ Posts /\ n \in Nat
      /\ UNCHANGED <<initial_window, unstall, requeue, adjust, in_flight, in_io_loop>>
  <2>1. /\ PeerSends(s, n) /\ PostIfEnqueued
        /\ UNCHANGED <<initial_window, unstall, requeue, adjust, in_flight, in_io_loop>>
    BY DEF OnStreamPadding
  <2>2. Idle /\ s \in peer.open
    BY <2>1 DEF PeerSends
  <2>3. n \in Nat
    BY BoundsAssumption
  <2>. QED
    BY <2>1, <2>2, <2>3, PostPosts
<1>2. Sent(s, n)
  BY <1>1, PeerSendsSent
<1>3. CASE Exceeds(n) /\ Drain("receive window exceeded")
  BY <1>1, <1>3, ExceedsKeeps
<1>4. CASE Discards(s, n, Active(s))
  BY <1>1, <1>2, <1>4, DiscardKeeps
<1>5. CASE /\ Active(s)
           /\ unacked' = Unacked(unacked + n, SessionMaxRecv)
           /\ stream' = [stream EXCEPT ![s].unacked = Unacked(@ + n, StreamMaxRecv)]
           /\ queue' = AckStream(AckSession(queue, n), s, n)
           /\ UNCHANGED <<drained, send_window, resuming, recv_window, held>>
  <2>. PICK ua : ua = Unacked(stream[s].unacked + n, StreamMaxRecv)
    OBVIOUS
  <2>1. /\ stream \in [Streams -> StreamType] /\ stream[s].unacked \in Nat
        /\ held \in [Streams -> Nat] /\ IsFiniteSet(HeldBytes(held)) /\ unacked \in Nat
        /\ recv_window \in Int
    BY <1>0 DEF Types, StreamType
  <2>2. /\ OnlyUpdates(s)
        /\ UpdateOut(Outgoing', 0)
             = UpdateOut(Outgoing, 0) + Acked(unacked + n, SessionMaxRecv)
        /\ UpdateOut(Outgoing', s)
             = UpdateOut(Outgoing, s) + Acked(stream[s].unacked + n, StreamMaxRecv)
    BY <1>1, <1>5, BothAcks
  <2>3. RecvAccount(recv_window, unacked', peer.window - n, UpdateOut(Outgoing', 0),
                    SessionMaxRecv, Cardinality(HeldBytes(held)))
    BY <1>1, <1>5, <2>2, Accounts, ConsumesAtOnce
  <2>4. RecvAccount(stream[s].recv, ua, peer.streamWindow[s] - n, UpdateOut(Outgoing', s),
                    StreamMaxRecv, held[s])
    <3>1. RecvAccount(stream[s].recv, stream[s].unacked, peer.streamWindow[s],
                      UpdateOut(Outgoing, s), StreamMaxRecv, held[s])
      BY <1>5, Accounts DEF Active
    <3>. QED
      BY <1>1, <2>2, <3>1, ConsumesAtOnce
  <2>5. Puts(stream, stream', s, stream[s].state, stream[s].window, stream[s].stalled,
             stream[s].pending, stream[s].recv, ua)
    <3>1. ua \in Nat
      BY <2>4 DEF RecvAccount
    <3>2. stream' = [stream EXCEPT ![s].unacked = ua]
      BY <1>5, <2>1
    <3>. QED
      BY <2>1, <3>1, <3>2, PutUnacked
  <2>6. Receiving(s)
    <3>1. \A t \in Streams : SendSame(t)
      BY <2>5 DEF SendSame, Puts
    <3>2. recv_window' \in Int /\ unacked' \in Nat
      BY <1>5, <2>1, <2>3 DEF RecvAccount
    <3>. QED
      BY <1>1, <1>2, <1>5, <2>1, <2>5, <3>1, <3>2 DEF Receiving, Sent, Puts
  <2>7. SessionRecv'
    BY <1>2, <1>5, <2>3 DEF RecvAccount, SessionRecv, Sent
  <2>8. StreamRecv(s)'
    <3>1. stream'[s].state \notin {"none", "created"}
      BY <1>5, <2>5 DEF Puts, Active
    <3>. QED
      BY <1>2, <1>5, <2>4, <2>5, <3>1 DEF RecvAccount, StreamRecv, Sent, Puts
  <2>9. ASSUME NEW t \in Streams, t # s PROVE StreamRecv(t)'
    <3>1. RecvKept(t)
      BY <1>2, <1>5, <2>2, <2>5, <2>9 DEF RecvKept, Sent, Puts, OnlyUpdates
    <3>. QED
      BY <1>0, <3>1, KeepRecv DEF RecvOK
  <2>10. Live'
    BY <2>2, <2>6, <2>7, <2>8, <2>9, ReceiveKeeps DEF RecvOK
  <2>. QED
    BY <1>1, <1>2, <1>5, <2>10 DEF IInv, FlowControlKept, Sent, Idle
<1>. QED
  BY <1>3, <1>4, <1>5 DEF OnStreamPadding

\* Bytes that are read keep the invariant.
LEMMA StepReadBufferConsumed ==
  ASSUME Live, FlowControlKept, NEW s \in Streams, NEW n \in 1..MaxLen,
         OnReadBufferConsumed(s, n)
  PROVE  IInv'
<1>0. Types /\ OneLoop /\ FramesOK /\ ResetOK /\ SendOK /\ RecvOK /\ WakersOK
  BY DEF Live
<1>1. /\ Idle /\ n <= held[s] /\ held' = [held EXCEPT ![s] = @ - n] /\ Posts
      /\ n \in Nat \ {0} /\ recv_window' = recv_window + n
      /\ unacked' = Unacked(unacked + n, SessionMaxRecv) /\ peer' = peer
      /\ UNCHANGED <<drained, initial_window, sendVars, loopVars, in_flight, in_io_loop,
                     events>>
  <2>1. n \in Nat \ {0}
    BY BoundsAssumption
  <2>. QED
    BY <2>1, PostPosts DEF OnReadBufferConsumed
<1>2. /\ stream \in [Streams -> StreamType] /\ stream[s].unacked \in Nat
      /\ stream[s].recv \in Int /\ peer \in PeerType /\ events \in Nat
      /\ held \in [Streams -> Nat] /\ IsFiniteSet(HeldBytes(held)) /\ unacked \in Nat
      /\ recv_window \in Int
  BY <1>0 DEF Types, StreamType
<1>3. /\ held' \in [Streams -> Nat] /\ held'[s] = held[s] - n
      /\ \A t \in Streams \ {s} : held'[t] = held[t]
  BY <1>1, <1>2
<1>4. /\ IsFiniteSet(HeldBytes(held')) /\ n <= Cardinality(HeldBytes(held))
      /\ Cardinality(HeldBytes(held')) = Cardinality(HeldBytes(held)) - n
  <2>1. /\ IsFiniteSet(HeldBytes(held')) /\ Cardinality(HeldBytes(held')) \in Nat
        /\ Cardinality(HeldBytes(held')) + n = Cardinality(HeldBytes(held))
    <3>1. n \in Nat
      BY <1>1
    <3>. QED
      BY <1>2, <1>3, <3>1, HeldLess
  <2>2. ASSUME NEW a \in Nat, NEW b, a + n = b PROVE n <= b /\ a = b - n
    BY <1>1, <2>2
  <2>. QED
    BY <2>1, <2>2
<1>5. RecvAccount(recv_window', unacked', peer'.window,
                  UpdateOut(Outgoing, 0) + Acked(unacked + n, SessionMaxRecv),
                  SessionMaxRecv, Cardinality(HeldBytes(held')))
  BY <1>1, <1>4, Accounts, Consumes
<1>6. recv_window' \in Int /\ unacked' \in Nat
  BY <1>5 DEF RecvAccount
<1>7. ASSUME stream' \in [Streams -> StreamType], \A t \in Streams : SendSame(t)
      PROVE  Receiving(s)
  BY <1>1, <1>2, <1>3, <1>4, <1>6, <1>7 DEF Receiving, sendVars, loopVars
<1>8. ASSUME UpdateOut(Outgoing', 0)
               = UpdateOut(Outgoing, 0) + Acked(unacked + n, SessionMaxRecv)
      PROVE  SessionRecv'
  BY <1>5, <1>8 DEF RecvAccount, SessionRecv
<1>9. ASSUME Live' PROVE IInv'
  BY <1>1, <1>9 DEF IInv, FlowControlKept
<1>10. CASE /\ Active(s)
            /\ stream' = [stream EXCEPT ![s].recv = @ + n,
                                        ![s].unacked = Unacked(@ + n, StreamMaxRecv)]
            /\ queue' = AckStream(AckSession(queue, n), s, n)
  <2>. PICK ua : ua = Unacked(stream[s].unacked + n, StreamMaxRecv)
    OBVIOUS
  <2>1. /\ OnlyUpdates(s)
        /\ UpdateOut(Outgoing', 0)
             = UpdateOut(Outgoing, 0) + Acked(unacked + n, SessionMaxRecv)
        /\ UpdateOut(Outgoing', s)
             = UpdateOut(Outgoing, s) + Acked(stream[s].unacked + n, StreamMaxRecv)
    BY <1>1, <1>10, BothAcks
  <2>2. RecvAccount(stream[s].recv + n, ua, peer.streamWindow[s], UpdateOut(Outgoing', s),
                    StreamMaxRecv, held[s] - n)
    <3>1. RecvAccount(stream[s].recv, stream[s].unacked, peer.streamWindow[s],
                      UpdateOut(Outgoing, s), StreamMaxRecv, held[s])
      BY <1>10, Accounts DEF Active
    <3>. QED
      BY <1>1, <2>1, <3>1, Consumes
  <2>3. Puts(stream, stream', s, stream[s].state, stream[s].window, stream[s].stalled,
             stream[s].pending, stream[s].recv + n, ua)
    <3>1. ua \in Nat /\ stream[s].recv + n \in Int
      BY <2>2 DEF RecvAccount
    <3>2. stream' = [stream EXCEPT ![s].recv = stream[s].recv + n, ![s].unacked = ua]
      BY <1>2, <1>10
    <3>. QED
      BY <1>2, <3>1, <3>2, PutRead
  <2>4. Receiving(s)
    BY <1>7, <2>3 DEF SendSame, Puts
  <2>5. StreamRecv(s)'
    <3>1. stream'[s].state \notin {"none", "created"}
      BY <1>10, <2>3 DEF Puts, Active
    <3>. QED
      BY <1>1, <1>3, <2>2, <2>3, <3>1 DEF RecvAccount, StreamRecv, Puts
  <2>6. ASSUME NEW t \in Streams, t # s PROVE StreamRecv(t)'
    <3>1. RecvKept(t)
      BY <1>1, <1>3, <2>1, <2>3, <2>6 DEF RecvKept, Puts, OnlyUpdates
    <3>. QED
      BY <1>0, <3>1, KeepRecv DEF RecvOK
  <2>. QED
    BY <1>8, <1>9, <2>1, <2>4, <2>5, <2>6, ReceiveKeeps DEF RecvOK
<1>11. CASE ~Active(s) /\ queue' = AckSession(queue, n) /\ UNCHANGED stream
  <2>1. stream[s].state = "closed"
    <3>1. stream[s].state \notin {"none", "created"}
      BY <1>0, <1>1, <1>2 DEF RecvOK, StreamRecv
    <3>. QED
      BY <1>2, <1>11, <3>1 DEF Active, StreamType, States
  <2>2. Updates(queue, queue', 0, "HIGHEST", Acked(unacked + n, SessionMaxRecv))
    BY <1>1, <1>11, SessionAcks
  <2>3. Out(queue, in_flight) = Outgoing /\ Outgoing' = Out(queue', in_flight)
    BY <1>1 DEF Outgoing, Out
  <2>4. OnlyUpdates(s)
    BY <1>1, <2>2, <2>3, StreamsAssumption DEF OnlyUpdates, Updates
  <2>5. Receiving(s)
    BY <1>2, <1>7, <1>11 DEF SendSame
  <2>6. SessionRecv'
    BY <1>8, <2>2, <2>3 DEF Updates
  <2>7. ASSUME NEW t \in Streams PROVE StreamRecv(t)'
    <3>1. RecvKept(t)
      BY <1>1, <1>3, <1>11, <2>1, <2>4 DEF RecvKept, OnlyUpdates
    <3>. QED
      BY <1>0, <3>1, KeepRecv DEF RecvOK
  <2>. QED
    BY <1>9, <2>4, <2>5, <2>6, <2>7, ReceiveKeeps DEF RecvOK
<1>. QED
  BY <1>10, <1>11 DEF OnReadBufferConsumed

-----------------------------------------------------------------------------
(***************************************************************************)
(* Writing.                                                                *)
(***************************************************************************)
\* DoWrite keeps the invariant.
LEMMA StepDoWrite ==
  ASSUME Live, FlowControlKept, DoWrite
  PROVE  IInv'
<1>0. Types /\ OneLoop /\ FramesOK /\ ResetOK /\ SendOK /\ RecvOK /\ WakersOK
  BY DEF Live
<1>1. /\ in_io_loop /\ in_io_loop' = FALSE
      /\ UNCHANGED <<drained, initial_window, sendVars, loopVars, recvVars, peer, events>>
  BY DEF DoWrite
<1>2. in_flight = NoFrame
  BY <1>0, <1>1 DEF OneLoop
<1>3. FlowControlKept'
  BY <1>1 DEF FlowControlKept
<1>4. ASSUME NEW t \in Streams, stream'[t].window = stream[t].window
      PROVE  Waits(t, stream[t].window) => Waits(t, stream[t].window)'
  BY <1>1, <1>4 DEF Waits, IsSendStalled, sendVars, loopVars
<1>5. CASE write_state' = "IDLE" /\ UNCHANGED <<queue, in_flight, stream>>
  <2>1. OneLoop'
    BY <1>0, <1>1, <1>2, <1>5 DEF OneLoop, loopVars
  <2>2. ASSUME NEW t \in Streams PROVE WakerOK(t)'
    BY <1>4, <1>5, QuietWaker
  <2>3. Live'
    BY <1>0, <1>1, <1>5, <2>1, <2>2, SamePeer, QuietStep DEF sendVars, loopVars, Types
  <2>. QED
    BY <1>3, <2>3 DEF IInv
<1>6. ASSUME NEW f \in queue, \A g \in queue \ {f} : Before(f, g),
             in_flight' = [f EXCEPT !.number = 0], queue' = queue \ {f},
             stream' = IF f.type # "HEADERS" THEN stream
                       ELSE [stream EXCEPT ![f.stream].state = "activated"],
             write_state' = "DO_WRITE_COMPLETE"
      PROVE  IInv'
  <2>. PICK w : w = [f EXCEPT !.number = 0]
    OBVIOUS
  <2>1. /\ f \in QueuedFrame /\ f.number # 0 /\ f \in Outgoing /\ IsQueue(queue)
        /\ stream \in [Streams -> StreamType] /\ peer \in PeerType
    BY <1>0, QueuedFacts DEF Types, Outgoing
  <2>2. /\ w.type = f.type /\ w.stream = f.stream /\ w.size = f.size /\ w.number = 0
        /\ w.priority = f.priority
    BY <2>1 DEF QueuedFrame
  <2>3. /\ f.stream \in Streams \cup {0} /\ f.type \in FrameTypes
        /\ f.type \in {"DATA", "RST_STREAM", "HEADERS"} => f.stream \in Streams
    BY <1>0, <2>1, OutgoingFacts DEF QueuedFrame
  <2>4. /\ IsQueue(queue') /\ IsWritten(w)
        /\ Adds(Out(queue, NoFrame), Out(queue', w), "none", 0, 0)
    BY <1>6, <2>1, <2>3, DequeueAdds
  <2>5. /\ Outgoing = Out(queue, NoFrame) /\ Outgoing' = Out(queue', w) /\ in_flight' = w
        /\ OutNat(Outgoing)
    BY <1>0, <1>2, <1>6, OutgoingIsOut DEF Outgoing, Out
  <2>6. /\ SessionOut(Outgoing') = SessionOut(Outgoing)
        /\ \A t \in Streams : StreamOut(Outgoing', t) = StreamOut(Outgoing, t)
        /\ \A t \in Streams \cup {0} : UpdateOut(Outgoing', t) = UpdateOut(Outgoing, t)
    BY <2>4, <2>5, AddsNothing
  <2>7. /\ f.type = "HEADERS" =>
             /\ stream[f.stream].state = "created"
             /\ Puts(stream, stream', f.stream, "activated", stream[f.stream].window,
                     stream[f.stream].stalled, stream[f.stream].pending,
                     stream[f.stream].recv, stream[f.stream].unacked)
        /\ f.type # "HEADERS" => stream' = stream
    <3>1. ASSUME f.type = "HEADERS" PROVE stream[f.stream].state = "created"
      BY <1>0, <2>1, <3>1 DEF FramesOK, FrameOK
    <3>2. ASSUME f.type = "HEADERS"
          PROVE  Puts(stream, stream', f.stream, "activated", stream[f.stream].window,
                      stream[f.stream].stalled, stream[f.stream].pending,
                      stream[f.stream].recv, stream[f.stream].unacked)
      <4>1. /\ stream' = [stream EXCEPT ![f.stream].state = "activated"]
            /\ f.stream \in Streams /\ "activated" \in States
        BY <1>6, <2>3, <3>2 DEF States
      <4>. QED
        BY <2>1, <4>1, PutState
    <3>3. ASSUME f.type # "HEADERS" PROVE stream' = stream
      BY <1>6, <3>3
    <3>. QED
      BY <3>1, <3>2, <3>3
  <2>8. /\ stream' \in [Streams -> StreamType]
        /\ \A t \in Streams :
             /\ stream'[t].window = stream[t].window /\ stream'[t].stalled = stream[t].stalled
             /\ stream'[t].pending = stream[t].pending /\ stream'[t].recv = stream[t].recv
             /\ stream'[t].unacked = stream[t].unacked
             /\ \/ stream'[t].state = stream[t].state
                \/ /\ stream[t].state = "created" /\ stream'[t].state = "activated"
                   /\ f.type = "HEADERS" /\ f.stream = t
    <3>1. CASE f.type = "HEADERS"
      <4>1. /\ stream[f.stream].state = "created" /\ f.stream \in Streams
            /\ Puts(stream, stream', f.stream, "activated", stream[f.stream].window,
                    stream[f.stream].stalled, stream[f.stream].pending,
                    stream[f.stream].recv, stream[f.stream].unacked)
        BY <2>3, <2>7, <3>1
      <4>. QED
        BY <3>1, <4>1 DEF Puts
    <3>2. CASE f.type # "HEADERS"
      BY <2>1, <2>7, <3>2
    <3>. QED
      BY <3>1, <3>2
  <2>9. Types'
    BY <1>0, <1>1, <2>4, <2>5, <2>8 DEF Types, IsWritten, sendVars, loopVars, recvVars
  <2>10. OneLoop'
    BY <1>0, <1>1, <1>6, <2>8 DEF OneLoop, loopVars, Types
  <2>11. \A g \in Outgoing' : g = w \/ (g \in Outgoing /\ g # f)
    BY <1>6, <2>5 DEF Out
  <2>12. ASSUME NEW g \in Outgoing, g # f, f.type = "HEADERS" PROVE g.stream # f.stream
    <3>1. SUFFICES ASSUME g.stream = f.stream PROVE FALSE
      OBVIOUS
    <3>2. stream[g.stream].state = "created" /\ g.stream # 0
      BY <2>3, <2>7, <2>12, <3>1, StreamsAssumption
    <3>3. g.type \notin {"DATA", "WINDOW_UPDATE", "RST_STREAM"} /\ g.type # "none"
      <4>1. FrameOK(g)
        BY <1>0 DEF FramesOK
      <4>2. g.type = "none" => g.stream = 0
        BY <1>0, OutgoingFacts DEF NoFrame, Frame
      <4>. QED
        BY <3>2, <4>1, <4>2 DEF FrameOK
    <3>4. g.type = "HEADERS"
      BY <1>0, <3>3, OutgoingFacts DEF FrameTypes
    <3>. QED
      BY <1>0, <2>1, <2>12, <3>1, <3>4 DEF FramesOK
  <2>13. FramesOK'
    <3>1. ASSUME NEW g \in Outgoing, g # f PROVE FrameOK(g)'
      <4>1. FrameOK(g) /\ g.stream \in Streams \cup {0}
        BY <1>0, OutgoingFacts DEF FramesOK
      <4>2. g.stream \in Streams => stream'[g.stream].state = stream[g.stream].state
        BY <2>8, <2>12, <3>1
      <4>. QED
        BY <4>1, <4>2, KeepFrame
    <3>2. FrameOK(w)'
      <4>1. FrameOK(f)
        BY <1>0, <2>1 DEF FramesOK
      <4>2. CASE f.type # "HEADERS"
        BY <2>2, <2>7, <4>1, <4>2 DEF FrameOK
      <4>3. CASE f.type = "HEADERS"
        <5>1. f.stream \in Streams /\ f.stream # 0 /\ stream'[f.stream].state = "activated"
          BY <2>3, <2>7, <4>3, StreamsAssumption DEF Puts
        <5>. QED
          BY <2>2, <4>1, <4>3, <5>1 DEF FrameOK
      <4>. QED
        BY <4>2, <4>3
    <3>3. \A g \in Outgoing' : FrameOK(g)'
      BY <2>11, <3>1, <3>2
    <3>4. ASSUME NEW g \in Outgoing', NEW h \in Outgoing',
                 g.type = "HEADERS", h.type = "HEADERS", g.stream = h.stream
          PROVE  g = h
      BY <1>0, <2>2, <2>11, <2>12, <3>4 DEF FramesOK
    <3>5. /\ \A t \in peer'.open : stream'[t].state \notin {"none", "created"}
          /\ \A t \in peer'.reset : stream'[t].state = "closed"
      <4>1. peer' = peer /\ peer.open \subseteq Streams /\ peer.reset \subseteq Streams
        BY <1>1, <2>1 DEF PeerType
      <4>2. ASSUME NEW t \in peer.open PROVE stream'[t].state \notin {"none", "created"}
        BY <1>0, <2>8, <4>1 DEF FramesOK
      <4>3. ASSUME NEW t \in peer.reset PROVE stream'[t].state = "closed"
        BY <1>0, <2>8, <4>1 DEF FramesOK
      <4>. QED
        BY <4>1, <4>2, <4>3
    <3>. QED
      BY <3>3, <3>4, <3>5 DEF FramesOK
  <2>14. ResetOK'
    <3>1. ASSUME NEW g \in Outgoing' PROVE g.stream \notin peer'.reset
      BY <1>0, <1>1, <2>1, <2>2, <2>11 DEF ResetOK
    <3>2. ASSUME NEW g \in Outgoing', NEW h \in Outgoing', g.type = "RST_STREAM",
                 h.stream = g.stream
          PROVE  ~Before(g, h)
      <4>1. CASE h = w
        BY <2>2, <4>1 DEF Before
      <4>2. CASE g \in Outgoing /\ h \in Outgoing
        BY <1>0, <3>2, <4>2 DEF ResetOK
      <4>3. CASE g = w /\ h \in Outgoing /\ h # f
        <5>1. f.type = "RST_STREAM" /\ h.stream = f.stream /\ f.stream # 0
          BY <2>2, <2>3, <3>2, <4>3, StreamsAssumption
        <5>2. h \in queue \ {f}
          BY <2>5, <4>3, <5>1 DEF Out, NoFrame, Frame
        <5>3. Before(f, h) /\ ~Before(f, h)
          BY <1>0, <1>6, <2>1, <4>3, <5>1, <5>2 DEF ResetOK
        <5>. QED
          BY <5>3
      <4>. QED
        BY <2>11, <4>1, <4>2, <4>3
    <3>. QED
      BY <3>1, <3>2 DEF ResetOK
  <2>15. SendOK'
    <3>1. ASSUME NEW t \in Streams PROVE StreamAccount(t)'
      <4>1. CASE stream'[t].state = stream[t].state
        <5>1. SendKept(t)
          BY <1>1, <2>6, <2>8, <4>1 DEF SendKept, loopVars
        <5>. QED
          BY <1>0, <5>1, KeepSend DEF SendOK
      <4>2. CASE stream[t].state = "created" /\ stream'[t].state = "activated"
        BY <1>0, <1>1, <2>6, <2>8, <4>2 DEF SendOK, StreamAccount, loopVars
      <4>. QED
        BY <2>8, <4>1, <4>2
    <3>. QED
      BY <1>0, <1>1, <2>6, <3>1 DEF SendOK, SessionAccount, Rules, sendVars, loopVars
  <2>16. RecvOK'
    <3>1. ASSUME NEW t \in Streams PROVE RecvKept(t)
      BY <1>1, <2>6, <2>8 DEF RecvKept, recvVars
    <3>. QED
      BY <1>0, <1>1, <2>6, <3>1, KeepRecvOK
  <2>17. ASSUME NEW t \in Streams PROVE WakerOK(t)'
    <3>1. WakerOK(t)
      BY <1>0 DEF WakersOK
    <3>2. Waits(t, stream[t].window) => Waits(t, stream[t].window)'
      BY <1>4, <2>8
    <3>3. CASE f.type = "DATA" /\ f.stream = t
      <4>1. f \in DataOf(Outgoing, t) /\ stream'[t].state = stream[t].state
        BY <2>1, <2>8, <3>3 DEF DataOf
      <4>2. ASSUME stream[t].state # "closed"
            PROVE  /\ stream[t].state = "open" /\ stream[t].pending # 0 /\ ~stream[t].stalled
                   /\ DataOf(Outgoing', t) = {w} /\ w \in Outgoing'
        <5>1. stream[t].pending \in Nat
          BY <2>1 DEF StreamType
        <5>2. /\ stream[t].pending # 0 /\ ~stream[t].stalled /\ stream[t].state = "open"
          BY <3>1, <4>1, <4>2, <5>1 DEF WakerOK
        <5>3. DataOf(Outgoing, t) = {f}
          BY <3>1, <4>1, <4>2, <5>1, <5>2 DEF WakerOK
        <5>. QED
          BY <2>2, <2>5, <2>11, <3>3, <5>2, <5>3 DEF DataOf, Out
      <4>. QED
        BY <2>8, <4>1, <4>2 DEF WakerOK
    <3>4. CASE ~(f.type = "DATA" /\ f.stream = t)
      <4>1. DataOf(Outgoing', t) = DataOf(Outgoing, t)
        <5>1. ASSUME NEW g \in DataOf(Outgoing', t) PROVE g \in DataOf(Outgoing, t)
          <6>1. g \in Outgoing' /\ g.type = "DATA" /\ g.stream = t
            BY <5>1 DEF DataOf
          <6>2. g # w
            BY <2>2, <3>4, <6>1
          <6>. QED
            BY <2>11, <6>1, <6>2 DEF DataOf
        <5>2. ASSUME NEW g \in DataOf(Outgoing, t) PROVE g \in DataOf(Outgoing', t)
          <6>1. g \in Outgoing /\ g.type = "DATA" /\ g.stream = t
            BY <5>2 DEF DataOf
          <6>2. g # f /\ g # NoFrame
            BY <3>4, <6>1 DEF NoFrame, Frame
          <6>3. g \in Outgoing'
            BY <1>6, <2>5, <6>1, <6>2 DEF Out
          <6>. QED
            BY <6>1, <6>3 DEF DataOf
        <5>. QED
          BY <5>1, <5>2 DEF DataOf
      <4>2. ASSUME NEW g \in Outgoing, DataOf(Outgoing, t) = {g} PROVE g \in Outgoing'
        BY <4>1, <4>2 DEF DataOf
      <4>. QED
        BY <2>8, <3>1, <3>2, <4>1, <4>2 DEF WakerOK
    <3>. QED
      BY <3>3, <3>4
  <2>18. Live'
    BY <2>9, <2>10, <2>13, <2>14, <2>15, <2>16, <2>17 DEF Live, WakersOK
  <2>. QED
    BY <1>3, <2>18 DEF IInv
<1>. QED
  BY <1>5, <1>6 DEF DoWrite

\* What the peer has after it received f.
Gets(f) ==
  /\ peer' \in PeerType /\ peer'.faulty = peer.faulty /\ peer'.blamed = peer.blamed
  /\ peer'.lowered = peer.lowered
  /\ peer'.credit
       = peer.credit - (IF f.type \in {"DATA", "RST_STREAM"} THEN f.size ELSE 0)
  /\ peer'.window
       = peer.window + (IF f.type = "WINDOW_UPDATE" /\ f.stream = 0 THEN f.size ELSE 0)
  /\ \A t \in Streams :
       /\ ~(f.type = "RST_STREAM" /\ t = f.stream) =>
            peer'.streamCredit[t]
              = peer.streamCredit[t] - (IF f.type = "DATA" /\ t = f.stream THEN f.size ELSE 0)
       /\ f.type = "RST_STREAM" /\ t = f.stream => peer'.streamCredit[t] = 0
       /\ peer'.streamWindow[t]
            = peer.streamWindow[t]
                + (IF f.type = "WINDOW_UPDATE" /\ t = f.stream THEN f.size ELSE 0)
       /\ t \in peer'.open => t \in peer.open \/ (f.type = "HEADERS" /\ t = f.stream)
       /\ t \in peer'.reset => t \in peer.reset \/ (f.type = "RST_STREAM" /\ t = f.stream)
  /\ peer'.overrun =>
       \/ peer.overrun
       \/ f.type \in {"DATA", "RST_STREAM"} /\ f.size > peer.credit
       \/ /\ f.type = "DATA" /\ f.stream \in peer.open /\ ~peer.lowered
          /\ f.size > peer.streamCredit[f.stream]

\* That is what PeerReceives does.
LEMMA PeerReceivesGets ==
  ASSUME peer \in PeerType, NEW f, IsWritten(f),
         f.type \in {"DATA", "RST_STREAM", "HEADERS"} => f.stream \in Streams,
         PeerReceives(f)
  PROVE  Gets(f)
<1>. DEFINE s == f.stream
            v0 == IF f.type \in {"DATA", "RST_STREAM"}
                  THEN peer.credit - f.size ELSE peer.credit
            v1 == CASE f.type = "DATA" ->
                         [peer.streamCredit EXCEPT ![s] = peer.streamCredit[s] - f.size]
                    [] f.type = "RST_STREAM" -> [peer.streamCredit EXCEPT ![s] = 0]
                    [] OTHER -> peer.streamCredit
            v2 == IF f.type = "WINDOW_UPDATE" /\ s = 0
                  THEN peer.window + f.size ELSE peer.window
            v3 == IF f.type = "WINDOW_UPDATE" /\ s # 0
                  THEN [peer.streamWindow EXCEPT ![s] = peer.streamWindow[s] + f.size]
                  ELSE peer.streamWindow
            v4 == IF f.type = "HEADERS" THEN peer.open \cup {s}
                  ELSE IF f.type = "RST_STREAM" THEN peer.open \ {s} ELSE peer.open
            v5 == IF f.type = "RST_STREAM" THEN peer.reset \cup {s} ELSE peer.reset
            v6 == \/ peer.overrun
                  \/ f.type \in {"DATA", "RST_STREAM"} /\ f.size > peer.credit
                  \/ /\ f.type = "DATA" /\ s \in peer.open /\ ~peer.lowered
                     /\ f.size > peer.streamCredit[s]
<1>1. peer' = [peer EXCEPT !.credit = v0, !.streamCredit = v1, !.window = v2,
                           !.streamWindow = v3, !.open = v4, !.reset = v5, !.overrun = v6]
  BY Zenon DEF PeerReceives
<1>2. /\ f.size \in Nat /\ s \in Streams \cup {0}
      /\ peer.credit \in Int /\ peer.window \in Int /\ peer.streamCredit \in [Streams -> Int]
      /\ peer.streamWindow \in [Streams -> Int] /\ peer.open \in SUBSET Streams
      /\ peer.reset \in SUBSET Streams /\ peer.overrun \in BOOLEAN
  BY WrittenFacts DEF PeerType
<1>3. /\ v0 \in Int
      /\ v0 = peer.credit - (IF f.type \in {"DATA", "RST_STREAM"} THEN f.size ELSE 0)
  BY <1>2
<1>4. /\ v1 \in [Streams -> Int]
      /\ \A t \in Streams :
           /\ ~(f.type = "RST_STREAM" /\ t = s) =>
                v1[t] = peer.streamCredit[t] - (IF f.type = "DATA" /\ t = s THEN f.size ELSE 0)
           /\ f.type = "RST_STREAM" /\ t = s => v1[t] = 0
  <2>1. CASE f.type = "DATA"
    BY <1>2, <2>1
  <2>2. CASE f.type = "RST_STREAM"
    BY <1>2, <2>2
  <2>3. CASE f.type \notin {"DATA", "RST_STREAM"}
    BY <1>2, <2>3
  <2>. QED
    BY <2>1, <2>2, <2>3
<1>5. /\ v2 \in Int
      /\ v2 = peer.window + (IF f.type = "WINDOW_UPDATE" /\ s = 0 THEN f.size ELSE 0)
  BY <1>2
<1>6. /\ v3 \in [Streams -> Int]
      /\ \A t \in Streams :
           v3[t] = peer.streamWindow[t]
                     + (IF f.type = "WINDOW_UPDATE" /\ t = s THEN f.size ELSE 0)
  <2>1. CASE f.type = "WINDOW_UPDATE" /\ s # 0
    BY <1>2, <2>1
  <2>2. CASE ~(f.type = "WINDOW_UPDATE" /\ s # 0)
    <3>1. v3 = peer.streamWindow /\ \A t \in Streams : ~(f.type = "WINDOW_UPDATE" /\ t = s)
      BY <1>2, <2>2, StreamsAssumption
    <3>. HIDE DEF v3
    <3>. QED
      BY <1>2, <3>1
  <2>. QED
    BY <2>1, <2>2
<1>7. /\ v4 \in SUBSET Streams /\ v5 \in SUBSET Streams /\ v6 \in BOOLEAN
      /\ \A t \in Streams :
           /\ t \in v4 => t \in peer.open \/ (f.type = "HEADERS" /\ t = s)
           /\ t \in v5 => t \in peer.reset \/ (f.type = "RST_STREAM" /\ t = s)
  BY <1>2
<1>. HIDE DEF v0, v1, v2, v3, v4, v5, v6
<1>8. PeerIs(peer', v0, v2, v1, v3, v4, v5, peer.faulty, v6, peer.blamed, peer.lowered)
  <2>1. /\ v0 \in Int /\ v1 \in [Streams -> Int] /\ v2 \in Int /\ v3 \in [Streams -> Int]
        /\ v4 \in SUBSET Streams /\ v5 \in SUBSET Streams /\ v6 \in BOOLEAN
    BY <1>3, <1>4, <1>5, <1>6, <1>7
  <2>. QED
    BY <1>1, <2>1, PeerGets, ZenonT(60)
<1>9. peer'.overrun = v6
  BY <1>8 DEF PeerIs
<1>. QED
  BY <1>3, <1>4, <1>5, <1>6, <1>7, <1>8, <1>9 DEF Gets, PeerIs, v6

\* The accounts, the frames and the writes when the peer has received what was
\* in flight and the frames F are under way.
Delivered(F) ==
  /\ peer' \in PeerType /\ peer'.faulty = peer.faulty /\ peer'.blamed = peer.blamed
  /\ peer'.lowered = peer.lowered /\ ~peer'.overrun
  /\ OutNat(F) /\ send_window + SessionOut(F) = peer'.credit
  /\ \A t \in Streams :
       /\ stream[t].state \in {"created", "activated", "open"} =>
            stream[t].window + StreamOut(F, t) = peer'.streamCredit[t]
       /\ ~peer.lowered /\ stream[t].state # "closed" => stream[t].window >= 0
       /\ ~peer.lowered /\ stream[t].state = "closed" => StreamOut(F, t) <= peer'.streamCredit[t]
  /\ ~peer.faulty => /\ peer'.credit <= MaxWindow
                     /\ \A t \in Streams : peer'.streamCredit[t] <= MaxWindow
DeliveredFrames(F) ==
  /\ \A g \in F : FrameOK(g) /\ g.stream \in Streams \cup {0} /\ g.stream \notin peer'.reset
  /\ \A g, h \in F :
       /\ g.type = "HEADERS" /\ h.type = "HEADERS" /\ g.stream = h.stream => g = h
       /\ g.type = "RST_STREAM" /\ h.stream = g.stream => ~Before(g, h)
  /\ \A t \in peer'.open : t \in Streams /\ stream[t].state \notin {"none", "created"}
  /\ \A t \in peer'.reset : t \in Streams /\ stream[t].state = "closed"
DeliveredRecv(F) ==
  /\ recv_window - unacked = peer'.window + UpdateOut(F, 0)
  /\ \A t \in Streams : stream[t].state # "closed" =>
       stream[t].recv - stream[t].unacked = peer'.streamWindow[t] + UpdateOut(F, t)

\* The frame that is written.
LEMMA FlightFacts ==
  ASSUME Live
  PROVE  /\ in_flight \in Outgoing /\ IsWritten(in_flight) /\ FrameOK(in_flight)
         /\ in_flight.size \in Nat /\ in_flight.number = 0 /\ IsQueue(queue)
         /\ in_flight.stream \in Streams \cup {0}
         /\ in_flight.type \in FrameTypes \cup {"none"}
         /\ in_flight.type \in {"DATA", "RST_STREAM", "HEADERS"} =>
              in_flight.stream \in Streams
         /\ Outgoing = Out(queue, in_flight) /\ OutNat(Outgoing)
         /\ OutNat(Out(queue, NoFrame))
         /\ Adds(Outgoing, Out(queue, NoFrame), in_flight.type, in_flight.stream,
                 -in_flight.size)
<1>1. Types /\ FramesOK
  BY DEF Live
<1>2. in_flight \in Outgoing
  BY DEF Outgoing
<1>3. /\ Outgoing = Out(queue, in_flight) /\ IsQueue(queue) /\ IsWritten(in_flight)
      /\ OutNat(Outgoing)
  BY <1>1, OutgoingIsOut
<1>4. /\ in_flight.size \in Nat /\ in_flight.stream \in Streams \cup {0}
      /\ in_flight.type \in FrameTypes \cup {"none"}
      /\ in_flight.type \in {"DATA", "RST_STREAM", "HEADERS"} => in_flight.stream \in Streams
  BY <1>1, <1>2, OutgoingFacts
<1>5. in_flight.number = 0
  BY <1>3, WrittenFacts
<1>6. OutNat(Out(queue, NoFrame))
  BY <1>3, OutsAreNat DEF IsWritten
<1>7. Adds(Outgoing, Out(queue, NoFrame), in_flight.type, in_flight.stream, -in_flight.size)
  BY <1>3, <1>4, WrittenAdds
<1>. QED
  BY <1>1, <1>2, <1>3, <1>4, <1>5, <1>6, <1>7 DEF FramesOK

\* The send windows are accounted for when a frame was delivered.
LEMMA DeliversSend ==
  ASSUME Live, FlowControlKept, adjust.todo = {}, PeerReceives(in_flight),
         NEW F, F = Out(queue, NoFrame)
  PROVE  Delivered(F)
<1>. PICK f : f = in_flight
  OBVIOUS
<1>0. Types /\ FramesOK /\ ResetOK /\ SendOK /\ ~peer.overrun
  BY DEF Live, FlowControlKept
<1>1. /\ f \in Outgoing /\ IsWritten(f) /\ FrameOK(f) /\ f.size \in Nat /\ f.number = 0
      /\ f.stream \in Streams \cup {0} /\ f.type \in FrameTypes \cup {"none"}
      /\ f.type \in {"DATA", "RST_STREAM", "HEADERS"} => f.stream \in Streams
      /\ OutNat(Outgoing) /\ OutNat(F)
      /\ Adds(Outgoing, F, f.type, f.stream, -f.size) /\ IsQueue(queue)
  BY FlightFacts
<1>2. peer \in PeerType /\ stream \in [Streams -> StreamType] /\ send_window \in Nat
  BY <1>0 DEF Types
<1>3. Gets(f)
  BY <1>1, <1>2, PeerReceivesGets
<1>4. /\ peer' \in PeerType /\ peer'.faulty = peer.faulty /\ peer'.blamed = peer.blamed
      /\ peer'.lowered = peer.lowered
  BY <1>3 DEF Gets
<1>5. /\ send_window + SessionOut(F) = peer'.credit
      /\ f.type \in {"DATA", "RST_STREAM"} => f.size <= peer.credit
      /\ peer'.credit <= peer.credit
  <2>1. /\ SessionOut(F) \in Nat /\ SessionOut(Outgoing) \in Nat /\ peer.credit \in Int
        /\ send_window + SessionOut(Outgoing) = peer.credit
    BY <1>0, <1>1, <1>2 DEF SendOK, SessionAccount, OutNat, PeerType
  <2>2. CASE f.type \in {"DATA", "RST_STREAM"}
    <3>1. SessionOut(F) = SessionOut(Outgoing) + (-f.size) /\ peer'.credit = peer.credit - f.size
      BY <1>1, <1>3, <2>2 DEF Adds, Gets
    <3>. QED
      BY <1>1, <1>2, <2>1, <3>1
  <2>3. CASE f.type \notin {"DATA", "RST_STREAM"}
    <3>1. SessionOut(F) = SessionOut(Outgoing) + 0 /\ peer'.credit = peer.credit - 0
      BY <1>1, <1>3, <2>3 DEF Adds, Gets
    <3>. QED
      BY <1>2, <2>1, <2>3, <3>1
  <2>. QED
    BY <2>2, <2>3
<1>6. ASSUME NEW t \in Streams
      PROVE  /\ stream[t].state \in {"created", "activated", "open"} =>
                  stream[t].window + StreamOut(F, t) = peer'.streamCredit[t]
             /\ ~peer.lowered /\ stream[t].state # "closed" => stream[t].window >= 0
             /\ ~peer.lowered /\ stream[t].state = "closed" =>
                  StreamOut(F, t) <= peer'.streamCredit[t]
             /\ ~peer.lowered /\ t \in peer.open /\ f.type = "DATA" /\ t = f.stream =>
                  f.size <= peer.streamCredit[t]
             /\ peer'.streamCredit[t] <= peer.streamCredit[t] \/ peer'.streamCredit[t] = 0
  <2>1. /\ StreamOut(F, t) \in Nat /\ StreamOut(Outgoing, t) \in Nat
        /\ peer.streamCredit[t] \in Int /\ stream[t].window \in Int
        /\ stream[t].state \in States
    BY <1>1, <1>2 DEF OutNat, PeerType, StreamType
  <2>2. /\ stream[t].state \in {"created", "activated", "open"} =>
             stream[t].window + StreamOut(Outgoing, t) = peer.streamCredit[t]
        /\ ~peer.lowered /\ stream[t].state # "closed" => stream[t].window >= 0
        /\ ~peer.lowered /\ stream[t].state = "closed" =>
             StreamOut(Outgoing, t) <= peer.streamCredit[t]
    BY <1>0, <2>1 DEF SendOK, StreamAccount
  <2>3. t \in peer.open => stream[t].state \in {"activated", "open", "closed"}
    BY <1>0, <2>1 DEF FramesOK, States
  <2>4. CASE f.type = "DATA" /\ t = f.stream
    <3>1. /\ StreamOut(F, t) = StreamOut(Outgoing, t) + (-f.size)
          /\ peer'.streamCredit[t] = peer.streamCredit[t] - f.size
      BY <1>1, <1>3, <2>4 DEF Adds, Gets
    <3>. QED
      BY <1>1, <2>1, <2>2, <2>3, <3>1
  <2>5. CASE f.type = "RST_STREAM" /\ t = f.stream
    <3>1. stream[t].state = "closed" /\ peer'.streamCredit[t] = 0
      BY <1>1, <1>3, <2>5 DEF FrameOK, Gets
    <3>2. Of(F, {"DATA"}, {t}) = {}
      <4>1. ASSUME NEW g \in F, g.type = "DATA", g.stream = t PROVE FALSE
        <5>1. g \in queue
          BY <4>1 DEF Out, NoFrame, Frame
        <5>2. g \in Outgoing /\ g.number # 0
          BY <1>1, <5>1, QueuedFacts DEF Outgoing
        <5>3. Before(f, g)
          BY <1>1, <5>2 DEF Before
        <5>4. ~Before(f, g)
          BY <1>0, <1>1, <2>5, <4>1, <5>2 DEF ResetOK
        <5>. QED
          BY <5>3, <5>4
      <4>. QED
        BY <4>1 DEF Of
    <3>3. StreamOut(F, t) = 0
      BY <3>2, BytesNone DEF StreamOut
    <3>. QED
      BY <2>1, <2>2, <2>5, <3>1, <3>3
  <2>6. CASE ~(f.type = "DATA" /\ t = f.stream) /\ ~(f.type = "RST_STREAM" /\ t = f.stream)
    <3>1. /\ StreamOut(F, t) = StreamOut(Outgoing, t) + 0
          /\ peer'.streamCredit[t] = peer.streamCredit[t] - 0
      BY <1>1, <1>3, <2>6 DEF Adds, Gets
    <3>2. StreamOut(F, t) = StreamOut(Outgoing, t) /\ peer'.streamCredit[t] = peer.streamCredit[t]
      BY <2>1, <3>1
    <3>. QED
      BY <2>1, <2>2, <2>6, <3>2
  <2>. QED
    BY <2>4, <2>5, <2>6
<1>7. ~peer'.overrun
  <2>1. ASSUME f.type \in {"DATA", "RST_STREAM"} PROVE ~(f.size > peer.credit)
    BY <1>1, <1>2, <1>5, <2>1 DEF PeerType
  <2>2. ASSUME f.type = "DATA", f.stream \in peer.open, ~peer.lowered
        PROVE  ~(f.size > peer.streamCredit[f.stream])
    <3>1. f.stream \in Streams
      BY <1>1, <2>2
    <3>2. f.size <= peer.streamCredit[f.stream] /\ peer.streamCredit[f.stream] \in Int
      BY <1>2, <1>6, <2>2, <3>1 DEF PeerType
    <3>. QED
      BY <1>1, <3>2
  <2>. QED
    BY <1>0, <1>3, <2>1, <2>2 DEF Gets
<1>8. ASSUME ~peer.faulty
      PROVE  /\ peer'.credit <= MaxWindow
             /\ \A t \in Streams : peer'.streamCredit[t] <= MaxWindow
  <2>1. /\ peer.credit <= MaxWindow /\ \A t \in Streams : peer.streamCredit[t] <= MaxWindow
        /\ MaxWindow \in Nat /\ peer.credit \in Int /\ peer'.credit \in Int
        /\ \A t \in Streams : peer.streamCredit[t] \in Int /\ peer'.streamCredit[t] \in Int
    BY <1>0, <1>2, <1>4, <1>8, WindowsAssumption DEF SendOK, Rules, PeerType
  <2>2. peer'.credit <= MaxWindow
    BY <1>5, <2>1
  <2>3. ASSUME NEW t \in Streams PROVE peer'.streamCredit[t] <= MaxWindow
    BY <1>6, <2>1
  <2>. QED
    BY <2>2, <2>3
<1>. QED
  BY <1>1, <1>4, <1>5, <1>6, <1>7, <1>8 DEF Delivered

\* So are the receive windows.
LEMMA DeliversRecv ==
  ASSUME Live, PeerReceives(in_flight), NEW F, F = Out(queue, NoFrame)
  PROVE  DeliveredRecv(F)
<1>. PICK f : f = in_flight
  OBVIOUS
<1>0. Types /\ RecvOK
  BY DEF Live
<1>1. /\ IsWritten(f) /\ f.size \in Nat
      /\ f.stream \in Streams \cup {0}
      /\ f.type \in {"DATA", "RST_STREAM", "HEADERS"} => f.stream \in Streams
      /\ OutNat(Outgoing) /\ OutNat(F)
      /\ Adds(Outgoing, F, f.type, f.stream, -f.size)
  BY FlightFacts
<1>2. /\ peer \in PeerType /\ stream \in [Streams -> StreamType]
      /\ recv_window \in Int /\ unacked \in Nat
  BY <1>0 DEF Types
<1>3. Gets(f)
  BY <1>1, <1>2, PeerReceivesGets
<1>4. recv_window - unacked = peer'.window + UpdateOut(F, 0)
  <2>1. /\ UpdateOut(F, 0) \in Nat /\ UpdateOut(Outgoing, 0) \in Nat /\ peer.window \in Int
        /\ recv_window - unacked = peer.window + UpdateOut(Outgoing, 0)
    BY <1>0, <1>1, <1>2 DEF RecvOK, SessionRecv, OutNat, PeerType
  <2>2. CASE f.type = "WINDOW_UPDATE" /\ f.stream = 0
    <3>1. /\ UpdateOut(F, 0) = UpdateOut(Outgoing, 0) + (-f.size)
          /\ peer'.window = peer.window + f.size
      BY <1>1, <1>3, <2>2 DEF Adds, Gets
    <3>. QED
      BY <1>1, <2>1, <3>1
  <2>3. CASE ~(f.type = "WINDOW_UPDATE" /\ f.stream = 0)
    <3>1. UpdateOut(F, 0) = UpdateOut(Outgoing, 0) + 0 /\ peer'.window = peer.window + 0
      BY <1>1, <1>3, <2>3 DEF Adds, Gets
    <3>. QED
      BY <2>1, <3>1
  <2>. QED
    BY <2>2, <2>3
<1>5. ASSUME NEW t \in Streams, stream[t].state # "closed"
      PROVE  stream[t].recv - stream[t].unacked = peer'.streamWindow[t] + UpdateOut(F, t)
  <2>1. /\ UpdateOut(F, t) \in Nat /\ UpdateOut(Outgoing, t) \in Nat
        /\ peer.streamWindow[t] \in Int /\ stream[t].recv \in Int /\ stream[t].unacked \in Nat
        /\ stream[t].recv - stream[t].unacked = peer.streamWindow[t] + UpdateOut(Outgoing, t)
    BY <1>0, <1>1, <1>2, <1>5 DEF RecvOK, StreamRecv, OutNat, PeerType, StreamType
  <2>2. CASE f.type = "WINDOW_UPDATE" /\ t = f.stream
    <3>1. /\ UpdateOut(F, t) = UpdateOut(Outgoing, t) + (-f.size)
          /\ peer'.streamWindow[t] = peer.streamWindow[t] + f.size
      BY <1>1, <1>3, <2>2 DEF Adds, Gets
    <3>. QED
      BY <1>1, <2>1, <3>1
  <2>3. CASE ~(f.type = "WINDOW_UPDATE" /\ t = f.stream)
    <3>1. /\ UpdateOut(F, t) = UpdateOut(Outgoing, t) + 0
          /\ peer'.streamWindow[t] = peer.streamWindow[t] + 0
      BY <1>1, <1>3, <2>3 DEF Adds, Gets
    <3>. QED
      BY <2>1, <3>1
  <2>. QED
    BY <2>2, <2>3
<1>. QED
  BY <1>4, <1>5 DEF DeliveredRecv

\* And the frames that are left are in order.
LEMMA DeliversFrames ==
  ASSUME Live, PeerReceives(in_flight), NEW F, F = Out(queue, NoFrame)
  PROVE  DeliveredFrames(F)
<1>. PICK f : f = in_flight
  OBVIOUS
<1>0. Types /\ FramesOK /\ ResetOK
  BY DEF Live
<1>1. /\ f \in Outgoing /\ IsWritten(f) /\ FrameOK(f) /\ f.number = 0 /\ IsQueue(queue)
      /\ f.type \in {"DATA", "RST_STREAM", "HEADERS"} => f.stream \in Streams
      /\ OutNat(Outgoing) /\ Outgoing = Out(queue, f)
  BY FlightFacts
<1>2. peer \in PeerType /\ 0 \notin Streams
  BY <1>0, StreamsAssumption DEF Types
<1>3. Gets(f) /\ peer' \in PeerType
  BY <1>1, <1>2, PeerReceivesGets DEF Gets
<1>4. ASSUME NEW g \in F PROVE g = NoFrame \/ (g \in queue /\ g \in Outgoing /\ g.number # 0)
  BY <1>1, <1>4, QueuedFacts DEF Out
<1>5. /\ NoFrame.type = "none" /\ NoFrame.stream = 0 /\ NoFrame.priority = "HIGHEST"
      /\ NoFrame.number = 0
  BY DEF NoFrame, Frame
<1>6. ASSUME NEW g \in F
      PROVE  FrameOK(g) /\ g.stream \in Streams \cup {0} /\ g.stream \notin peer'.reset
  <2>1. CASE g = NoFrame
    BY <1>2, <1>3, <1>5, <2>1 DEF FrameOK, PeerType
  <2>2. CASE g \in queue /\ g \in Outgoing /\ g.number # 0
    <3>1. FrameOK(g) /\ g.stream \in Streams \cup {0} /\ g.stream \notin peer.reset
      BY <1>0, <2>2, OutgoingFacts DEF FramesOK, ResetOK
    <3>2. ~(f.type = "RST_STREAM" /\ g.stream = f.stream)
      <4>1. Before(f, g)
        BY <1>1, <2>2 DEF Before
      <4>. QED
        BY <1>0, <1>1, <2>2, <4>1 DEF ResetOK
    <3>3. peer'.reset \subseteq Streams
      BY <1>3 DEF PeerType
    <3>. QED
      BY <1>3, <3>1, <3>2, <3>3 DEF Gets
  <2>. QED
    BY <1>4, <2>1, <2>2
<1>7. ASSUME NEW g \in F, NEW h \in F
      PROVE  /\ g.type = "HEADERS" /\ h.type = "HEADERS" /\ g.stream = h.stream => g = h
             /\ g.type = "RST_STREAM" /\ h.stream = g.stream => ~Before(g, h)
  <2>1. CASE g = NoFrame
    BY <1>5, <2>1
  <2>2. CASE h = NoFrame
    BY <1>5, <2>2 DEF Before
  <2>3. CASE g \in Outgoing /\ h \in Outgoing
    BY <1>0, <2>3 DEF FramesOK, ResetOK
  <2>. QED
    BY <1>4, <2>1, <2>2, <2>3
<1>8. ASSUME NEW t \in peer'.open
      PROVE  t \in Streams /\ stream[t].state \notin {"none", "created"}
  <2>1. t \in Streams
    BY <1>3 DEF PeerType
  <2>2. t \in peer.open \/ (f.type = "HEADERS" /\ t = f.stream)
    BY <1>3, <1>8, <2>1 DEF Gets
  <2>. QED
    BY <1>0, <1>1, <1>2, <2>1, <2>2 DEF FramesOK, FrameOK
<1>9. ASSUME NEW t \in peer'.reset PROVE t \in Streams /\ stream[t].state = "closed"
  <2>1. t \in Streams
    BY <1>3 DEF PeerType
  <2>2. t \in peer.reset \/ (f.type = "RST_STREAM" /\ t = f.stream)
    BY <1>3, <1>9, <2>1 DEF Gets
  <2>. QED
    BY <1>0, <1>1, <2>1, <2>2 DEF FramesOK, FrameOK
<1>. QED
  BY <1>6, <1>7, <1>8, <1>9 DEF DeliveredFrames

\* The write loop goes on with the next frame.
LoopGoesOn ==
  /\ write_state' = "DO_WRITE" /\ in_io_loop' = TRUE /\ in_flight' = NoFrame
  /\ UNCHANGED <<drained, initial_window, loopVars, recvVars, events>>

\* What a stream may become when its frame was written.
Advances ==
  /\ stream' \in [Streams -> StreamType]
  /\ \A t \in Streams :
       /\ \/ stream'[t].state = stream[t].state
          \/ stream[t].state = "activated" /\ stream'[t].state = "open"
       /\ stream'[t].recv = stream[t].recv /\ stream'[t].unacked = stream[t].unacked

\* The frames of such a stream are still those it may have.
LEMMA AdvancesFrames ==
  ASSUME Live, Advances, NEW F, DeliveredFrames(F)
  PROVE  /\ \A g \in F : FrameOK(g)'
         /\ \A t \in peer'.open : stream'[t].state \notin {"none", "created"}
         /\ \A t \in peer'.reset : stream'[t].state = "closed"
<1>1. ASSUME NEW g \in F PROVE FrameOK(g)'
  <2>1. FrameOK(g) /\ g.stream \in Streams \cup {0}
    BY DEF DeliveredFrames
  <2>2. CASE g.stream \in Streams
    <3>1. /\ stream'[g.stream].state = "none" <=> stream[g.stream].state = "none"
          /\ stream'[g.stream].state = "created" <=> stream[g.stream].state = "created"
          /\ stream'[g.stream].state = "closed" <=> stream[g.stream].state = "closed"
      BY <2>2 DEF Advances
    <3>. QED
      BY <2>1, <2>2, <3>1, StreamsAssumption DEF FrameOK
  <2>3. CASE g.stream \notin Streams
    BY <2>1, <2>3 DEF FrameOK
  <2>. QED
    BY <2>2, <2>3
<1>. QED
  BY <1>1 DEF Advances, DeliveredFrames

\* The loops and the receive windows, whether or not a DATA frame is queued.
LEMMA AdvancesRest ==
  ASSUME Live, Idle, LoopGoesOn, Advances, NEW F, DeliveredRecv(F),
         \A t \in Streams \cup {0} : UpdateOut(Outgoing', t) = UpdateOut(F, t)
  PROVE  OneLoop' /\ RecvOK'
<1>0. OneLoop /\ RecvOK
  BY DEF Live
<1>1. OneLoop'
  BY <1>0 DEF OneLoop, Idle, LoopGoesOn, loopVars
<1>2. SessionRecv'
  BY <1>0 DEF RecvOK, SessionRecv, DeliveredRecv, LoopGoesOn, recvVars
<1>3. ASSUME NEW t \in Streams PROVE StreamRecv(t)'
  <2>1. StreamRecv(t)
    BY <1>0 DEF RecvOK
  <2>2. ASSUME stream'[t].state # "closed"
        PROVE  /\ stream[t].state # "closed"
               /\ stream'[t].state \in {"none", "created"} =>
                    stream[t].state \in {"none", "created"}
    BY <2>2 DEF Advances
  <2>. QED
    BY <2>1, <2>2 DEF StreamRecv, DeliveredRecv, LoopGoesOn, recvVars, Advances
<1>. QED
  BY <1>1, <1>2, <1>3 DEF RecvOK

\* No frame is queued and no window changes.
LEMMA NothingQueued ==
  ASSUME Live, Idle, LoopGoesOn, Advances, NEW F, Delivered(F), DeliveredFrames(F),
         DeliveredRecv(F), Outgoing' = F, send_window' = send_window,
         \A t \in Streams : stream'[t].window = stream[t].window
  PROVE  OneLoop' /\ FramesOK' /\ ResetOK' /\ SendOK' /\ RecvOK'
<1>1. OneLoop' /\ RecvOK'
  BY AdvancesRest
<1>2. FramesOK'
  BY AdvancesFrames DEF FramesOK, DeliveredFrames
<1>3. ResetOK'
  BY DEF ResetOK, DeliveredFrames, Before
<1>4. adjust'.todo = {}
  BY DEF Idle, LoopGoesOn, loopVars
<1>5. ASSUME NEW t \in Streams PROVE StreamAccount(t)'
  <2>1. /\ stream'[t].state = "closed" => stream[t].state = "closed"
        /\ stream'[t].state # "closed" => stream[t].state # "closed"
        /\ stream'[t].state \in {"created", "activated", "open"} =>
             stream[t].state \in {"created", "activated", "open"}
    BY DEF Advances
  <2>2. stream[t].window \in Int
    BY DEF Live, Types, StreamType
  <2>3. ASSUME stream'[t].state \in {"created", "activated", "open"}
        PROVE  stream'[t].window + 0 + StreamOut(Outgoing', t) = peer'.streamCredit[t]
    BY <2>1, <2>2, <2>3 DEF Delivered
  <2>. QED
    BY <1>4, <2>1, <2>3 DEF StreamAccount, Delivered
<1>6. SessionAccount' /\ Rules'
  BY <1>4 DEF SessionAccount, Rules, Delivered
<1>. QED
  BY <1>1, <1>2, <1>3, <1>5, <1>6 DEF SendOK

\* The writes of the streams when the peer has received what was in flight.
LEMMA DeliversData ==
  ASSUME Live, NEW F, F = Out(queue, NoFrame), NEW t \in Streams
  PROVE  /\ in_flight.type = "DATA" /\ in_flight.stream = t /\ stream[t].state # "closed" =>
              /\ stream[t].state = "open" /\ ~stream[t].stalled /\ DataOf(F, t) = {}
         /\ ~(in_flight.type = "DATA" /\ in_flight.stream = t) =>
              DataOf(F, t) = DataOf(Outgoing, t)
<1>1. Outgoing = Out(queue, in_flight) /\ in_flight \notin queue
  <2>1. Outgoing = Out(queue, in_flight) /\ IsQueue(queue) /\ IsWritten(in_flight)
    BY FlightFacts
  <2>. QED
    BY <2>1, OutFinite
<1>2. WakerOK(t) /\ stream[t].pending \in Nat
  BY DEF Live, WakersOK, Types, StreamType
<1>3. NoFrame.type # "DATA"
  BY DEF NoFrame, Frame
<1>4. ASSUME in_flight.type = "DATA", in_flight.stream = t, stream[t].state # "closed"
      PROVE  stream[t].state = "open" /\ ~stream[t].stalled /\ DataOf(F, t) = {}
  <2>1. in_flight \in DataOf(Outgoing, t)
    BY <1>1, <1>4 DEF DataOf, Out
  <2>2. stream[t].pending # 0 /\ ~stream[t].stalled /\ stream[t].state = "open"
    BY <1>2, <1>4, <2>1 DEF WakerOK
  <2>3. DataOf(Outgoing, t) = {in_flight}
    BY <1>2, <1>4, <2>1, <2>2 DEF WakerOK
  <2>4. ASSUME NEW g \in DataOf(F, t) PROVE FALSE
    <3>1. g \in queue /\ g.type = "DATA" /\ g.stream = t
      BY <1>3 DEF DataOf, Out
    <3>2. g \in DataOf(Outgoing, t)
      BY <1>1, <3>1 DEF DataOf, Out
    <3>. QED
      BY <1>1, <2>3, <3>1, <3>2
  <2>. QED
    BY <2>2, <2>4
<1>5. ASSUME ~(in_flight.type = "DATA" /\ in_flight.stream = t)
      PROVE  DataOf(F, t) = DataOf(Outgoing, t)
  BY <1>1, <1>3, <1>5 DEF DataOf, Out
<1>. QED
  BY <1>4, <1>5

\* A stream that nothing happens to keeps its waker.
LEMMA OthersKeepWaker ==
  ASSUME Live, NEW F, F = Out(queue, NoFrame), NEW t \in Streams,
         DataOf(Outgoing', t) = DataOf(F, t), stream'[t] = stream[t],
         (in_flight.type = "DATA" /\ in_flight.stream = t) => stream[t].state = "closed",
         Waits(t, stream[t].window) => Waits(t, stream[t].window)'
  PROVE  WakerOK(t)'
<1>1. CASE stream[t].state = "closed"
  BY <1>1 DEF WakerOK
<1>2. CASE stream[t].state # "closed"
  <2>1. DataOf(Outgoing', t) = DataOf(Outgoing, t)
    BY <1>2, DeliversData
  <2>2. WakerKept(t)
    BY <2>1 DEF WakerKept
  <2>. QED
    BY <2>2, KeepWaker DEF Live, WakersOK
<1>. QED
  BY <1>1, <1>2

\* A part of a write was sent and the next is queued.
LEMMA NextQueued ==
  ASSUME Live, Idle, LoopGoesOn, NEW F, F = Out(queue, NoFrame), Delivered(F),
         DeliveredFrames(F), DeliveredRecv(F), NEW s \in Streams,
         stream[s].state = "open", DataOf(F, s) = {}, in_flight.stream = s,
         NEW len \in Nat \ {0}, NEW w \in Int, w = stream[s].window,
         NEW size \in Nat \ {0}, NEW n \in Nat \ {0}, DataQueued(s, len, w, size, n),
         unstall' = unstall
  PROVE  Live'
<1>0. Types /\ OneLoop /\ FramesOK /\ ResetOK /\ SendOK /\ RecvOK /\ WakersOK
  BY DEF Live
<1>. PICK f : f = Frame("DATA", s, size, "tunnel", n)
  OBVIOUS
<1>1. /\ f.type = "DATA" /\ f.stream = s /\ f.size = size /\ f.priority = "tunnel"
      /\ f.number = n
  BY DEF Frame
<1>2. /\ send_window' = send_window - size /\ size <= send_window /\ size <= w
      /\ Appended(queue, queue', f)
      /\ Puts(stream, stream', s, stream[s].state, w - size, FALSE, len,
              stream[s].recv, stream[s].unacked)
  BY DEF DataQueued
<1>3. send_window \in Nat /\ IsQueue(queue) /\ stream \in [Streams -> StreamType]
  BY <1>0 DEF Types
<1>4. Outgoing' = Out(queue', NoFrame) /\ Outgoing' = F \cup {f}
  BY <1>2 DEF Outgoing, Out, Appended, LoopGoesOn
<1>5. IsQueue(queue') /\ Adds(F, Outgoing', "DATA", s, size) /\ OutNat(F)
  <2>1. IsWritten(NoFrame)
    BY DEF IsWritten
  <2>2. Adds(Out(queue, NoFrame), Out(queue', NoFrame), f.type, f.stream, f.size)
    BY <1>1, <1>2, <1>3, <2>1, AppendedAdds
  <2>. QED
    BY <1>1, <1>2, <1>3, <1>4, <2>2, AppendedQueue DEF Delivered
<1>6. /\ SessionOut(Outgoing') = SessionOut(F) + size
      /\ StreamOut(Outgoing', s) = StreamOut(F, s) + size
      /\ \A t \in Streams \ {s} : StreamOut(Outgoing', t) = StreamOut(F, t)
      /\ \A t \in Streams \cup {0} : UpdateOut(Outgoing', t) = UpdateOut(F, t)
  BY <1>5, AddsData
<1>7. /\ \A t \in Streams : stream'[t].state = stream[t].state
      /\ \A t \in Streams \ {s} : stream'[t] = stream[t]
      /\ stream'[s].window = w - size /\ Advances
  <2>1. /\ stream' \in [Streams -> StreamType] /\ \A t \in Streams \ {s} : stream'[t] = stream[t]
        /\ stream'[s].state = stream[s].state /\ stream'[s].window = w - size
        /\ stream'[s].recv = stream[s].recv /\ stream'[s].unacked = stream[s].unacked
    BY <1>2 DEF Puts
  <2>2. \A t \in Streams :
          /\ stream'[t].state = stream[t].state
          /\ stream'[t].recv = stream[t].recv /\ stream'[t].unacked = stream[t].unacked
    BY <2>1
  <2>. QED
    BY <2>1, <2>2 DEF Advances
<1>8. Types'
  <2>1. send_window' \in Nat /\ in_flight' = NoFrame /\ stream' \in [Streams -> StreamType]
    BY <1>2, <1>3, <1>7 DEF LoopGoesOn, Advances
  <2>. QED
    BY <1>0, <1>5, <2>1 DEF Types, LoopGoesOn, loopVars, recvVars, Delivered
<1>9. OneLoop' /\ RecvOK'
  BY <1>6, <1>7, AdvancesRest
<1>10. FramesOK'
  <2>1. FrameOK(f)'
    BY <1>1, <1>7, StreamsAssumption DEF FrameOK
  <2>2. \A g, h \in F \cup {f} :
          g.type = "HEADERS" /\ h.type = "HEADERS" /\ g.stream = h.stream => g = h
    BY <1>1 DEF DeliveredFrames
  <2>. QED
    BY <1>4, <1>7, <2>1, <2>2, AdvancesFrames DEF FramesOK
<1>11. ResetOK'
  <2>1. ASSUME NEW g \in F, g.stream = s PROVE g.type # "RST_STREAM"
    BY <2>1 DEF DeliveredFrames, FrameOK
  <2>2. s \notin peer'.reset
    BY DEF DeliveredFrames
  <2>3. ASSUME NEW g \in F \cup {f}, NEW h \in F \cup {f}, g.type = "RST_STREAM",
               h.stream = g.stream
        PROVE  ~Before(g, h)
    <3>1. g \in F /\ h \in F
      BY <1>1, <2>1, <2>3
    <3>. QED
      BY <2>3, <3>1 DEF DeliveredFrames
  <2>. QED
    BY <1>1, <1>4, <2>2, <2>3 DEF ResetOK, DeliveredFrames, Before
<1>12. adjust'.todo = {}
  BY DEF Idle, LoopGoesOn, loopVars
<1>13. ASSUME NEW t \in Streams PROVE StreamAccount(t)'
  <2>1. stream[t].window \in Int /\ StreamOut(F, t) \in Nat
    BY <1>3, <1>5 DEF StreamType, OutNat
  <2>2. CASE t = s
    <3>1. stream[s].window + StreamOut(F, s) = peer'.streamCredit[s]
      BY DEF Delivered
    <3>2. (w - size) + 0 + (StreamOut(F, s) + size) = peer'.streamCredit[s] /\ w - size >= 0
      BY <1>2, <2>1, <2>2, <3>1
    <3>. QED
      BY <1>6, <1>7, <1>12, <2>2, <3>2 DEF StreamAccount
  <2>3. CASE t # s
    <3>1. /\ stream'[t] = stream[t] /\ StreamOut(Outgoing', t) = StreamOut(F, t)
          /\ stream[t].window + 0 + StreamOut(F, t) = stream[t].window + StreamOut(F, t)
      BY <1>6, <1>7, <2>1, <2>3
    <3>. QED
      BY <1>12, <3>1 DEF StreamAccount, Delivered
  <2>. QED
    BY <2>2, <2>3
<1>14. SendOK'
  <2>1. SessionAccount'
    BY <1>2, <1>3, <1>5, <1>6 DEF SessionAccount, Delivered, OutNat
  <2>. QED
    BY <1>12, <1>13, <2>1 DEF SendOK, Rules, Delivered
<1>15. ASSUME NEW t \in Streams PROVE WakerOK(t)'
  <2>1. CASE t = s
    <3>1. DataOf(Outgoing', s) = {f} /\ f \in Outgoing'
      BY <1>1, <1>4 DEF DataOf
    <3>. QED
      BY <1>2, <2>1, <3>1 DEF WakerOK, Puts
  <2>2. CASE t # s
    <3>1. DataOf(Outgoing', t) = DataOf(F, t) /\ stream'[t] = stream[t]
      BY <1>1, <1>4, <1>7, <2>2 DEF DataOf
    <3>2. Waits(t, stream[t].window) => Waits(t, stream[t].window)'
      <4>1. ~IsSendStalled
        BY <1>2, <1>3 DEF IsSendStalled
      <4>. QED
        BY <3>1, <4>1 DEF Waits, LoopGoesOn, loopVars
    <3>. QED
      BY <2>2, <3>1, <3>2, OthersKeepWaker
  <2>. QED
    BY <2>1, <2>2
<1>. QED
  BY <1>8, <1>9, <1>10, <1>11, <1>14, <1>15 DEF Live, WakersOK

\* Nothing is queued, and s waits or is done.
LEMMA NextNotQueued ==
  ASSUME Live, Idle, LoopGoesOn, Advances, NEW F, F = Out(queue, NoFrame), Delivered(F),
         DeliveredFrames(F), DeliveredRecv(F), NEW s, queue' = queue,
         send_window' = send_window, unstall' \in Seq(Streams),
         \A t \in Streams : stream'[t].window = stream[t].window,
         s \in Streams => WakerOK(s)',
         ToSet(unstall) \subseteq ToSet(unstall'),
         \A t \in Streams \ {s} :
           /\ stream'[t] = stream[t]
           /\ (in_flight.type = "DATA" /\ in_flight.stream = t) => stream[t].state = "closed"
  PROVE  Live'
<1>1. Outgoing' = F
  BY DEF Outgoing, Out, LoopGoesOn
<1>2. OneLoop' /\ FramesOK' /\ ResetOK' /\ SendOK' /\ RecvOK'
  BY <1>1, NothingQueued
<1>3. Types'
  BY DEF Live, Types, LoopGoesOn, loopVars, recvVars, Delivered, Advances
<1>4. ASSUME NEW t \in Streams PROVE WakerOK(t)'
  <2>1. CASE t # s
    <3>1. Waits(t, stream[t].window) => Waits(t, stream[t].window)'
      BY DEF Waits, IsSendStalled, LoopGoesOn, loopVars
    <3>. QED
      BY <1>1, <2>1, <3>1, OthersKeepWaker
  <2>. QED
    BY <2>1
<1>. QED
  BY <1>2, <1>3, <1>4 DEF Live, WakersOK

\* WriteDone keeps the invariant.
LEMMA StepWriteDone ==
  ASSUME Live, FlowControlKept, WriteDone
  PROVE  IInv'
<1>0. Types /\ OneLoop /\ FramesOK /\ ResetOK /\ SendOK /\ RecvOK /\ WakersOK
  BY DEF Live
<1>. PICK F : F = Out(queue, NoFrame)
  OBVIOUS
<1>. PICK s, len, w : s = in_flight.stream /\ w = stream[s].window
                      /\ len = stream[s].pending - in_flight.size
  OBVIOUS
<1>1. /\ Idle /\ LoopGoesOn /\ PeerReceives(in_flight)
      /\ adjust.todo = {}
  BY DEF WriteDone, LoopGoesOn, Idle
<1>2. Delivered(F) /\ DeliveredFrames(F) /\ DeliveredRecv(F)
  BY <1>1, DeliversSend, DeliversFrames, DeliversRecv
<1>3. FlowControlKept'
  BY <1>1, <1>2 DEF FlowControlKept, LoopGoesOn, Delivered
<1>4. /\ stream \in [Streams -> StreamType] /\ unstall \in Seq(Streams)
      /\ in_flight.type \in {"DATA", "RST_STREAM", "HEADERS"} => s \in Streams
      /\ in_flight.size \in Nat
  BY <1>0, FlightFacts DEF Types
<1>5. CASE \/ /\ OfStream(in_flight, s) /\ Active(s) /\ in_flight.type = "DATA" /\ len > 0
              /\ QueueNextDataFrame(s, len, w)
           \/ /\ OfStream(in_flight, s) /\ Active(s) /\ in_flight.type = "DATA" /\ len = 0
              /\ stream' = [stream EXCEPT ![s].pending = 0]
              /\ UNCHANGED <<sendVars, queue>>
  <2>1. /\ in_flight.type = "DATA" /\ s \in Streams /\ stream[s].state # "closed"
    BY <1>4, <1>5 DEF Active
  <2>2. stream[s].state = "open" /\ ~stream[s].stalled /\ DataOf(F, s) = {}
    BY <2>1, DeliversData
  <2>3. w \in Int /\ stream[s].pending \in Nat /\ len \in Int /\ stream[s].stalled \in BOOLEAN
    BY <1>4, <2>1 DEF StreamType
  <2>4. CASE /\ w > 0 /\ ~IsSendStalled /\ len > 0
             /\ QueueData(s, len, w) /\ UNCHANGED unstall
    <3>1. len \in Nat \ {0}
      BY <2>3, <2>4
    <3>2. PICK size \in Nat \ {0}, n \in Nat \ {0} : DataQueued(s, len, w, size, n)
      BY <1>0, <2>1, <2>3, <2>4, <3>1, QueueDataQueues
    <3>3. Live'
      BY <1>1, <1>2, <2>1, <2>2, <2>3, <2>4, <3>1, <3>2, NextQueued
    <3>. QED
      BY <1>3, <3>3 DEF IInv
  <2>5. CASE /\ w <= 0 \/ IsSendStalled
             /\ stream' = [stream EXCEPT ![s].pending = len, ![s].window = w,
                                         ![s].stalled = TRUE]
             /\ unstall' = Append(unstall, s) /\ len > 0
             /\ UNCHANGED <<send_window, queue>>
    <3>1. len \in Nat \ {0} /\ TRUE \in BOOLEAN
      BY <2>3, <2>5
    <3>2. Puts(stream, stream', s, stream[s].state, w, TRUE, len,
               stream[s].recv, stream[s].unacked)
      BY <1>4, <2>1, <2>3, <2>5, <3>1, PutWrite
    <3>3. ToSet(unstall') = ToSet(unstall) \cup {s} /\ unstall' \in Seq(Streams)
      BY <1>4, <2>1, <2>5, QueueMembers
    <3>4. DataOf(Outgoing', s) = {}
      BY <1>1, <2>2, <2>5 DEF Outgoing, Out, LoopGoesOn
    <3>5. Waits(s, w)'
      BY <2>5, <3>3 DEF Waits, IsSendStalled
    <3>6. WakerOK(s)'
      BY <2>2, <2>5, <3>1, <3>2, <3>3, <3>4 DEF WakerOK, Puts, Waits, IsSendStalled
    <3>7. Advances /\ \A t \in Streams : stream'[t].window = stream[t].window
      BY <3>2 DEF Puts, Advances
    <3>8. \A t \in Streams \ {s} : stream'[t] = stream[t]
      BY <3>2 DEF Puts
    <3>9. Live'
      BY <1>1, <1>2, <2>5, <3>3, <3>6, <3>7, <3>8, NextNotQueued
    <3>. QED
      BY <1>3, <3>9 DEF IInv
  <2>6. CASE /\ stream' = [stream EXCEPT ![s].pending = 0]
             /\ UNCHANGED <<sendVars, queue>>
    <3>1. Puts(stream, stream', s, stream[s].state, stream[s].window, stream[s].stalled, 0,
               stream[s].recv, stream[s].unacked)
      BY <1>4, <2>1, <2>6, PutPending
    <3>2. DataOf(Outgoing', s) = {} /\ unstall' = unstall /\ send_window' = send_window
      BY <1>1, <2>2, <2>6 DEF Outgoing, Out, LoopGoesOn, sendVars
    <3>3. WakerOK(s)'
      BY <2>2, <3>1, <3>2 DEF WakerOK, Puts
    <3>4. Advances /\ \A t \in Streams : stream'[t].window = stream[t].window
      BY <3>1 DEF Puts, Advances
    <3>5. \A t \in Streams \ {s} : stream'[t] = stream[t]
      BY <3>1 DEF Puts
    <3>6. Live'
      BY <1>1, <1>2, <1>4, <2>6, <3>2, <3>3, <3>4, <3>5, NextNotQueued
    <3>. QED
      BY <1>3, <3>6 DEF IInv
  <2>. QED
    BY <1>5, <2>4, <2>5, <2>6 DEF QueueNextDataFrame
<1>6. CASE /\ OfStream(in_flight, s) /\ Active(s) /\ in_flight.type = "HEADERS"
           /\ stream' = [stream EXCEPT ![s].state = "open"]
           /\ UNCHANGED <<sendVars, queue>>
  <2>1. s \in Streams /\ "open" \in States /\ Active(s)
    BY <1>4, <1>6 DEF States
  <2>2. Puts(stream, stream', s, "open", stream[s].window, stream[s].stalled,
             stream[s].pending, stream[s].recv, stream[s].unacked)
    BY <1>4, <1>6, <2>1, PutState
  <2>3. unstall' = unstall /\ send_window' = send_window /\ Outgoing' = F
    BY <1>1, <1>6 DEF Outgoing, Out, LoopGoesOn, sendVars
  <2>4. DataOf(Outgoing', s) = DataOf(Outgoing, s)
    BY <1>6, <2>1, <2>3, DeliversData
  <2>5. Waits(s, stream[s].window) => Waits(s, stream[s].window)'
    BY <1>1, <2>2, <2>3 DEF Waits, IsSendStalled, LoopGoesOn, loopVars, Puts
  <2>6. WakerOK(s)'
    <3>1. WakerOK(s)
      BY <1>0, <2>1 DEF WakersOK
    <3>2. ASSUME NEW g, DataOf(Outgoing, s) = {g} PROVE g \in Outgoing'
      BY <2>4, <3>2 DEF DataOf
    <3>. QED
      BY <2>1, <2>2, <2>4, <2>5, <3>1, <3>2 DEF WakerOK, Puts, Active
  <2>7. Advances /\ \A t \in Streams : stream'[t].window = stream[t].window
    BY <2>1, <2>2 DEF Puts, Advances, Active
  <2>8. \A t \in Streams \ {s} : stream'[t] = stream[t]
    BY <2>2 DEF Puts
  <2>9. Live'
    BY <1>1, <1>2, <1>4, <1>6, <2>3, <2>6, <2>7, <2>8, NextNotQueued
  <2>. QED
    BY <1>3, <2>9 DEF IInv
<1>7. CASE ~(OfStream(in_flight, s) /\ Active(s)) /\ UNCHANGED <<sendVars, stream, queue>>
  <2>1. unstall' = unstall /\ send_window' = send_window
    BY <1>7 DEF sendVars
  <2>2. Advances /\ \A t \in Streams : stream'[t].window = stream[t].window
    BY <1>4, <1>7 DEF Advances
  <2>3. ASSUME NEW t \in Streams, in_flight.type = "DATA", in_flight.stream = t
        PROVE  stream[t].state = "closed"
    BY <1>7, <2>3, DeliversData DEF OfStream, Active
  <2>4. 0 \notin Streams
    BY StreamsAssumption
  <2>5. Live'
    BY <1>1, <1>2, <1>4, <1>7, <2>1, <2>2, <2>3, <2>4, NextNotQueued
  <2>. QED
    BY <1>3, <2>5 DEF IInv
<1>. QED
  BY <1>5, <1>6, <1>7 DEF WriteDone

-----------------------------------------------------------------------------
(***************************************************************************)
(* The theorems.                                                           *)
(***************************************************************************)
\* The first state.
LEMMA InitHolds ==
  ASSUME Init
  PROVE  IInv
<1>1. Outgoing = {NoFrame}
  BY DEF Init, Outgoing
<1>2. ASSUME NEW T, NEW R, "none" \notin T PROVE Bytes(Of(Outgoing, T, R)) = 0
  <2>1. Of(Outgoing, T, R) = {}
    BY <1>1, <1>2 DEF Of, NoFrame, Frame
  <2>. QED
    BY <2>1, BytesNone
<1>3. /\ SessionOut(Outgoing) = 0 /\ \A t \in Streams : StreamOut(Outgoing, t) = 0
      /\ \A t \in Streams \cup {0} : UpdateOut(Outgoing, t) = 0
      /\ \A t \in Streams : DataOf(Outgoing, t) = {}
  <2>1. /\ "none" \notin {"DATA", "RST_STREAM"} /\ "none" \notin {"DATA"}
        /\ "none" \notin {"WINDOW_UPDATE"}
    OBVIOUS
  <2>2. \A t \in Streams : DataOf(Outgoing, t) = {}
    BY <1>1 DEF DataOf, NoFrame, Frame
  <2>. QED
    BY <1>2, <2>1, <2>2 DEF SessionOut, StreamOut, UpdateOut
<1>4. /\ stream \in [Streams -> StreamType]
      /\ \A t \in Streams :
           /\ stream[t].state = "none" /\ stream[t].window = 0 /\ ~stream[t].stalled
           /\ stream[t].pending = 0 /\ stream[t].recv = StreamMaxRecv
           /\ stream[t].unacked = 0
  <2>. PICK new : new = [Closed EXCEPT !.state = "none", !.recv = StreamMaxRecv]
    OBVIOUS
  <2>1. /\ new.state = "none" /\ new.window = 0 /\ new.stalled = FALSE /\ new.pending = 0
        /\ new.recv = StreamMaxRecv /\ new.unacked = 0
    BY DEF Closed
  <2>2. new \in StreamType
    <3>1. Closed \in StreamType /\ "none" \in States /\ StreamMaxRecv \in Int
      BY RecvAssumption DEF Closed, StreamType, States
    <3>. QED
      BY <3>1 DEF StreamType
  <2>3. stream = [t \in Streams |-> new]
    BY Zenon DEF Init
  <2>. QED
    BY <2>1, <2>2, <2>3
<1>5. /\ held \in [Streams -> Nat] /\ IsFiniteSet(HeldBytes(held))
      /\ Cardinality(HeldBytes(held)) = 0 /\ \A t \in Streams : held[t] = 0
  <2>1. held \in [Streams -> Nat] /\ \A t \in Streams : held[t] = 0
    BY DEF Init
  <2>. QED
    BY <2>1, HeldNone
<1>6. /\ peer \in PeerType /\ peer.credit = SessionWindow /\ peer.window = SessionMaxRecv
      /\ \A t \in Streams : peer.streamCredit[t] = 0 /\ peer.streamWindow[t] = StreamMaxRecv
      /\ peer.open = {} /\ peer.reset = {} /\ ~peer.faulty /\ ~peer.overrun
      /\ ~peer.blamed /\ ~peer.lowered
  BY WindowsAssumption, RecvAssumption DEF Init, PeerType
<1>7. IsQueue(queue)
  <2>1. queue = {} /\ BytesOf({}) = {} /\ IsFiniteSet({})
    BY FS_EmptySet DEF Init, BytesOf
  <2>. QED
    BY <2>1 DEF IsQueue
<1>8. Types
  <2>1. /\ send_window \in Nat /\ initial_window \in 0..MaxWindow
        /\ unstall = <<>> /\ requeue = <<>> /\ resuming = FALSE /\ in_io_loop = FALSE
        /\ adjust = [todo |-> {}, delta |-> 0] /\ in_flight = NoFrame
        /\ recv_window \in Int /\ unacked \in Nat /\ events \in Nat
    BY WindowsAssumption, RecvAssumption DEF Init
  <2>2. unstall \in Seq(Streams) /\ requeue \in Seq(Streams)
    BY <2>1
  <2>3. adjust \in [todo : SUBSET Streams, delta : Int]
    BY <2>1
  <2>. QED
    BY <1>4, <1>5, <1>6, <1>7, <2>1, <2>2, <2>3 DEF Types
<1>9. adjust.todo = {} /\ ~resuming /\ requeue = <<>>
  BY DEF Init
<1>10. OneLoop
  BY <1>9 DEF Init, OneLoop
<1>11. FramesOK /\ ResetOK
  <2>1. /\ NoFrame.type = "none" /\ NoFrame.stream = 0 /\ NoFrame.priority = "HIGHEST"
    BY DEF NoFrame, Frame
  <2>. QED
    BY <1>1, <1>6, <2>1 DEF FramesOK, FrameOK, ResetOK
<1>12. SendOK
  <2>1. SessionAccount
    BY <1>3, <1>6, WindowsAssumption DEF Init, SessionAccount
  <2>2. Rules
    BY <1>6, <1>9, WindowsAssumption DEF Rules
  <2>3. ASSUME NEW t \in Streams PROVE StreamAccount(t)
    BY <1>4 DEF StreamAccount
  <2>. QED
    BY <2>1, <2>2, <2>3 DEF SendOK
<1>13. RecvOK
  <2>1. SessionRecv
    <3>1. recv_window = SessionMaxRecv /\ unacked = 0
      BY DEF Init
    <3>. QED
      BY <1>3, <1>5, <1>6, <3>1, RecvAssumption DEF SessionRecv
  <2>2. ASSUME NEW t \in Streams PROVE StreamRecv(t)
    BY <1>3, <1>4, <1>5, <1>6, RecvAssumption DEF StreamRecv
  <2>. QED
    BY <2>1, <2>2 DEF RecvOK
<1>14. WakersOK
  BY <1>3, <1>4 DEF WakersOK, WakerOK
<1>15. FlowControlKept
  BY <1>6 DEF Init, FlowControlKept
<1>. QED
  BY <1>8, <1>10, <1>11, <1>12, <1>13, <1>14, <1>15 DEF IInv, Live

\* Every step keeps the invariant.
LEMMA NextKeeps ==
  ASSUME IInv, Next
  PROVE  IInv'
<1>0. FlowControlKept /\ (drained = "no" => Live)
  BY DEF IInv
<1>1. CASE Drained
  <2>1. UNCHANGED vars
    BY <1>1 DEF Drained
  <2>2. drained' = drained /\ drained # "no" /\ peer' = peer
    BY <1>1, <2>1 DEF Drained, vars
  <2>. QED
    BY <1>0, <2>2 DEF IInv, FlowControlKept
<1>2. CASE WriteLoop
  <2>1. drained = "no"
    BY <1>2 DEF WriteLoop, PumpWriteLoop, DoWrite, Idle
  <2>. QED
    BY <1>0, <1>2, <2>1, StepPumpWriteLoop, StepDoWrite DEF WriteLoop, IInv
<1>3. CASE Loops
  <2>1. drained = "no"
    BY <1>3 DEF Loops, ResumeSendStalledStreams, AdjustSendWindowSize
  <2>. QED
    BY <1>0, <1>3, <2>1, StepResume, StepAdjust DEF Loops, IInv
<1>4. CASE WriteDone
  <2>1. drained = "no"
    BY <1>4 DEF WriteDone, Idle
  <2>. QED
    BY <1>0, <1>4, <2>1, StepWriteDone
<1>5. CASE WriteFails
  <2>1. drained = "no"
    BY <1>5 DEF WriteFails, Idle
  <2>. QED
    BY <1>0, <1>5, <2>1, StepWriteFails
<1>6. ASSUME NEW s \in Streams, User(s) PROVE IInv'
  <2>1. drained = "no"
    BY <1>6 DEF User, SendRequestHeaders, Cancel, SendData, OnReadBufferConsumed, Idle
  <2>2. Live
    BY <1>0, <2>1
  <2>3. CASE SendRequestHeaders(s)
    BY <1>0, <2>2, <2>3, StepSendRequestHeaders DEF IInv
  <2>4. CASE Cancel(s)
    BY <1>0, <2>2, <2>4, StepCancel
  <2>5. ASSUME NEW n \in 1..MaxLen, SendData(s, n) PROVE IInv'
    BY <1>0, <2>2, <2>5, StepSendData DEF IInv
  <2>6. ASSUME NEW n \in 1..MaxLen, OnReadBufferConsumed(s, n) PROVE IInv'
    BY <1>0, <2>2, <2>6, StepReadBufferConsumed
  <2>. QED
    BY <1>6, <2>3, <2>4, <2>5, <2>6 DEF User
<1>7. ASSUME NEW s \in Streams, Peer(s) PROVE IInv'
  <2>1. drained = "no"
    BY <1>7 DEF Peer, OnRstStream, OnStreamWindowUpdate, OnStreamFrameData, OnStreamPadding,
                PeerSends, Idle
  <2>2. Live
    BY <1>0, <2>1
  <2>3. CASE OnRstStream(s)
    BY <1>0, <2>2, <2>3, StepRstStream
  <2>4. ASSUME NEW n \in 0..MaxLen, OnStreamWindowUpdate(s, n) PROVE IInv'
    BY <1>0, <2>2, <2>4, StepStreamWindowUpdate
  <2>5. ASSUME NEW n \in 1..MaxLen, OnStreamFrameData(s, n) PROVE IInv'
    BY <1>0, <2>2, <2>5, StepFrameData
  <2>6. ASSUME NEW n \in 1..MaxLen, OnStreamPadding(s, n) PROVE IInv'
    BY <1>0, <2>2, <2>6, StepPadding
  <2>. QED
    BY <1>7, <2>3, <2>4, <2>5, <2>6 DEF Peer
<1>8. ASSUME NEW n \in 0..MaxLen, OnSessionWindowUpdate(n) PROVE IInv'
  <2>1. drained = "no"
    BY <1>8 DEF OnSessionWindowUpdate, Idle
  <2>. QED
    BY <1>0, <1>8, <2>1, StepSessionWindowUpdate
<1>9. ASSUME NEW value \in SettingValues, HandleSetting(value) PROVE IInv'
  <2>1. drained = "no"
    BY <1>9 DEF HandleSetting, Idle
  <2>. QED
    BY <1>0, <1>9, <2>1, StepHandleSetting
<1>. QED
  BY <1>1, <1>2, <1>3, <1>4, <1>5, <1>6, <1>7, <1>8, <1>9 DEF Next

\* A step that changes nothing keeps it too.
LEMMA StutterKeeps ==
  ASSUME IInv, UNCHANGED vars
  PROVE  IInv'
<1>1. /\ drained' = drained /\ initial_window' = initial_window
      /\ send_window' = send_window /\ unstall' = unstall /\ resuming' = resuming
      /\ requeue' = requeue /\ adjust' = adjust /\ queue' = queue
      /\ in_flight' = in_flight /\ write_state' = write_state /\ in_io_loop' = in_io_loop
      /\ recv_window' = recv_window /\ unacked' = unacked /\ held' = held
      /\ stream' = stream /\ peer' = peer /\ events' = events
  BY DEF vars, sendVars, loopVars, writeVars, recvVars
<1>2. FlowControlKept'
  BY <1>1 DEF IInv, FlowControlKept
<1>3. ASSUME drained = "no" PROVE Live'
  <2>1. Live
    BY <1>3 DEF IInv
  <2>2. OneLoop'
    BY <1>1, <2>1 DEF Live, OneLoop
  <2>3. ASSUME NEW t \in Streams PROVE WakerOK(t)'
    <3>1. Waits(t, stream[t].window) => Waits(t, stream[t].window)'
      BY <1>1 DEF Waits, IsSendStalled
    <3>. QED
      BY <1>1, <2>1, <3>1, QuietWaker
  <2>. QED
    BY <1>1, <2>1, <2>2, <2>3, SamePeer, QuietStep DEF Live, Types, recvVars
<1>. QED
  BY <1>1, <1>2, <1>3 DEF IInv

(***************************************************************************)
(* The inductive invariant of the session holds in every state: every      *)
(* frame, byte and stalled stream is accounted for at each point of each   *)
(* of its loops.                                                           *)
(***************************************************************************)
THEOREM Invariant == Spec => []IInv
<1>1. Init => IInv
  BY InitHolds
<1>2. IInv /\ [Next]_vars => IInv'
  BY NextKeeps, StutterKeeps
<1>. QED
  BY <1>1, <1>2, PTL DEF Spec

\* SendWindowsExact: no byte of a send window is lost or made up, whatever is
\* discarded, split, padded, resumed or resized (SpdySession, SpdyStream).
THEOREM SendWindowsAreExact == Spec => []SendWindowsExact
<1>1. IInv => SendWindowsExact
  <2>. SUFFICES ASSUME IInv, drained = "no" PROVE SendWindowsExact
    BY DEF SendWindowsExact
  <2>1. Types /\ SendOK
    BY DEF IInv, Live
  <2>2. send_window \in Nat /\ stream \in [Streams -> StreamType]
    BY <2>1 DEF Types
  <2>3. send_window + Total({"DATA", "RST_STREAM"}, Streams) = peer.credit
    BY <2>1 DEF SendOK, SessionAccount, SessionOut, Total, Of
  <2>4. ASSUME NEW s \in Streams, Known(s), s \notin adjust.todo
        PROVE  stream[s].window + Total({"DATA"}, {s}) = peer.streamCredit[s]
    <3>1. /\ stream[s].window + 0 + StreamOut(Outgoing, s) = peer.streamCredit[s]
          /\ stream[s].window \in Int
      BY <2>1, <2>2, <2>4 DEF SendOK, StreamAccount, Known, StreamType
    <3>2. stream[s].window + 0 = stream[s].window
      BY <3>1
    <3>. QED
      BY <3>1, <3>2 DEF StreamOut, Total, Of
  <2>. QED
    BY <2>2, <2>3, <2>4 DEF SendWindowsExact
<1>. QED
  BY <1>1, Invariant, PTL

\* FlowControlKept: the peer gets no byte beyond the windows it gave, and is
\* not blamed for windows that it kept (CreateDataBuffer, IncreaseSendWindowSize,
\* DecreaseRecvWindowSize).
THEOREM FlowControlIsKept == Spec => []FlowControlKept
<1>1. IInv => FlowControlKept
  BY DEF IInv
<1>. QED
  BY <1>1, Invariant, PTL

\* EveryWriteHasWaker: between two events each write in progress has a frame
\* under way or waits in the unstall queue (QueueSendStalledStream,
\* ResumeSendStalledStreams).
THEOREM EveryWriteIsWoken == Spec => []EveryWriteHasWaker
<1>1. IInv => EveryWriteHasWaker
  <2>. SUFFICES ASSUME IInv, Idle, NEW s \in Streams, Active(s), stream[s].pending > 0
                PROVE  IF stream[s].stalled
                       THEN /\ s \in ToSet(unstall)
                            /\ IsSendStalled \/ stream[s].window <= 0
                       ELSE \E f \in Outgoing :
                              {g \in Outgoing : g.type = "DATA" /\ g.stream = s} = {f}
    BY DEF EveryWriteHasWaker
  <2>1. Types /\ OneLoop /\ WakerOK(s) /\ ~resuming
    BY DEF IInv, Live, WakersOK, Idle
  <2>2. stream[s].state # "closed"
    BY DEF Active
  <2>3. ToSet(requeue) = {}
    <3>1. requeue = <<>> /\ requeue \in Seq(Streams)
      BY <2>1 DEF OneLoop, Types
    <3>. QED
      BY <3>1, QueueMembers
  <2>4. CASE stream[s].stalled
    BY <2>1, <2>2, <2>3, <2>4 DEF WakerOK, Waits
  <2>5. CASE ~stream[s].stalled
    BY <2>1, <2>2, <2>5 DEF WakerOK, DataOf
  <2>. QED
    BY <2>4, <2>5
<1>. QED
  BY <1>1, Invariant, PTL

\* ReceiveWindowReturned: what nobody holds any more is given back to the peer
\* but for less than half of a window (IncreaseRecvWindowSize).
THEOREM ReceiveWindowIsReturned == Spec => []ReceiveWindowReturned
<1>1. IInv => ReceiveWindowReturned
  <2>. SUFFICES ASSUME IInv, drained = "no" PROVE ReceiveWindowReturned
    BY DEF ReceiveWindowReturned
  <2>1. Types /\ RecvOK
    BY DEF IInv, Live
  <2>2. /\ stream \in [Streams -> StreamType] /\ peer \in PeerType
        /\ recv_window \in Int /\ unacked \in Nat
    BY <2>1 DEF Types
  <2>3. ASSUME \A s \in Streams : held[s] = 0, Total({"WINDOW_UPDATE"}, {0}) = 0
        PROVE  2 * peer.window >= SessionMaxRecv
    <3>1. Cardinality(HeldBytes(held)) = 0
      BY <2>3, HeldNone
    <3>2. UpdateOut(Outgoing, 0) = 0
      BY <2>3 DEF UpdateOut, Total, Of
    <3>3. /\ recv_window - unacked = peer.window + 0
          /\ recv_window + 0 = SessionMaxRecv /\ unacked <= SessionMaxRecv \div 2
      BY <2>1, <3>1, <3>2 DEF RecvOK, SessionRecv
    <3>4. peer.window \in Int
      BY <2>2 DEF PeerType
    <3>. QED
      BY <2>2, <3>3, <3>4, RecvAssumption
  <2>4. ASSUME NEW s \in Streams, Active(s), held[s] = 0, Total({"WINDOW_UPDATE"}, {s}) = 0
        PROVE  2 * peer.streamWindow[s] >= StreamMaxRecv
    <3>1. UpdateOut(Outgoing, s) = 0 /\ stream[s].state # "closed"
      BY <2>4 DEF UpdateOut, Total, Of, Active
    <3>2. /\ stream[s].recv - stream[s].unacked = peer.streamWindow[s] + 0
          /\ stream[s].recv + 0 = StreamMaxRecv /\ stream[s].unacked <= StreamMaxRecv \div 2
      BY <2>1, <2>4, <3>1 DEF RecvOK, StreamRecv
    <3>3. /\ peer.streamWindow[s] \in Int /\ stream[s].recv \in Int
          /\ stream[s].unacked \in Nat
      BY <2>2 DEF PeerType, StreamType
    <3>. QED
      BY <3>2, <3>3, RecvAssumption
  <2>. QED
    BY <2>3, <2>4 DEF ReceiveWindowReturned
<1>. QED
  BY <1>1, Invariant, PTL

\* ResetIsLast: a RST_STREAM is the last the peer hears of a stream
\* (ResetStreamIterator).
THEOREM ResetIsTheLast == Spec => []ResetIsLast
<1>1. IInv => ResetIsLast
  BY DEF IInv, Live, ResetOK, ResetIsLast
<1>. QED
  BY <1>1, Invariant, PTL
=============================================================================
