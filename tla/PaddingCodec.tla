---------------------------- MODULE PaddingCodec ----------------------------
(***************************************************************************)
(* The padding layer of NaiveConnection::Push: the first kFirstPaddings    *)
(* buffers of a padded direction travel as frames                          *)
(*    length / 256, length % 256, padding size, payload, zero padding      *)
(* and the rest of the stream is raw.  Bytes are naturals; the radix 256   *)
(* of a byte is the constant ByteBase, and the buffer sizes are derived    *)
(* from it as in the code.                                                 *)
(***************************************************************************)
EXTENDS Integers, Sequences

CONSTANTS
  kFirstPaddings,  \* how many buffers are framed (8 in the code)
  ByteBase         \* number of values of a byte (256 in the code)

ASSUME kFirstPaddingsAssumption == kFirstPaddings \in Nat
\* ByteBase^2 must leave room for a header, the longest padding and a payload.
ASSUME ByteBaseAssumption == ByteBase \in Nat /\ ByteBase >= 3

kPaddingHeaderSize == 3
kMaxPaddingSize == ByteBase - 1
kBufferSize == ByteBase * ByteBase

\* How much Pull asks for when the buffer will be framed in place.
PaddedReadSize == kBufferSize - kPaddingHeaderSize - kMaxPaddingSize

ToByte(n) == n % ByteBase

Zeros(n) == [i \in 1..n |-> 0]

\* The branch "Adds padding" of Push.
AddPadding(data, padding_size) ==
  <<ToByte(Len(data) \div ByteBase), Len(data) % ByteBase, padding_size>>
    \o data \o Zeros(padding_size)

(***************************************************************************)
(* Removing padding.  An unpadder is the part of the connection that       *)
(* survives from one buffer to the next: read_padding_state_,              *)
(* payload_length_, padding_length_ and num_paddings_[from].               *)
(***************************************************************************)
PaddingStates == {"READ_PAYLOAD_LENGTH_1", "READ_PAYLOAD_LENGTH_2",
                  "READ_PADDING_LENGTH", "READ_PAYLOAD", "READ_PADDING"}

NewUnpadder == [state |-> "READ_PAYLOAD_LENGTH_1", payload_length |-> 0,
                padding_length |-> 0, num_paddings |-> 0]

\* The fast path: the buffer is exactly one frame.
TrivialPadding(u, p) ==
  /\ u.state = "READ_PAYLOAD_LENGTH_1"
  /\ Len(p) >= kPaddingHeaderSize
  /\ Len(p) = kPaddingHeaderSize + p[1] * ByteBase + p[2] + p[3]

\* Mutant: framing never ends inside a buffer.
RawFromHereNever(u) == FALSE

\* After the last frame the rest of the buffer is copied as it is.
RawFromHere(u) ==
  u.num_paddings >= kFirstPaddings /\ u.state = "READ_PAYLOAD_LENGTH_1"

Lesser(a, b) == IF a <= b THEN a ELSE b

\* One iteration of the loop, over the buffer p; s holds the unpadder u, the
\* number i of bytes read and the bytes out copied so far.
LoopStep(s, p) ==
  LET u    == s.u
      left == Len(p) - s.i
      byte == p[s.i + 1]
      body == Lesser(u.payload_length, left)
      pad  == Lesser(u.padding_length, left)
  IN CASE RawFromHere(u) ->
            [s EXCEPT !.i = Len(p), !.out = @ \o SubSeq(p, s.i + 1, Len(p))]
       [] u.state = "READ_PAYLOAD_LENGTH_1" /\ ~RawFromHere(u) ->
            [s EXCEPT !.i = @ + 1, !.u.payload_length = byte,
                      !.u.state = "READ_PAYLOAD_LENGTH_2"]
       [] u.state = "READ_PAYLOAD_LENGTH_2" ->
            [s EXCEPT !.i = @ + 1, !.u.payload_length = @ * ByteBase + byte,
                      !.u.state = "READ_PADDING_LENGTH"]
       [] u.state = "READ_PADDING_LENGTH" ->
            [s EXCEPT !.i = @ + 1, !.u.padding_length = byte,
                      !.u.state = "READ_PAYLOAD"]
       [] u.state = "READ_PAYLOAD" ->
            [s EXCEPT !.i = @ + body,
                      !.out = @ \o SubSeq(p, s.i + 1, s.i + body),
                      !.u.payload_length = @ - body,
                      !.u.state = IF u.payload_length <= left
                                  THEN "READ_PADDING" ELSE @]
       [] u.state = "READ_PADDING" ->
            [s EXCEPT !.i = @ + pad, !.u.padding_length = @ - pad,
                      !.u.state = IF u.padding_length <= left
                                  THEN "READ_PAYLOAD_LENGTH_1" ELSE @,
                      !.u.num_paddings = IF u.padding_length <= left
                                         THEN @ + 1 ELSE @]

\* The loop ends when every byte is read.  An iteration that reads no byte is
\* an empty payload or an empty padding, at most two for each header, so
\* 2 * Len(p) + 2 iterations are enough.  (TLC evaluates a LET anew at each
\* use; a bound variable holds the state before an iteration once.)
UnpadLoop(u, p) ==
  LET iterations == 2 * Len(p) + 2
      after[k \in 0..iterations] ==
        IF k = 0 THEN [u |-> u, i |-> 0, out |-> <<>>]
        ELSE CHOOSE t \in {IF s.i < Len(p) THEN LoopStep(s, p) ELSE s :
                             s \in {after[k - 1]}} : TRUE
  IN after[iterations]

\* Mutant: the fast path does not count its frame.
RemovePaddingUncounted(u, p) ==
  IF TrivialPadding(u, p)
  THEN [u |-> u, out |-> SubSeq(p, kPaddingHeaderSize + 1,
                                kPaddingHeaderSize + p[1] * ByteBase + p[2])]
  ELSE LET s == UnpadLoop(u, p) IN [u |-> s.u, out |-> s.out]

\* The branch "Removes padding" of Push: the unpadder after the buffer p and
\* the payload found in it.
RemovePadding(u, p) ==
  IF TrivialPadding(u, p)
  THEN [u |-> [u EXCEPT !.num_paddings = @ + 1],
        out |-> SubSeq(p, kPaddingHeaderSize + 1,
                       kPaddingHeaderSize + p[1] * ByteBase + p[2])]
  ELSE LET s == UnpadLoop(u, p) IN [u |-> s.u, out |-> s.out]

(***************************************************************************)
(* The reference: what a prefix of a padded stream carries, by the frame   *)
(* format alone.                                                           *)
(***************************************************************************)
Payload(stream) ==
  LET len == Len(stream)
      from[at \in 1..(len + 1), n \in 0..kFirstPaddings] ==
        IF n = kFirstPaddings THEN SubSeq(stream, at, len)
        ELSE IF at + 2 > len THEN <<>>
        ELSE LET body == stream[at] * ByteBase + stream[at + 1]
                 next == at + 3 + body + stream[at + 2]
             IN IF next > len + 1
                THEN SubSeq(stream, at + 3,
                            IF at + 2 + body <= len THEN at + 2 + body ELSE len)
                ELSE SubSeq(stream, at + 3, at + 2 + body) \o from[next, n + 1]
  IN from[1, 0]
=============================================================================
