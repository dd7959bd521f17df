---------------------------- MODULE PaddedStream ----------------------------
(***************************************************************************)
(* One padded direction end to end: the naive instance that adds padding   *)
(* pushes buffers into a byte stream (the tunnel, which cuts and joins     *)
(* them as it likes) and the naive instance at the other end removes it.   *)
(***************************************************************************)
EXTENDS PaddingCodec, SequencesExt, FiniteSetsExt

CONSTANTS
  PayloadSizes,  \* sizes of a buffer that the adding side reads
  PaddingSizes,  \* outcomes of RandInt(0, kMaxPaddingSize) explored
  MaxPushes      \* bound on the number of buffers

ASSUME PayloadSizesAssumption == PayloadSizes \subseteq 1..PaddedReadSize
ASSUME PaddingSizesAssumption == PaddingSizes \subseteq 0..kMaxPaddingSize
ASSUME MaxPushesAssumption == MaxPushes \in Nat

VARIABLES
  source,     \* payload handed to the adding side
  pushes,     \* number of buffers pushed
  num_added,  \* num_paddings_ of the adding side
  wire,       \* bytes in the tunnel
  unpadder,   \* the removing side: num_paddings_ and the parser
  sink        \* payload written by the removing side

vars == <<source, pushes, num_added, wire, unpadder, sink>>

\* The n-th payload byte; no two are equal and none looks like a header.
PayloadByte(n) == ByteBase + n
Fresh(size) == [i \in 1..size |-> PayloadByte(Len(source) + i)]

Init ==
  /\ source = <<>> /\ pushes = 0 /\ num_added = 0
  /\ wire = <<>>
  /\ unpadder = NewUnpadder /\ sink = <<>>

\* Push with from = padding direction.
PushAdding ==
  /\ pushes < MaxPushes
  /\ \E size \in PayloadSizes :
       /\ source' = source \o Fresh(size)
       /\ IF num_added < kFirstPaddings
          THEN /\ num_added' = num_added + 1
               /\ \E pad \in PaddingSizes :
                    wire' = wire \o AddPadding(Fresh(size), pad)
          ELSE /\ wire' = wire \o Fresh(size)
               /\ UNCHANGED num_added
  /\ pushes' = pushes + 1
  /\ UNCHANGED <<unpadder, sink>>

\* Push with to = padding direction, of whatever one Read returned.
PushRemoving ==
  /\ \E n \in 1..Min({Len(wire), kBufferSize}) :
       LET p == SubSeq(wire, 1, n)
           r == RemovePadding(unpadder, p)
       IN /\ IF unpadder.num_paddings < kFirstPaddings
             THEN unpadder' = r.u /\ sink' = sink \o r.out
             ELSE UNCHANGED unpadder /\ sink' = sink \o p
          /\ wire' = SubSeq(wire, n + 1, Len(wire))
  /\ UNCHANGED <<source, pushes, num_added>>

Next == PushAdding \/ PushRemoving

Spec == Init /\ [][Next]_vars

-----------------------------------------------------------------------------
(***************************************************************************)
(* However the tunnel cuts the stream (in the middle of a header, between  *)
(* an empty padding and the next frame, several frames in one Read), what  *)
(* Push's parser wrote so far is payload in order: nothing of a header, of *)
(* padding or of a later frame.  And when every byte of the tunnel was     *)
(* read the whole payload came out: none is held back waiting for a later  *)
(* frame, also at the transition from the last framed buffer to the raw    *)
(* stream.                                                                 *)
(***************************************************************************)
PayloadDelivered ==
  /\ IsPrefix(sink, source)
  /\ wire = <<>> => sink = source

(***************************************************************************)
(* The two ends never disagree about the last frame: when the tunnel is    *)
(* empty the removing side is at most the empty padding of the last frame  *)
(* behind the adding side, and what it will do with the next byte is what  *)
(* the adding side does (parse a header, or copy).                         *)
(***************************************************************************)
EndsAgree ==
  wire = <<>> =>
    \/ /\ unpadder.num_paddings = num_added
       /\ unpadder.state = "READ_PAYLOAD_LENGTH_1"
    \/ /\ unpadder.num_paddings = num_added - 1
       /\ unpadder.state = "READ_PADDING"
       /\ unpadder.padding_length = 0
=============================================================================
