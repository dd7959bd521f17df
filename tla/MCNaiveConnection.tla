-------------------------- MODULE MCNaiveConnection --------------------------
(***************************************************************************)
(* Instances of NaiveConnection for TLC.                                   *)
(***************************************************************************)
EXTENDS NaiveConnection

\* Payload bytes are distinct and none looks like a header byte.
Bytes(first, n) == [i \in 1..n |-> first + i]

SmallData == [s \in Sides |-> IF s = kClient THEN Bytes(10, 2) ELSE Bytes(20, 2)]

\* Only the client sends.
ClientData == [s \in Sides |-> IF s = kClient THEN Bytes(10, 1) ELSE <<>>]
=============================================================================
