------------------------------ MODULE ByteRelay ------------------------------
(***************************************************************************)
(* What a relay of byte streams promises: in each of its lanes the bytes   *)
(* it gives are the bytes it took, in order and each once; it holds at     *)
(* most one buffer per lane (nothing more is taken before everything taken *)
(* was given); once closed it moves no byte.                               *)
(***************************************************************************)
EXTENDS Sequences, SequencesExt

CONSTANT Lanes

VARIABLES
  taken,  \* taken[l]: the bytes read at the near end of lane l
  given,  \* given[l]: the bytes written at the far end of lane l
  open

vars == <<taken, given, open>>

Empty == [l \in Lanes |-> <<>>]

Init == taken = Empty /\ given = Empty /\ open = TRUE

Take(l) ==
  /\ open
  /\ given[l] = taken[l]
  /\ IsStrictPrefix(taken[l], taken'[l])
  /\ \A m \in Lanes \ {l} : taken'[m] = taken[m]
  /\ UNCHANGED <<given, open>>

Give(l) ==
  /\ open
  /\ IsStrictPrefix(given[l], given'[l])
  /\ IsPrefix(given'[l], taken[l])
  /\ \A m \in Lanes \ {l} : given'[m] = given[m]
  /\ UNCHANGED <<taken, open>>

Close ==
  /\ open
  /\ open' = FALSE
  /\ UNCHANGED <<taken, given>>

Next == Close \/ \E l \in Lanes : Take(l) \/ Give(l)

Spec == Init /\ [][Next]_vars
=============================================================================
