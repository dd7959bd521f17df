------------------------ MODULE MCPaddingNegotiation ------------------------
(***************************************************************************)
(* Three connections, which differ in nothing but their name: enough for   *)
(* one to decide by the late reply of another while its own is heard.      *)
(***************************************************************************)
EXTENDS PaddingNegotiation, TLC

ConnSymmetry == Permutations(Conns)
=============================================================================
