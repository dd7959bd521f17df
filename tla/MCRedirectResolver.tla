------------------------- MODULE MCRedirectResolver -------------------------
(***************************************************************************)
(* RedirectResolver for TLC.  The code treats all names alike.             *)
(***************************************************************************)
EXTENDS RedirectResolver

NameSymmetry == Permutations(Names)
=============================================================================
