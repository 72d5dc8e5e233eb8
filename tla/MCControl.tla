----------------------------- MODULE MCControl -----------------------------
(***************************************************************************)
(* TLC instances of Control.  The safety runs treat connections of a kind  *)
(* as interchangeable; none of the properties or actions tells them apart. *)
(***************************************************************************)
EXTENDS Control, TLC

Symmetry == Permutations(Ctls) \cup Permutations(Pxys)
                \cup Permutations(Pubs) \cup Permutations(Urls)
=============================================================================
